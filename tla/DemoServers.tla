----------------------------- MODULE DemoServers ------------------------------
(***************************************************************************)
(* The two demo servers (mcps-demo-fileserver, mcps-demo-server) and the   *)
(* ways they are run.                                                      *)
(***************************************************************************)
EXTENDS Naturals, Sequences, SequencesExt

(***************************************************************************)
(* The demo file server (mcps-demo-fileserver/src/server.rs): four tools   *)
(* over the files below a configured root. A file system maps paths, as    *)
(* sequences of names, to nodes; a link holds the absolute path it leads   *)
(* to. Nothing else writes to it during a call.                            *)
(***************************************************************************)

CONSTANTS
    MaxFileBytes,   \* MAX_FILE_BYTES
    MaxLinks        \* links the kernel follows in one lookup

Dir          == [kind |-> "dir",  to |-> <<>>, size |-> 0, utf8 |-> TRUE]
PlainFile(n) == [kind |-> "file", to |-> <<>>, size |-> n, utf8 |-> TRUE]
Binary       == [kind |-> "file", to |-> <<>>, size |-> 1, utf8 |-> FALSE]
LinkTo(path) == [kind |-> "link", to |-> path, size |-> 0, utf8 |-> TRUE]

Nowhere == <<"nowhere">>    \* no path of a file system

(* canonicalize(): every link on the way is followed, the last included.   *)
RECURSIVE Walk(_, _, _, _)
Walk(fs, at, rest, links) ==
    IF rest = <<>> THEN at
    ELSE LET next == Append(at, Head(rest))
         IN  IF next \notin DOMAIN fs THEN Nowhere
             ELSE CASE fs[next].kind = "dir"  -> Walk(fs, next, Tail(rest), links)
                    [] fs[next].kind = "file" -> IF Tail(rest) = <<>> THEN next ELSE Nowhere
                    [] fs[next].kind = "link" ->
                         IF links = 0 THEN Nowhere
                         ELSE Walk(fs, <<>>, fs[next].to \o Tail(rest), links - 1)

Canonicalize(fs, path) == Walk(fs, <<>>, path, MaxLinks)

(* The file open() creates or truncates for writing at path: the one at    *)
(* the end of the links.                                                   *)
RECURSIVE OpenedAt(_, _, _)
OpenedAt(fs, path, links) ==
    LET parent == Canonicalize(fs, Front(path))
        entry == Append(parent, Last(path))
    IN  IF parent = Nowhere \/ (parent # <<>> /\ fs[parent].kind # "dir") THEN Nowhere
        ELSE IF entry \notin DOMAIN fs THEN entry
        ELSE CASE fs[entry].kind = "dir"  -> Nowhere
               [] fs[entry].kind = "file" -> entry
               [] fs[entry].kind = "link" ->
                    IF links = 0 \/ fs[entry].to = <<>> THEN Nowhere
                    ELSE OpenedAt(fs, fs[entry].to, links - 1)

-----------------------------------------------------------------------------
(* A requested path is [absolute, parts], the parts as the client wrote    *)
(* them.  Path::components drops every "." but a leading one.              *)

PathComponents(path) == SelectSeq(path.parts, LAMBDA p : p # ".")

EscapesLexically(path) == path.absolute \/ ".." \in Range(path.parts)

Success(value)  == [ok |-> TRUE, value |-> value]
Failure(reason) == [ok |-> FALSE, value |-> reason]

ResolveWithinRoot_LexicalOnly(fs, root, path) ==
    LET joined == root \o PathComponents(path)
        target == Canonicalize(fs, joined)
    IN  IF EscapesLexically(path) THEN Failure("PathEscapesRoot")
        ELSE IF Canonicalize(fs, root) = Nowhere THEN Failure("ReadDir")
        ELSE Success(IF target = Nowhere THEN joined ELSE target)

ResolveWithinRoot(fs, root, path) ==
    LET joined == root \o PathComponents(path)
        target == Canonicalize(fs, joined)
    IN  IF EscapesLexically(path) THEN Failure("PathEscapesRoot")
        ELSE IF Canonicalize(fs, root) = Nowhere THEN Failure("ReadDir")
        ELSE IF target = Nowhere THEN Success(joined)
        ELSE IF ~IsPrefix(Canonicalize(fs, root), target) THEN Failure("PathEscapesRoot")
        ELSE Success(target)

(* The target need not exist, so it is its parent that is confined.        *)
ResolveForWrite(fs, root, path) ==
    LET components == PathComponents(path)
        parent == Canonicalize(fs, root \o Front(components))
    IN  IF EscapesLexically(path) THEN Failure("PathEscapesRoot")
        ELSE IF components = <<>> THEN Failure("InvalidParams")
        ELSE IF Canonicalize(fs, root) = Nowhere THEN Failure("ReadDir")
        ELSE IF parent = Nowhere THEN Failure("Io")
        ELSE IF ~IsPrefix(Canonicalize(fs, root), parent) THEN Failure("PathEscapesRoot")
        ELSE Success(Append(parent, Last(components)))

-----------------------------------------------------------------------------
(* The tools.  What they report of a node is its kind, size and text.      *)

Lookup(fs, path) == Canonicalize(fs, path)      \* metadata() follows links

(* DirEntry::metadata does not follow a link: it is listed as a file.      *)
ListFiles(fs, root, path) ==
    LET resolved == ResolveWithinRoot(fs, root, path)
    IN  IF ~resolved.ok THEN resolved
        ELSE LET at == Lookup(fs, resolved.value)
             IN  IF at = Nowhere THEN Failure("ReadDir")
                 ELSE IF at # <<>> /\ fs[at].kind # "dir" THEN Failure("ReadDir")
                 ELSE Success({<<Last(p), IF fs[p].kind = "dir" THEN "directory" ELSE "file", fs[p].size>> :
                             p \in {p \in DOMAIN fs : Front(p) = at}})

ReadFile(fs, root, path) ==
    LET resolved == ResolveWithinRoot(fs, root, path)
    IN  IF ~resolved.ok THEN resolved
        ELSE LET at == Lookup(fs, resolved.value)
             IN  IF at = Nowhere THEN Failure("Io")
                 ELSE IF at = <<>> \/ fs[at].kind = "dir" THEN Failure("Io")
                 ELSE IF fs[at].size > MaxFileBytes THEN Failure("TooLarge")
                 ELSE IF ~fs[at].utf8 THEN Failure("NotUtf8")
                 ELSE Success({<<"text", "file", fs[at].size>>})

Stat(fs, root, path) ==
    LET resolved == ResolveWithinRoot(fs, root, path)
    IN  IF ~resolved.ok THEN resolved
        ELSE LET at == Lookup(fs, resolved.value)
             IN  IF at = Nowhere THEN Failure("Io")
                 ELSE IF at = <<>> \/ fs[at].kind = "dir" THEN Success({<<"stat", "directory", 0>>})
                 ELSE Success({<<"stat", "file", fs[at].size>>})

(* fs::write opens with truncation and then writes: a write that fails     *)
(* half way leaves the file it opened empty.  The result and the file      *)
(* system it leaves.                                                       *)
WriteAt(fs, at, size, disk_full) ==
    LET Left(n) == [p \in DOMAIN fs \cup {at} |-> IF p = at THEN PlainFile(n) ELSE fs[p]]
    IN  IF at = Nowhere THEN [result |-> Failure("Io"), fs |-> fs]
        ELSE IF disk_full /\ size > 0 THEN [result |-> Failure("Io"), fs |-> Left(0)]
        ELSE [result |-> Success({<<"written", "file", size>>}), fs |-> Left(size)]

WriteFile(fs, root, path, size, disk_full) ==
    LET Write(target) ==
            IF ~target.ok THEN [result |-> target, fs |-> fs]
            ELSE WriteAt(fs, OpenedAt(fs, target.value, MaxLinks), size, disk_full)
    IN  IF size > MaxFileBytes THEN [result |-> Failure("TooLarge"), fs |-> fs]
        ELSE Write(ResolveForWrite(fs, root, path))

-----------------------------------------------------------------------------
(* handle and dispatch.  A request is [json, id, method, tool, path,       *)
(* content]: "none" where a member is missing or no string, <<>> for a     *)
(* missing path; content is the size of the text, or -1.                   *)

FileTools == {"list_files", "read_file", "stat", "write_file"}

Reply(id, kind, body) == [id |-> id, kind |-> kind, body |-> body]

(* An error of a tool is a result that says so; only a protocol fault is a *)
(* JSON-RPC error.                                                         *)
ToolReply(id, result) ==
    Reply(id, IF result.ok THEN "result" ELSE "toolError", result.value)

(* str_arg of the tool's arguments.                                        *)
HasArguments(request) ==
    request.path # <<>> /\ (request.tool = "write_file" => request.content # -1)

(* tools_call_result: a known tool is recorded before it runs.             *)
FileToolsCall(fs, root, request, disk_full) ==
    IF request.tool \notin FileTools
    THEN [reply |-> Reply(request.id, "error", IF request.tool = "none" THEN "InvalidParams" ELSE "UnknownTool"),
          fs |-> fs, recorded |-> <<>>]
    ELSE LET record == <<<<request.id, request.tool>>>>
             path == request.path[1]
             Read(result) == [reply |-> ToolReply(request.id, result), fs |-> fs, recorded |-> record]
             Written(w) == [reply |-> ToolReply(request.id, w.result), fs |-> w.fs, recorded |-> record]
         IN  IF ~HasArguments(request)
             THEN [reply |-> Reply(request.id, "error", "InvalidParams"), fs |-> fs, recorded |-> record]
             ELSE CASE request.tool = "list_files" -> Read(ListFiles(fs, root, path))
                    [] request.tool = "read_file"  -> Read(ReadFile(fs, root, path))
                    [] request.tool = "stat"       -> Read(Stat(fs, root, path))
                    [] request.tool = "write_file" ->
                         Written(WriteFile(fs, root, path, request.content, disk_full))

FileHandle(fs, root, request, disk_full) ==
    LET Fault(reason) == [reply |-> Reply(request.id, "error", reason), fs |-> fs, recorded |-> <<>>]
        Fixed(body)   == [reply |-> Reply(request.id, "result", body), fs |-> fs, recorded |-> <<>>]
    IN  CASE ~request.json -> Fault("ParseError")
          [] request.json /\ request.method = "none" -> Fault("InvalidRequest")
          [] request.method \in {"initialize", "tools/list"} -> Fixed(request.method)
          [] request.method = "tools/call" -> FileToolsCall(fs, root, request, disk_full)
          [] request.json /\ request.method \notin {"none", "initialize", "tools/list", "tools/call"} ->
                Fault("MethodNotFound")

-----------------------------------------------------------------------------

Inside(fs, root, path) == IsPrefix(Canonicalize(fs, root), path)

(* What a successful list_files, read_file or stat reports is the same     *)
(* when the two file systems differ only in the files and directories, not *)
(* the links, outside the root: no link and no spelling of a path makes    *)
(* these tools report on what is not below it.                             *)
ReportsOnlyTheInside(fs, other, root, request) ==
    LET Report(f) == FileHandle(f, root, request, FALSE).reply
        Shared(f) == {p \in DOMAIN f : Inside(f, root, p) \/ f[p].kind = "link"}
    IN  /\ request.json /\ request.method = "tools/call" /\ request.tool # "write_file"
        /\ Shared(fs) = Shared(other) /\ \A p \in Shared(fs) : fs[p] = other[p]
        /\ Report(fs).kind = "result" /\ Report(other).kind = "result"
        => Report(fs) = Report(other)

(* write_file changes a file below the root, or the one that a link in the *)
(* last place leads to: the check is on the parent of the target, and      *)
(* fs::write follows a link that the target itself is.                     *)
WritesOnlyTheInside(fs, root, request, disk_full) ==
    LET after == FileHandle(fs, root, request, disk_full).fs
        LedTo(p) == \E q \in DOMAIN fs : /\ Inside(fs, root, q) /\ fs[q].kind = "link"
                                         /\ Last(q) = Last(PathComponents(request.path[1]))
                                         /\ OpenedAt(fs, q, MaxLinks) = p
    IN  \A p \in DOMAIN after :
            (p \in DOMAIN fs => fs[p] # after[p]) => Inside(fs, root, p) \/ LedTo(p)

-----------------------------------------------------------------------------
(***************************************************************************)
(* The long-lived demo server (mcps-demo-server/src/server.rs): three      *)
(* tools over a list of items, behind the initialize handshake of MCP.     *)
(* Requests and replies are those of the file server; the argument of echo *)
(* is present when content is not -1.                                      *)
(***************************************************************************)

Seed == <<"alpha", "beta", "gamma">>    \* default_seed

DemoTools == {"echo", "list_items", "reset_items"}

(* DemoServer::new                                                         *)
NewDemoServer == [initialized |-> FALSE, items |-> Seed]

DemoAnswer(server, reply, recorded) == [server |-> server, reply |-> reply, recorded |-> recorded]

(* tools_call_result: a tool that runs is recorded before it does.         *)
DemoToolsCall(server, request) ==
    IF request.tool \notin DemoTools
    THEN DemoAnswer(server, Reply(request.id, "error",
                        IF request.tool = "none" THEN "InvalidParams" ELSE "UnknownTool"), <<>>)
    ELSE LET Ran(after, kind, body) ==
                 DemoAnswer(after, Reply(request.id, kind, body), <<<<request.id, request.tool>>>>)
         IN  CASE request.tool = "echo" /\ request.content # -1 -> Ran(server, "result", request.content)
               [] request.tool = "echo" /\ request.content = -1 -> Ran(server, "toolError", "no message")
               [] request.tool = "list_items" -> Ran(server, "result", server.items)
               [] request.tool = "reset_items" -> Ran([server EXCEPT !.items = Seed], "result", Seed)

(* handle and dispatch: only initialize and shutdown come before the       *)
(* handshake.                                                              *)
DemoHandle(server, request) ==
    LET Fault(reason) == DemoAnswer(server, Reply(request.id, "error", reason), <<>>)
        Fixed(after, body) == DemoAnswer(after, Reply(request.id, "result", body), <<>>)
    IN  CASE ~request.json -> Fault("ParseError")
          [] request.json /\ request.method = "none" -> Fault("InvalidRequest")
          [] request.json /\ request.method # "none" ->
               IF request.method = "initialize"
               THEN Fixed([server EXCEPT !.initialized = TRUE], "initialize")
               ELSE IF request.method # "shutdown" /\ ~server.initialized THEN Fault("NotInitialized")
               ELSE IF request.method = "tools/call" THEN DemoToolsCall(server, request)
               ELSE IF request.method \in {"tools/list", "shutdown"} THEN Fixed(server, request.method)
               ELSE Fault("MethodNotFound")

(* handle_should_stop                                                      *)
ShouldStop(request) == request.json /\ request.method = "shutdown"

-----------------------------------------------------------------------------
(***************************************************************************)
(* The demo servers in the three ways they are run: behind the proxy with  *)
(* one process per request (SubprocessInner::run), behind it with one      *)
(* process and a handshake (PersistentSubprocessInner), and on their own   *)
(* over standard input (serve_stdio). Each process is one thread, and a    *)
(* line is handled to the end before the next is read, so a line is a      *)
(* step. Timeouts and the death of the process are left to SubprocessInner *)
(* and PersistentInner; here the server decides.                           *)
(***************************************************************************)

CONSTANTS
    Trees,          \* file systems to start from
    Root,           \* --demo-root
    Forwarded,      \* requests the proxy may forward
    InputLines,          \* lines of a client without a proxy: requests, and Blank
    MaxLines        \* lines of a session (a bound)

VARIABLES
    setting,    \* [server, mode]
    files,      \* the file system
    opened,     \* the file system when the running process was started
    demo,       \* the demo server's fields
    process,    \* "none", "up", or "ended": after a shutdown, or refused by the proxy
    received,   \* the received-call log
    lines,      \* lines handled in this session
    last        \* the last request and its reply

sessionVars == <<setting, files, opened, demo, process, received, lines, last>>

Initialize ==
    [json |-> TRUE, id |-> "0", method |-> "initialize", tool |-> "none", path |-> <<>>, content |-> -1]
Blank == [Initialize EXCEPT !.json = FALSE, !.method = "blank"]
NoLine == [request |-> Initialize, reply |-> Reply("0", "none", "none")]
Unavailable == Reply("none", "unavailable", "unavailable")

SessionInit ==
    /\ setting \in [server : {"file", "demo"}, mode : {"oneshot", "persistent", "direct"}]
    /\ files \in Trees /\ opened = files
    /\ demo = NewDemoServer /\ process = "none" /\ received = <<>> /\ lines = 0 /\ last = NoLine

(* handle of either server, on a process in state server.                  *)
Handle(server, request, disk_full) ==
    IF setting.server = "file"
    THEN FileHandle(files, Root, request, disk_full) @@ [server |-> server]
    ELSE DemoHandle(server, request) @@ [fs |-> files]

Stops(request) == setting.server = "demo" /\ ShouldStop(request)

(* run() and with_received_log of main.rs: the log starts afresh.          *)
StartDirect ==
    /\ setting.mode = "direct" /\ process = "none"
    /\ process' = "up" /\ demo' = NewDemoServer /\ received' = <<>> /\ opened' = files
    /\ UNCHANGED <<setting, files, lines, last>>

(* PersistentSubprocessInner::new spawns the child and makes the           *)
(* handshake; it fails if the child refuses it.                            *)
StartPersistent ==
    /\ setting.mode = "persistent" /\ process = "none"
    /\ LET Greeted(a) == /\ process' = IF a.reply.kind = "result" THEN "up" ELSE "ended"
                         /\ demo' = a.server /\ received' = a.recorded
       IN  Greeted(Handle(NewDemoServer, Initialize, FALSE))
    /\ opened' = files
    /\ UNCHANGED <<setting, files, lines, last>>

(* What handling a line leaves behind.                                     *)
Answer(request, a) ==
    /\ files' = a.fs /\ demo' = a.server
    /\ last' = [request |-> request, reply |-> a.reply]

(* One line, handled by the running process.                               *)
Serve(request, disk_full) ==
    LET Took(a) == Answer(request, a) /\ received' = received \o a.recorded
    IN  /\ process = "up"
        /\ Took(Handle(demo, request, disk_full))
        /\ process' = IF Stops(request) THEN "ended" ELSE "up"

DirectLine(line, disk_full) ==
    /\ setting.mode = "direct" /\ lines < MaxLines
    /\ IF line = Blank THEN process = "up" /\ UNCHANGED <<files, demo, received, process, last>>
       ELSE Serve(line, disk_full)
    /\ lines' = lines + 1
    /\ UNCHANGED <<setting, opened>>

(* exchange: a child that is gone has closed its stdout, which poisons the *)
(* session.                                                                *)
DispatchPersistent(request, disk_full) ==
    /\ setting.mode = "persistent" /\ process \in {"up", "ended"} /\ lines < MaxLines
    /\ \/ Serve(request, disk_full)
       \/ /\ process = "ended"
          /\ last' = [request |-> request, reply |-> Unavailable]
          /\ UNCHANGED <<files, demo, received, process>>
    /\ lines' = lines + 1
    /\ UNCHANGED <<setting, opened>>

(* run: a new process, one line, end of file.                              *)
DispatchOneShot(request, disk_full) ==
    /\ setting.mode = "oneshot" /\ lines < MaxLines
    /\ LET Took(a) == Answer(request, a) /\ received' = a.recorded
       IN  Took(Handle(NewDemoServer, request, disk_full))
    /\ opened' = files /\ lines' = lines + 1
    /\ UNCHANGED <<setting, process>>

SessionNext ==
    \/ StartDirect
    \/ StartPersistent
    \/ \E line \in InputLines, disk_full \in BOOLEAN : DirectLine(line, disk_full)
    \/ \E request \in Forwarded, disk_full \in BOOLEAN :
          DispatchPersistent(request, disk_full) \/ DispatchOneShot(request, disk_full)

-----------------------------------------------------------------------------

(* The received log is the inner server's own record of what ran: whenever *)
(* the files differ from what they were when the process started, the log  *)
(* holds a write_file, even if that call was answered with an error.       *)
EffectsAreRecorded ==
    files # opened => \E i \in DOMAIN received : received[i][2] = "write_file"

(* Behind the proxy a forwarded request is answered under its own id; a    *)
(* persistent session never finds the demo server before its handshake and *)
(* is unavailable only once a shutdown was forwarded, while a process of   *)
(* its own per request leaves the demo server uninitialized for every      *)
(* tool.                                                                   *)
SessionServesUntilShutdown ==
    last # NoLine /\ setting.mode # "direct" =>
        /\ last.reply # Unavailable => last.reply.id = last.request.id
        /\ last.reply = Unavailable => setting.server = "demo" /\ demo.initialized
        /\ setting.server = "file" /\ last.request.method = "tools/call" /\ last.request.tool \in FileTools
             => received # <<>>
        /\ setting = [server |-> "demo", mode |-> "oneshot"] => received = <<>>
        /\ setting.mode = "persistent" =>
             /\ process = "up" => demo.initialized \/ setting.server = "file"
             /\ last.reply.kind = "error" =>
                  last.reply.body \in {"InvalidRequest", "InvalidParams", "UnknownTool", "MethodNotFound"}

(* ReportsOnlyTheInside and WritesOnlyTheInside, in every state the        *)
(* sessions reach and for every request; the other file systems are the    *)
(* reachable one with something else in each place outside the root.       *)
ToolsAreConfined ==
    setting.server = "file" /\ lines < MaxLines =>
        \A request \in Forwarded :
            /\ \A p \in {p \in DOMAIN files : ~Inside(files, Root, p) /\ files[p].kind = "file"} :
                 /\ ReportsOnlyTheInside(files, [files EXCEPT ![p] = PlainFile(MaxFileBytes)], Root, request)
                 /\ ReportsOnlyTheInside(files, [q \in DOMAIN files \ {p} |-> files[q]], Root, request)
            /\ \A disk_full \in BOOLEAN : WritesOnlyTheInside(files, Root, request, disk_full)

(* The demonstration servers as the acceptance tests rely on them: what    *)
(* they did is recorded, a session lasts, and the root confines the tools. *)
DemosAreHonest == EffectsAreRecorded /\ SessionServesUntilShutdown /\ ToolsAreConfined
=============================================================================
