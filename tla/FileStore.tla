------------------------------ MODULE FileStore ------------------------------
(***************************************************************************)
(* File operations of a browser application on the origin's private file   *)
(* system (performFilesEffect and performFilesEffectNow,                   *)
(* runtime/wasm/app-runtime.mjs).  Operations are performed one after the  *)
(* other in request order; one on a path awaits the root directory, the    *)
(* parent, the file and its exclusive access handle in turn.  A byte is    *)
(* the number of the request that wrote it, and zero where nothing did.    *)
(***************************************************************************)
EXTENDS Naturals, Sequences, SequencesExt, FiniteSets, Functions

CONSTANTS
    Files,          \* names of files, in one directory
    Operations,     \* the requests the application may make
    MaxRequests,    \* how many it makes
    MaxSize,        \* seeks reach this far
    MaxRefusals     \* times the storage may refuse the root

VARIABLES
    requests,       \* the operations requested, in order
    at,             \* the one being performed
    stage,          \* "start", "root", "parent", "file" or "access"
    failed,         \* requests that failed
    root,           \* is rootPromise set: "unset", "asked", "known" or "refused"
    refused,        \* times the storage refused, and operations that failed of it
    content,        \* the bytes of each file that exists
    locked,         \* files with an open access handle of this application
    foreign,        \* files another worker holds
    handles,        \* state.handles
    nextHandle,
    over            \* has the run ended

vars == <<requests, at, stage, failed, root, refused, content, locked, foreign, handles, nextHandle, over>>

Exists(f) == f \in DOMAIN content
R == requests[at]
Idle == at > Len(requests)
Size(f) == Len(content[f])

\* The modes of open.
Creates(m) == m \in {"w", "a", "w+", "a+"}
Readable(m) == m \in {"r", "r+", "w+", "a+"}
Writable(m) == m # "r"
Appending(m) == m \in {"a", "a+"}
Truncates(m) == m \in {"w", "w+"}

Init ==
    /\ requests = <<>> /\ at = 1 /\ stage = "start" /\ failed = {}
    /\ root = "unset" /\ refused = [storage |-> 0, operations |-> 0]
    /\ content = <<>> /\ locked = {} /\ foreign = {}
    /\ handles = <<>> /\ nextHandle = 1 /\ over = FALSE

\* The operation ends and the next one starts, whether or not it succeeded.
\* Mutant: an operation that fails keeps the later ones from running.
EndChained(ok) ==
    /\ stage' = "start" /\ failed' = IF ok THEN failed ELSE failed \union {at}
    /\ at' = IF ok THEN at + 1 ELSE at
End(ok) == stage' = "start" /\ at' = at + 1 /\ failed' = IF ok THEN failed ELSE failed \union {at}
Go(s) == stage' = s /\ UNCHANGED <<at, failed>>

\* performFilesEffect.
Request(r) ==
    /\ ~over /\ Len(requests) < MaxRequests /\ requests' = Append(requests, r)
    /\ UNCHANGED <<at, stage, failed, root, refused, content, locked, foreign, handles, nextHandle, over>>

-----------------------------------------------------------------------------
\* Operations on a handle: no await.
Open == R.handle \in DOMAIN handles
OnHandle ==
    /\ ~Idle /\ stage = "start" /\ R.op \in {"close", "seek", "read", "write"}
    /\ UNCHANGED <<requests, root, refused, foreign, nextHandle, over>>
NoHandle == OnHandle /\ ~Open /\ End(FALSE) /\ UNCHANGED <<content, locked, handles>>
CloseFile ==
    /\ OnHandle /\ R.op = "close" /\ Open /\ End(TRUE)
    /\ handles' = Restrict(handles, DOMAIN handles \ {R.handle})
    /\ locked' = locked \ {handles[R.handle].file} /\ UNCHANGED content
\* From the start or from the end.
Seek(fromEnd) ==
    /\ OnHandle /\ R.op = "seek" /\ Open /\ End(TRUE)
    /\ handles' = [handles EXCEPT ![R.handle].cursor = IF fromEnd THEN Size(handles[R.handle].file) ELSE R.offset]
    /\ UNCHANGED <<content, locked>>
ReadFile ==
    /\ OnHandle /\ R.op = "read" /\ Open
    /\ LET h == handles[R.handle] IN
       /\ End(Readable(h.mode))
       /\ handles' = [handles EXCEPT ![R.handle].cursor = IF Readable(h.mode) /\ @ < Size(h.file) THEN @ + 1 ELSE @]
    /\ UNCHANGED <<content, locked>>

\* file-write of one byte: an appending handle writes at the end.
\* Mutant: an appending handle writes where it stands.
WritesAtCursor(h) == h.cursor
WritesAt(h) == IF Appending(h.mode) THEN Size(h.file) ELSE h.cursor
WriteFile ==
    /\ OnHandle /\ R.op = "write" /\ Open
    /\ LET h == handles[R.handle]
           p == WritesAt(h)
           old == content[h.file]
       IN IF Writable(h.mode)
          THEN /\ content' = [content EXCEPT ![h.file] =
                    [i \in 1..(IF p + 1 > Len(old) THEN p + 1 ELSE Len(old)) |->
                        IF i = p + 1 THEN at ELSE IF i <= Len(old) THEN old[i] ELSE 0]]
               /\ handles' = [handles EXCEPT ![R.handle].cursor = p + 1] /\ End(TRUE)
          ELSE End(FALSE) /\ UNCHANGED <<content, handles>>
    /\ UNCHANGED locked

-----------------------------------------------------------------------------
\* Operations on a path: filesRoot asks the storage unless it answered.
OnPath(s) == ~Idle /\ stage = s /\ R.op \in {"open", "remove", "info"} /\ UNCHANGED <<requests, foreign, over>>
AskRoot ==
    /\ OnPath("start") /\ Go(IF root = "known" THEN "parent" ELSE "root")
    /\ root' = IF root = "unset" THEN "asked" ELSE root
    /\ UNCHANGED <<refused, content, locked, handles, nextHandle>>

\* Mutant: a refusal is remembered as an answer would be.
RememberedRefusal == "refused"
Remembered == "unset"
RootAnswers(ok) ==
    /\ OnPath("root")
    /\ IF root = "refused" \/ ~ok
       THEN /\ End(FALSE) /\ root' = Remembered
            /\ refused.storage < MaxRefusals
            /\ refused' = [storage |-> refused.storage + (IF root = "asked" THEN 1 ELSE 0), operations |-> refused.operations + 1]
       ELSE Go("parent") /\ root' = "known" /\ UNCHANGED refused
    /\ UNCHANGED <<content, locked, handles, nextHandle>>

\* The parent is there: remove and info look the name up, open goes on.
RemoveEntry ==
    /\ OnPath("parent") /\ R.op = "remove"
    /\ IF Exists(R.file) /\ R.file \notin locked \union foreign
       THEN content' = Restrict(content, DOMAIN content \ {R.file}) /\ End(TRUE)
       ELSE End(FALSE) /\ UNCHANGED content
    /\ UNCHANGED <<root, refused, locked, handles, nextHandle>>
Info ==
    /\ OnPath("parent") /\ R.op = "info" /\ End(Exists(R.file))
    /\ UNCHANGED <<root, refused, content, locked, handles, nextHandle>>
FindFile ==
    /\ OnPath("parent") /\ R.op = "open"
    /\ IF Exists(R.file) \/ Creates(R.mode) THEN Go("file") ELSE End(FALSE)
    /\ content' = IF Creates(R.mode) /\ ~Exists(R.file)
                  THEN [f \in DOMAIN content \union {R.file} |-> IF f = R.file THEN <<>> ELSE content[f]] ELSE content
    /\ UNCHANGED <<root, refused, locked, handles, nextHandle>>

\* createSyncAccessHandle: one at a time per file, and only if it is still there.
Acquire ==
    /\ OnPath("file")
    /\ IF Exists(R.file) /\ R.file \notin locked \union foreign
       THEN Go("access") /\ locked' = locked \union {R.file} ELSE End(FALSE) /\ UNCHANGED locked
    /\ UNCHANGED <<root, refused, content, handles, nextHandle>>

\* The handle is entered, or its truncation throws and the access is closed.
\* Mutant: a failed open leaves its access open.
GivenUpKept(f) == locked
GivenUp(f) == locked \ {f}
\* Mutant: the handle's number is not spent.
NumberAfterSame == nextHandle
NumberAfter == nextHandle + 1
EnterHandle(ok) ==
    /\ OnPath("access")
    /\ IF ok
       THEN /\ content' = IF Truncates(R.mode) THEN [content EXCEPT ![R.file] = <<>>] ELSE content
            /\ handles' = [h \in DOMAIN handles \union {nextHandle} |->
                            IF h = nextHandle THEN [file |-> R.file, cursor |-> 0, mode |-> R.mode] ELSE handles[h]]
            /\ nextHandle' = NumberAfter /\ End(TRUE) /\ UNCHANGED locked
       ELSE Truncates(R.mode) /\ locked' = GivenUp(R.file) /\ End(FALSE) /\ UNCHANGED <<content, handles, nextHandle>>
    /\ UNCHANGED <<root, refused>>

-----------------------------------------------------------------------------
\* Another worker of the origin takes or gives back a file.
Foreign(f) ==
    /\ Exists(f) /\ f \notin locked
    /\ foreign' = IF f \in foreign THEN foreign \ {f} ELSE foreign \union {f}
    /\ UNCHANGED <<requests, at, stage, failed, root, refused, content, locked, handles, nextHandle, over>>

\* The end of the run closes the open handles; queued operations still run.
EndRun ==
    /\ ~over /\ over' = TRUE /\ handles' = <<>> /\ locked' = locked \ {handles[h].file : h \in DOMAIN handles}
    /\ UNCHANGED <<requests, at, stage, failed, root, refused, content, foreign, nextHandle>>

Step ==
    \/ NoHandle \/ CloseFile \/ Seek(TRUE) \/ Seek(FALSE) \/ ReadFile \/ WriteFile
    \/ AskRoot \/ RootAnswers(TRUE) \/ RootAnswers(FALSE) \/ RemoveEntry \/ Info \/ FindFile \/ Acquire
    \/ EnterHandle(TRUE) \/ EnterHandle(FALSE)
Next == Step \/ EndRun \/ (\E r \in Operations : Request(r)) \/ (\E f \in Files : Foreign(f))

\* The event loop runs, and the storage answers.
Spec == Init /\ [][Next]_vars
FairSpec == Spec /\ WF_vars(Step)

-----------------------------------------------------------------------------
Seekable == 0..(MaxSize + MaxRequests)
TypeOK ==
    /\ requests \in Seq(Operations) /\ at \in 1..(Len(requests) + 1) /\ failed \subseteq 1..(at - 1)
    /\ stage \in {"start", "root", "parent", "file", "access"} /\ root \in {"unset", "asked", "known", "refused"}
    /\ DOMAIN content \subseteq Files /\ locked \cap foreign = {} /\ DOMAIN handles \subseteq 1..(nextHandle - 1)
    /\ \A h \in DOMAIN handles : handles[h].cursor \in Seekable

\* A file is locked by its one open handle, or by the open that is entering it.
LocksOwned ==
    \A f \in Files :
        LET open == {h \in DOMAIN handles : handles[h].file = f}
            opening == ~Idle /\ stage = "access" /\ R.file = f
        IN /\ f \in locked <=> open # {} \/ opening
           /\ Cardinality(open) + (IF opening THEN 1 ELSE 0) <= 1

\* A write through an appending handle keeps every byte already in the file.
AppendsKeep ==
    [][\A h \in DOMAIN handles :
         WriteFile /\ R.handle = h /\ Appending(handles[h].mode)
            => IsPrefix(content[handles[h].file], content'[handles[h].file])]_vars

\* One refusal of the storage fails one operation, and the next asks again.
RefusedOnce == refused.operations <= refused.storage

\* Every requested operation is performed, even after ones that failed.
Drains == \A n \in 1..MaxRequests : Len(requests) >= n ~> at > n
=============================================================================
