----------------------------- MODULE CompileServer -----------------------------
(***************************************************************************)
(* A compile server of the online judge, Load_Balancing_Online_OJ/         *)
(* compile_server: every HTTP handler thread runs Compile_Run, which names *)
(* the temporary files of the request, writes the source, compiles it,     *)
(* runs it, answers and removes the files.  The handlers share ./tmp, and  *)
(* nothing but the file name keeps them apart.                             *)
(*                                                                         *)
(* The text of a file is abstracted to the request it comes from.  A file  *)
(* that is opened without truncation keeps what others wrote to it.        *)
(***************************************************************************)
EXTENDS Integers, FiniteSets

CONSTANTS
  Handler,       \* handler threads
  MaxRequests,   \* bound: requests that arrive
  MaxClock       \* bound: milliseconds that pass

ASSUME CompileServerAssumption == MaxRequests \in Nat /\ MaxClock \in Nat \ {0}

(* What a user can send: no code, code that g++ refuses, code it accepts.  *)
Code == {"empty", "bad", "good"}

(* A request is its number and its code. *)
Request == [number : 1 .. MaxRequests, code : Code]

NoRequest == [number |-> 0, code |-> "empty"]

VARIABLES
  clock,      \* the wall clock in milliseconds
  id,         \* the atomic counter of UniqueFileName
  requests,   \* requests that have arrived
  tmp,        \* the files: <<name, suffix, the requests its text comes from>>
  pc, request, time, name, status,   \* the local state of each handler
  answer,     \* the last answer of each handler: its status and whose output
  alone       \* history: no other request was being named at the same time

local == <<pc, request, time, name, status>>
vars == <<clock, id, requests, tmp, local, answer, alone>>

(* UniqueFileName's result: milliseconds and counter, joined. *)
NoName == <<0, 0>>

Init ==
  /\ clock = 1 /\ id = 0 /\ requests = 0
  /\ tmp = {}
  /\ pc = [h \in Handler |-> "idle"]
  /\ request = [h \in Handler |-> NoRequest]
  /\ time = [h \in Handler |-> 0]
  /\ name = [h \in Handler |-> NoName]
  /\ status = [h \in Handler |-> 0]
  /\ answer = [h \in Handler |-> [status |-> 0, of |-> {}, to |-> NoRequest]]
  /\ alone = [h \in Handler |-> TRUE]

Goto(h, where) == pc' = [pc EXCEPT ![h] = where]

-------------------------------------------------------------------------------
(* Files                                                                   *)

Exists(file, suffix) == \E f \in tmp : f[1] = file /\ f[2] = suffix

Text(file, suffix) == UNION {f[3] : f \in {g \in tmp : g[1] = file /\ g[2] = suffix}}

Others(file, suffix) == {f \in tmp : ~ (f[1] = file /\ f[2] = suffix)}

(* Opened with truncation, or without. *)
Write(file, suffix, text) == Others(file, suffix) \cup {<<file, suffix, text>>}
Extend(file, suffix, text) == Write(file, suffix, Text(file, suffix) \cup text)

\* variant: the executable is forgotten
RemoveButExe(file) == {f \in tmp : f[1] # file \/ f[2] = ".exe"}

(* RemoveTmpFile unlinks the six files of a name. *)
Remove(file) == {f \in tmp : f[1] # file}

-------------------------------------------------------------------------------
(* Compile_Run                                                             *)

(* A request without code is answered at once; RemoveTmpFile is called     *)
(* with an empty name, which no file has.                                  *)
Arrive(h, code) ==
  LET r == [number |-> requests + 1, code |-> code]
  IN  /\ pc[h] = "idle"
      /\ requests < MaxRequests
      /\ requests' = requests + 1
      /\ request' = [request EXCEPT ![h] = r]
      /\ IF code = "empty"
           THEN /\ answer' = [answer EXCEPT ![h] = [status |-> -1, of |-> {}, to |-> r]]
                /\ UNCHANGED pc
           ELSE Goto(h, "name") /\ UNCHANGED answer
      /\ UNCHANGED <<clock, id, tmp, time, name, status, alone>>

Naming(h) == pc[h] \in {"clock", "id"}

NextId == id + 1

(* UniqueFileName: the counter is raised, the clock is read, and the       *)
(* counter is read again.                                                  *)
RaiseId(h) ==
  /\ pc[h] = "name"
  /\ id' = NextId
  /\ alone' = [g \in Handler |->
       IF g = h THEN \A other \in Handler : ~ Naming(other)
       ELSE alone[g] /\ ~ Naming(g)]
  /\ Goto(h, "clock")
  /\ UNCHANGED <<clock, requests, tmp, request, time, name, status, answer>>

ReadClock(h) ==
  /\ pc[h] = "clock"
  /\ time' = [time EXCEPT ![h] = clock]
  /\ Goto(h, "id")
  /\ UNCHANGED <<clock, id, requests, tmp, request, name, status, answer, alone>>

ReadId(h) ==
  /\ pc[h] = "id"
  /\ name' = [name EXCEPT ![h] = <<time[h], id>>]
  /\ Goto(h, "write")
  /\ UNCHANGED <<clock, id, requests, tmp, request, time, status, answer, alone>>

Finish(h, code) ==
  /\ status' = [status EXCEPT ![h] = code]
  /\ Goto(h, "answer")

(* The source is written; if it cannot be, the status is -2. *)
WriteSource(h) ==
  /\ pc[h] = "write"
  /\ \/ /\ tmp' = Write(name[h], ".cpp", {request[h]})
        /\ Goto(h, "compile")
        /\ UNCHANGED status
     \/ Finish(h, -2) /\ UNCHANGED tmp
  /\ UNCHANGED <<clock, id, requests, request, time, name, answer, alone>>

(* Compiler::Compile.  The fork fails; or the child ends before g++ has    *)
(* done anything; or g++ makes an executable of the source file as it is   *)
(* now, or complains and leaves an executable of that name as it is.       *)
Compile(h) ==
  LET source == Text(name[h], ".cpp")
      messages(text) == Extend(name[h], ".compile_err", text)
  IN  /\ pc[h] = "compile"
      /\ \/ Finish(h, -3) /\ UNCHANGED tmp
         \/ /\ \/ UNCHANGED tmp
               \/ /\ \E r \in source : r.code = "good"
                  /\ tmp' = (messages({}) \ {f \in tmp : f[1] = name[h] /\ f[2] = ".exe"})
                              \cup {<<name[h], ".exe", source>>}
               \/ tmp' = messages(source)
            /\ Goto(h, "check")
            /\ UNCHANGED status
      /\ UNCHANGED <<clock, id, requests, request, time, name, answer, alone>>

\* variant: an empty answer of the compiler counts as well
CompiledOrSilent(h) == Exists(name[h], ".exe") \/ Text(name[h], ".compile_err") = {}

(* The parent only asks whether the executable exists. *)
Compiled(h) == Exists(name[h], ".exe")

CheckExecutable(h) ==
  /\ pc[h] = "check"
  /\ IF Compiled(h) THEN Goto(h, "open") /\ UNCHANGED status ELSE Finish(h, -3)
  /\ UNCHANGED <<clock, id, requests, tmp, request, time, name, answer, alone>>

Streams == {".stdin", ".stdout", ".stderr"}

(* The files of these suffixes, opened (made if need be) without truncation. *)
Opened(file, suffixes) ==
  {f \in tmp : f[1] # file \/ f[2] \notin suffixes}
    \cup {<<file, s, Text(file, s)>> : s \in suffixes}

(* Runner::Run opens the three files; if not all can be opened, or the     *)
(* fork fails, the result is negative and the status -2.                   *)
OpenFiles(h) ==
  /\ pc[h] = "open"
  /\ \E suffixes \in SUBSET Streams :
       /\ tmp' = Opened(name[h], suffixes)
       /\ \/ suffixes = Streams /\ Goto(h, "run") /\ UNCHANGED status
          \/ Finish(h, -2)
  /\ UNCHANGED <<clock, id, requests, request, time, name, answer, alone>>

\* variant: the whole wait status is returned
SignalOrExit(wait) == wait

(* status & 0x7f of the wait status: the signal, without the exit code. *)
Signal(wait) == wait % 128

(* The child: execl fails and the child exits with 1; or the program runs, *)
(* writes to .stdout (a removed file stays removed) and ends with exit     *)
(* code 0 or 1 or by a signal.  The parent returns the signal.             *)
Run(h) ==
  /\ pc[h] = "run"
  /\ \/ UNCHANGED tmp /\ Finish(h, Signal(256))
     \/ /\ Exists(name[h], ".exe")
        /\ tmp' = IF Exists(name[h], ".stdout")
                    THEN Extend(name[h], ".stdout", Text(name[h], ".exe"))
                    ELSE tmp
        /\ \E wait \in {0, 256, 11} : Finish(h, Signal(wait))
  /\ UNCHANGED <<clock, id, requests, request, time, name, answer, alone>>

(* END: the answer carries the output when the status is 0 and the         *)
(* compiler's messages when it is -3; then the files are removed.          *)
Reply(h) ==
  /\ pc[h] = "answer"
  /\ answer' = [answer EXCEPT ![h] =
       [status |-> status[h],
        to |-> request[h],
        of |-> IF status[h] = 0 THEN Text(name[h], ".stdout")
               ELSE IF status[h] = -3 THEN Text(name[h], ".compile_err")
               ELSE {}]]
  /\ Goto(h, "remove")
  /\ UNCHANGED <<clock, id, requests, tmp, request, time, name, status, alone>>

RemoveFiles(h) ==
  /\ pc[h] = "remove"
  /\ tmp' = Remove(name[h])
  /\ name' = [name EXCEPT ![h] = NoName]
  /\ time' = [time EXCEPT ![h] = 0]
  /\ status' = [status EXCEPT ![h] = 0]
  /\ Goto(h, "idle")
  /\ UNCHANGED <<clock, id, requests, request, answer, alone>>

Tick ==
  /\ clock < MaxClock
  /\ clock' = clock + 1
  /\ UNCHANGED <<id, requests, tmp, local, answer, alone>>

Rest ==
  /\ requests = MaxRequests /\ \A h \in Handler : pc[h] = "idle"
  /\ UNCHANGED vars

Step(h) ==
  \/ RaiseId(h) \/ ReadClock(h) \/ ReadId(h) \/ WriteSource(h) \/ Compile(h)
  \/ CheckExecutable(h) \/ OpenFiles(h) \/ Run(h) \/ Reply(h) \/ RemoveFiles(h)

Next ==
  \/ \E h \in Handler : Step(h) \/ \E code \in Code : Arrive(h, code)
  \/ Tick
  \/ Rest

Spec == Init /\ [][Next]_vars

-------------------------------------------------------------------------------
(* Properties                                                              *)

Suffix == {".cpp", ".exe", ".stdin", ".stdout", ".stderr", ".compile_err"}

TypeOK ==
  /\ clock \in 1 .. MaxClock /\ id \in 0 .. MaxRequests /\ requests \in 0 .. MaxRequests
  /\ tmp \subseteq ((1 .. MaxClock) \X (1 .. MaxRequests)) \X Suffix \X SUBSET Request
  /\ pc \in [Handler -> {"idle", "name", "clock", "id", "write", "compile", "check",
                         "open", "run", "answer", "remove"}]
  /\ request \in [Handler -> Request \cup {NoRequest}]
  /\ name \in [Handler -> (0 .. MaxClock) \X (0 .. MaxRequests)]
  /\ time \in [Handler -> 0 .. MaxClock]
  /\ status \in [Handler -> {0, 11, -2, -3}]
  /\ answer \in [Handler -> [status : {0, 11, -1, -2, -3}, of : SUBSET Request,
                              to : Request \cup {NoRequest}]]
  /\ alone \in [Handler -> BOOLEAN]

Answered(h) == pc[h] = "remove"

(* What UniqueFileName does achieve: two requests that share a name were   *)
(* being named at the same time.                                           *)
ClashOnlyWhenOverlapping ==
  \A g, h \in Handler :
    g # h /\ name[g] # NoName /\ name[g] = name[h] => ~ alone[g] /\ ~ alone[h]

(* With a name that was found alone, status 0 means that g++ accepted the  *)
(* code of this request, and the answer shows no one else's output or      *)
(* messages, whatever the other handlers do in the same directory.         *)
AnswerIsOwn ==
  \A h \in Handler : Answered(h) /\ alone[h] =>
    /\ answer[h].status = 0 => request[h].code = "good"
    /\ answer[h].of \subseteq {request[h]}

(* Requests are kept apart by their names. *)
RequestsApart == ClashOnlyWhenOverlapping /\ AnswerIsOwn

(* Whatever fails on the way, and even if two requests share a name, the   *)
(* directory is empty when no request is being served.                     *)
NothingLeftBehind == (\A h \in Handler : pc[h] = "idle") => tmp = {}

===============================================================================
