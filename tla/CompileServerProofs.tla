------------------------- MODULE CompileServerProofs -------------------------
(***************************************************************************)
(* Proofs about CompileServer, for any set of handlers and any bounds on   *)
(* requests and time.                                                      *)
(*                                                                         *)
(* A name holds the counter as it was when the handler read it again.  Two *)
(* handlers can read the same value only while both are being named        *)
(* (NamesSound), so a handler that was named alone is the only one to      *)
(* touch the files of its name (OwnFiles).  Every file bears the name of a *)
(* handler that will remove it (FilesOwned), which is also why a new name  *)
(* finds no old files.                                                     *)
(***************************************************************************)
EXTENDS CompileServer, FiniteSetTheorems, TLAPS

HasName(h) == pc[h] \in {"write", "compile", "check", "open", "run", "answer", "remove"}
Good(h) == request[h].code = "good"

(* Every request raises the counter once at most. *)
Waiting == {h \in Handler : pc[h] = "name"}
Counted == IsFiniteSet(Waiting) /\ id + Cardinality(Waiting) <= requests

(* What a handler has at each step. *)
StepsSound == \A h \in Handler :
  /\ pc[h] # "idle" => request[h] \in Request
  /\ ~ HasName(h) => name[h] = NoName
  /\ HasName(h) => name[h] \in (1 .. MaxClock) \X (1 .. id)
  /\ Naming(h) => id >= 1
  /\ pc[h] = "id" => time[h] >= 1

NamesSound == \A g, h \in Handler : g # h =>
  /\ Naming(g) /\ Naming(h) => ~ alone[g] /\ ~ alone[h]
  /\ HasName(g) /\ Naming(h) /\ name[g][2] = id => ~ alone[g] /\ ~ alone[h]
  /\ HasName(g) /\ HasName(h) /\ name[g] = name[h] => ~ alone[g] /\ ~ alone[h]

FilesOwned == \A f \in tmp : \E h \in Handler : HasName(h) /\ name[h] = f[1]

(* What is in a file of a handler, and what is known of its code. *)
Fits(h, f) == f[3] \subseteq {request[h]} /\ (f[2] = ".exe" => Good(h))

OwnFiles == \A h \in Handler : HasName(h) /\ alone[h] =>
  /\ \A f \in tmp : f[1] = name[h] => Fits(h, f)
  /\ pc[h] \in {"open", "run"} => Good(h)
  /\ pc[h] = "answer" /\ status[h] = 0 => Good(h)

IInv ==
  TypeOK /\ Counted /\ StepsSound /\ NamesSound /\ FilesOwned /\ OwnFiles /\ AnswerIsOwn

-----------------------------------------------------------------------------
(* Types, variable by variable. *)
Steps == {"idle", "name", "clock", "id", "write", "compile", "check",
          "open", "run", "answer", "remove"}
Answers == [status : {0, 11, -1, -2, -3}, of : SUBSET Request, to : Request \cup {NoRequest}]
Files == ((1 .. MaxClock) \X (1 .. MaxRequests)) \X Suffix \X SUBSET Request

LEMMA Types ==
  ASSUME IInv
  PROVE  /\ clock \in 1 .. MaxClock /\ id \in 0 .. MaxRequests /\ requests \in 0 .. MaxRequests
         /\ tmp \subseteq Files
         /\ pc \in [Handler -> Steps]
         /\ request \in [Handler -> Request \cup {NoRequest}]
         /\ name \in [Handler -> (0 .. MaxClock) \X (0 .. MaxRequests)]
         /\ time \in [Handler -> 0 .. MaxClock]
         /\ status \in [Handler -> {0, 11, -2, -3}]
         /\ answer \in [Handler -> Answers]
         /\ alone \in [Handler -> BOOLEAN]
  BY DEF IInv, TypeOK, Steps, Answers, Files

LEMMA TypesFit ==
  ASSUME clock' \in 1 .. MaxClock, id' \in 0 .. MaxRequests, requests' \in 0 .. MaxRequests,
         tmp' \subseteq Files,
         pc' \in [Handler -> Steps],
         request' \in [Handler -> Request \cup {NoRequest}],
         name' \in [Handler -> (0 .. MaxClock) \X (0 .. MaxRequests)],
         time' \in [Handler -> 0 .. MaxClock],
         status' \in [Handler -> {0, 11, -2, -3}],
         answer' \in [Handler -> Answers],
         alone' \in [Handler -> BOOLEAN]
  PROVE  TypeOK'
  BY DEF TypeOK, Steps, Answers, Files

LEMMA InitInvariant == Init => IInv
  <1> SUFFICES ASSUME Init  PROVE IInv
    OBVIOUS
  <1>1. TypeOK
    <2>1. /\ 1 \in 1 .. MaxClock /\ 0 \in 0 .. MaxClock
          /\ 0 \in 0 .. MaxRequests /\ NoName \in (0 .. MaxClock) \X (0 .. MaxRequests)
      BY CompileServerAssumption DEF NoName
    <2>2. [status |-> 0, of |-> {}, to |-> NoRequest] \in Answers
      BY DEF Answers
    <2> QED  BY <2>1, <2>2 DEF Init, TypeOK, Answers
  <1>2. \A h \in Handler : pc[h] = "idle" /\ ~ HasName(h) /\ ~ Naming(h)
    BY DEF Init, HasName, Naming
  <1>3. Counted
    <2>1. Waiting = {}  BY <1>2 DEF Waiting
    <2>2. IsFiniteSet(Waiting) /\ Cardinality(Waiting) = 0  BY <2>1, FS_EmptySet
    <2> QED  BY <2>2 DEF Counted, Init
  <1>4. StepsSound  BY <1>2 DEF Init, StepsSound
  <1>5. NamesSound  BY <1>2 DEF NamesSound
  <1>6. FilesOwned  BY DEF Init, FilesOwned
  <1>7. OwnFiles /\ AnswerIsOwn  BY <1>2 DEF OwnFiles, AnswerIsOwn, Answered
  <1> QED  BY <1>1, <1>3, <1>4, <1>5, <1>6, <1>7 DEF IInv

LEMMA HandlerFacts ==
  ASSUME IInv, NEW h \in Handler
  PROVE  /\ pc[h] # "idle" => request[h] \in Request
         /\ ~ HasName(h) => name[h] = NoName
         /\ HasName(h) => name[h] \in (1 .. MaxClock) \X (1 .. id)
         /\ Naming(h) => id >= 1
         /\ pc[h] = "id" => time[h] >= 1
  BY DEF IInv, StepsSound

LEMMA CountedStays ==
  ASSUME IInv, UNCHANGED <<id, requests>>,
         \A h \in Handler : pc'[h] = "name" <=> pc[h] = "name"
  PROVE  Counted'
  <1>1. Waiting' = Waiting  BY DEF Waiting
  <1> QED  BY <1>1 DEF IInv, Counted

-----------------------------------------------------------------------------
(* Steps with a name.                                                      *)

(* A handler touches only the files of its name.  What it makes of them    *)
(* disturbs no other handler that was named alone.                         *)
LEMMA FileStepKeeps ==
  ASSUME IInv, NEW h \in Handler, HasName(h), HasName(h)',
         pc' \in [Handler -> Steps], \A g \in Handler : g # h => pc'[g] = pc[g],
         UNCHANGED <<clock, id, requests, request, time, name, alone>>,
         status' \in [Handler -> {0, 11, -2, -3}],
         \A g \in Handler : g # h => status'[g] = status[g],
         answer' \in [Handler -> Answers],
         \A g \in Handler : g # h => answer'[g] = answer[g],
         tmp' \subseteq Files, \A f \in tmp' : f \in tmp \/ f[1] = name[h],
         alone[h] =>
           /\ \A f \in tmp' : f[1] = name[h] => Fits(h, f)
           /\ pc'[h] \in {"open", "run"} => Good(h)
           /\ pc'[h] = "answer" /\ status'[h] = 0 => Good(h)
           /\ pc'[h] = "remove" =>
                (answer'[h].status = 0 => Good(h)) /\ answer'[h].of \subseteq {request[h]}
  PROVE  IInv'
  <1>1. TypeOK'  BY Types, TypesFit
  <1>2. \A g \in Handler : (HasName(g)' <=> HasName(g)) /\ (Naming(g)' <=> Naming(g))
    BY DEF HasName, Naming
  <1>3. Counted'
    <2>1. \A g \in Handler : pc'[g] = "name" <=> pc[g] = "name"
      BY DEF HasName
    <2> QED  BY <2>1, CountedStays
  <1>4. StepsSound'
    <2>1. \A g \in Handler :
            /\ pc'[g] # "idle" => pc[g] # "idle"
            /\ pc'[g] = "id" => pc[g] = "id"
      BY DEF HasName
    <2> SUFFICES ASSUME NEW g \in Handler
        PROVE  /\ pc'[g] # "idle" => request[g] \in Request
               /\ ~ HasName(g) => name[g] = NoName
               /\ HasName(g) => name[g] \in (1 .. MaxClock) \X (1 .. id)
               /\ Naming(g) => id >= 1
               /\ pc'[g] = "id" => time[g] >= 1
      BY <1>2 DEF StepsSound
    <2> QED  BY <2>1, HandlerFacts
  <1>5. NamesSound'
    <2> SUFFICES ASSUME NEW f \in Handler, NEW g \in Handler, f # g
        PROVE  /\ Naming(f) /\ Naming(g) => ~ alone[f] /\ ~ alone[g]
               /\ HasName(f) /\ Naming(g) /\ name[f][2] = id => ~ alone[f] /\ ~ alone[g]
               /\ HasName(f) /\ HasName(g) /\ name[f] = name[g] => ~ alone[f] /\ ~ alone[g]
      BY <1>2 DEF NamesSound
    <2> QED  BY DEF IInv, NamesSound
  <1>6. FilesOwned'
    <2> SUFFICES ASSUME NEW f \in tmp'
                 PROVE  \E g \in Handler : HasName(g) /\ name[g] = f[1]
      BY <1>2 DEF FilesOwned
    <2> QED  BY DEF IInv, FilesOwned
  <1>7. OwnFiles'
    <2> SUFFICES ASSUME NEW g \in Handler, HasName(g), alone[g]
        PROVE  /\ \A f \in tmp' : f[1] = name[g] => Fits(g, f)
               /\ pc'[g] \in {"open", "run"} => Good(g)
               /\ pc'[g] = "answer" /\ status'[g] = 0 => Good(g)
      BY <1>2 DEF OwnFiles, Fits, Good
    <2>1. CASE g = h  BY <2>1
    <2>2. CASE g # h
      <3>1. name[g] # name[h]  BY <2>2 DEF IInv, NamesSound
      <3> QED  BY <2>2, <3>1 DEF IInv, OwnFiles
    <2> QED  BY <2>1, <2>2
  <1>8. AnswerIsOwn'
    <2> SUFFICES ASSUME NEW g \in Handler, pc'[g] = "remove", alone[g]
        PROVE  /\ answer'[g].status = 0 => request[g].code = "good"
               /\ answer'[g].of \subseteq {request[g]}
      BY DEF AnswerIsOwn, Answered
    <2>1. CASE g = h  BY <2>1 DEF Good
    <2>2. CASE g # h  BY <2>2 DEF IInv, AnswerIsOwn, Answered
    <2> QED  BY <2>1, <2>2
  <1> QED  BY <1>1, <1>3, <1>4, <1>5, <1>6, <1>7, <1>8 DEF IInv

(* A handler with a name has a request, and files it may write. *)
LEMMA NamedFacts ==
  ASSUME IInv, NEW h \in Handler, HasName(h)
  PROVE  /\ request[h] \in Request
         /\ name[h] \in (1 .. MaxClock) \X (1 .. MaxRequests)
         /\ status[h] \in {0, 11, -2, -3}
         /\ alone[h] \in BOOLEAN
         /\ pc \in [Handler -> Steps] /\ status \in [Handler -> {0, 11, -2, -3}]
         /\ answer \in [Handler -> Answers]
         /\ tmp \subseteq Files
  <1>1. request[h] \in Request
    <2>1. pc[h] # "idle"  BY DEF HasName
    <2> QED  BY <2>1, HandlerFacts
  <1>2. name[h] \in (1 .. MaxClock) \X (1 .. MaxRequests)
    <2>1. name[h] \in (1 .. MaxClock) \X (1 .. id)  BY HandlerFacts
    <2>2. id \in 0 .. MaxRequests  BY Types
    <2>3. 1 .. id \subseteq 1 .. MaxRequests
      BY <2>2, CompileServerAssumption
    <2> QED  BY <2>1, <2>3
  <1> QED  BY <1>1, <1>2, Types

LEMMA TextFacts ==
  ASSUME IInv, NEW file, NEW suffix
  PROVE  /\ Text(file, suffix) \subseteq Request
         /\ \A r \in Text(file, suffix) :
              \E f \in tmp : f[1] = file /\ f[2] = suffix /\ r \in f[3]
  <1>1. \A r \in Text(file, suffix) :
          \E f \in tmp : f[1] = file /\ f[2] = suffix /\ r \in f[3]
    BY DEF Text
  <1>2. \A f \in tmp : f[3] \subseteq Request  BY Types DEF Files
  <1> QED  BY <1>1, <1>2

(* All that was written to the files of a handler that was named alone. *)
LEMMA TextOwn ==
  ASSUME IInv, NEW h \in Handler, HasName(h), alone[h], NEW suffix
  PROVE  Text(name[h], suffix) \subseteq {request[h]}
  <1> SUFFICES ASSUME NEW r \in Text(name[h], suffix)  PROVE r = request[h]
    OBVIOUS
  <1>1. PICK f \in tmp : f[1] = name[h] /\ f[2] = suffix /\ r \in f[3]  BY TextFacts
  <1>2. Fits(h, f)  BY <1>1 DEF IInv, OwnFiles
  <1> QED  BY <1>1, <1>2 DEF Fits

(* A file of a handler, of a known suffix. *)
LEMMA FileTyped ==
  ASSUME IInv, NEW h \in Handler, HasName(h), NEW s \in Suffix, NEW text \in SUBSET Request
  PROVE  /\ <<name[h], s, text>> \in Files
         /\ <<name[h], s, text>>[1] = name[h]
         /\ <<name[h], s, text>>[2] = s
         /\ <<name[h], s, text>>[3] = text
  BY NamedFacts DEF Files

(* The file that is written is the only new one. *)
LEMMA WriteFacts ==
  ASSUME IInv, NEW h \in Handler, HasName(h), NEW s \in Suffix, NEW text \in SUBSET Request
  PROVE  /\ Write(name[h], s, text) \subseteq Files
         /\ \A f \in Write(name[h], s, text) : f \in tmp \/ f[1] = name[h]
         /\ \A f \in Write(name[h], s, text) :
              f \in tmp \/ (f[2] = s /\ f[3] = text)
  BY FileTyped, NamedFacts DEF Write, Others

LEMMA ExtendFacts ==
  ASSUME IInv, NEW h \in Handler, HasName(h), NEW s \in Suffix, s # ".exe",
         NEW text \in SUBSET Request
  PROVE  /\ Extend(name[h], s, text) \subseteq Files
         /\ \A f \in Extend(name[h], s, text) : f \in tmp \/ f[1] = name[h]
         /\ alone[h] /\ text \subseteq {request[h]} =>
              \A f \in Extend(name[h], s, text) : f[1] = name[h] => Fits(h, f)
  <1>1. PICK all \in SUBSET Request : all = Text(name[h], s) \cup text
    BY TextFacts
  <1>2. Extend(name[h], s, text) = Write(name[h], s, all)  BY <1>1 DEF Extend
  <1>3. ASSUME alone[h], text \subseteq {request[h]},
               NEW f \in Write(name[h], s, all), f[1] = name[h]
        PROVE  Fits(h, f)
    <2>1. CASE f \in tmp  BY <1>3, <2>1 DEF IInv, OwnFiles
    <2>2. ASSUME f[2] = s, f[3] = all  PROVE Fits(h, f)
      <3>1. all \subseteq {request[h]}  BY <1>1, <1>3, TextOwn
      <3> QED  BY <2>2, <3>1 DEF Fits
    <2> QED  BY <2>1, <2>2, WriteFacts
  <1> QED  BY <1>2, <1>3, WriteFacts

(* The files a handler finds. *)
LEMMA FilesFit ==
  ASSUME IInv, NEW h \in Handler, HasName(h), alone[h], NEW f \in tmp, f[1] = name[h]
  PROVE  Fits(h, f)
  BY DEF IInv, OwnFiles

(* A handler that goes on without touching a file. *)
LEMMA QuietStepKeeps ==
  ASSUME IInv, NEW h \in Handler, HasName(h), HasName(h)',
         pc' \in [Handler -> Steps], \A g \in Handler : g # h => pc'[g] = pc[g],
         UNCHANGED <<clock, id, requests, tmp, request, time, name, answer, alone>>,
         status' \in [Handler -> {0, 11, -2, -3}],
         \A g \in Handler : g # h => status'[g] = status[g],
         pc'[h] # "remove",
         alone[h] => /\ pc'[h] \in {"open", "run"} => Good(h)
                     /\ pc'[h] = "answer" /\ status'[h] = 0 => Good(h)
  PROVE  IInv'
  <1>1. alone[h] => \A f \in tmp' : f[1] = name[h] => Fits(h, f)  BY FilesFit
  <1>2. tmp' \subseteq Files /\ answer' \in [Handler -> Answers]  BY NamedFacts
  <1> QED  BY <1>1, <1>2, FileStepKeeps

LEMMA GotoFacts ==
  ASSUME IInv, NEW h \in Handler, NEW where \in Steps, Goto(h, where)
  PROVE  /\ pc' \in [Handler -> Steps] /\ pc'[h] = where
         /\ \A g \in Handler : g # h => pc'[g] = pc[g]
  BY Types DEF Goto

LEMMA FinishFacts ==
  ASSUME IInv, NEW h \in Handler, NEW code \in {0, 11, -2, -3}, Finish(h, code)
  PROVE  /\ Goto(h, "answer")
         /\ status' \in [Handler -> {0, 11, -2, -3}] /\ status'[h] = code
         /\ \A g \in Handler : g # h => status'[g] = status[g]
  BY Types DEF Finish

LEMMA WriteSourceStep ==
  ASSUME IInv, NEW h \in Handler, WriteSource(h)  PROVE IInv'
  <1>1. HasName(h)  BY DEF WriteSource, HasName
  <1>2. CASE Finish(h, -2) /\ UNCHANGED tmp
    <2>1. Goto(h, "answer") /\ status'[h] = -2  BY <1>2, FinishFacts
    <2>2. pc'[h] = "answer"  BY <2>1, GotoFacts DEF Steps
    <2>3. HasName(h)'  BY <2>2 DEF HasName
    <2> QED
      BY <1>1, <1>2, <2>1, <2>2, <2>3, GotoFacts, FinishFacts, QuietStepKeeps
      DEF WriteSource, Steps
  <1>3. ASSUME tmp' = Write(name[h], ".cpp", {request[h]}), Goto(h, "compile"), UNCHANGED status
        PROVE  IInv'
    <2>1. pc' \in [Handler -> Steps] /\ pc'[h] = "compile"
          /\ \A g \in Handler : g # h => pc'[g] = pc[g]
      BY <1>3, GotoFacts DEF Steps
    <2>2. HasName(h)'  BY <2>1 DEF HasName
    <2>3. PICK text \in SUBSET Request : text = {request[h]}  BY <1>1, NamedFacts
    <2>a. ".cpp" \in Suffix  BY DEF Suffix
    <2>b. tmp' = Write(name[h], ".cpp", text)  BY <1>3, <2>3
    <2>4. tmp' \subseteq Files /\ \A f \in tmp' : f \in tmp \/ f[1] = name[h]
      BY <1>1, <2>a, <2>b, WriteFacts
    <2>5. ASSUME alone[h], NEW f \in tmp', f[1] = name[h]  PROVE Fits(h, f)
      <3>a. f \in Write(name[h], ".cpp", text)  BY <2>b, <2>5
      <3>b. f \in tmp \/ (f[2] = ".cpp" /\ f[3] = text)
        BY <1>1, <2>a, <3>a, WriteFacts
      <3>1. f \in tmp \/ (f[2] = ".cpp" /\ f[3] = {request[h]})  BY <2>3, <3>b
      <3>2. CASE f \in tmp  BY <1>1, <2>5, <3>2, FilesFit
      <3>3. CASE f[2] = ".cpp" /\ f[3] = {request[h]}  BY <3>3 DEF Fits
      <3> QED  BY <3>1, <3>2, <3>3
    <2> QED
      BY <1>1, <1>3, <2>1, <2>2, <2>4, <2>5, NamedFacts, FileStepKeeps DEF WriteSource
  <1> QED  BY <1>2, <1>3 DEF WriteSource

(* g++ makes an executable of the code it accepts. *)
LEMMA ExecutableFits ==
  ASSUME IInv, NEW h \in Handler, HasName(h), alone[h],
         \E r \in Text(name[h], ".cpp") : r.code = "good"
  PROVE  Fits(h, <<name[h], ".exe", Text(name[h], ".cpp")>>)
  <1>1. Text(name[h], ".cpp") \subseteq {request[h]}  BY TextOwn
  <1> QED  BY <1>1 DEF Fits, Good

LEMMA CompileStep ==
  ASSUME IInv, NEW h \in Handler, Compile(h)  PROVE IInv'
  <1>1. HasName(h)  BY DEF Compile, HasName
  <1>2. CASE Finish(h, -3) /\ UNCHANGED tmp
    <2>1. Goto(h, "answer") /\ status'[h] = -3  BY <1>2, FinishFacts
    <2>2. pc'[h] = "answer"  BY <2>1, GotoFacts DEF Steps
    <2>3. HasName(h)'  BY <2>2 DEF HasName
    <2> QED
      BY <1>1, <1>2, <2>1, <2>2, <2>3, GotoFacts, FinishFacts, QuietStepKeeps
      DEF Compile, Steps
  <1>3. ASSUME Goto(h, "check"), UNCHANGED status,
               tmp' \subseteq Files, \A f \in tmp' : f \in tmp \/ f[1] = name[h],
               alone[h] => \A f \in tmp' : f[1] = name[h] => Fits(h, f)
        PROVE  IInv'
    <2>1. pc' \in [Handler -> Steps] /\ pc'[h] = "check"
          /\ \A g \in Handler : g # h => pc'[g] = pc[g]
      BY <1>3, GotoFacts DEF Steps
    <2>2. HasName(h)'  BY <2>1 DEF HasName
    <2> QED
      BY <1>1, <1>3, <2>1, <2>2, NamedFacts, FileStepKeeps DEF Compile
  <1>4. ".compile_err" \in Suffix /\ ".compile_err" # ".exe" /\ ".exe" \in Suffix
    BY DEF Suffix
  <1>5. CASE UNCHANGED tmp /\ Goto(h, "check") /\ UNCHANGED status
    BY <1>1, <1>3, <1>5, NamedFacts, FilesFit
  <1>6. ASSUME \E r \in Text(name[h], ".cpp") : r.code = "good",
               tmp' = (Extend(name[h], ".compile_err", {})
                         \ {f \in tmp : f[1] = name[h] /\ f[2] = ".exe"})
                      \cup {<<name[h], ".exe", Text(name[h], ".cpp")>>},
               Goto(h, "check"), UNCHANGED status
        PROVE  IInv'
    <2>1. PICK messages : messages = Extend(name[h], ".compile_err", {})
      OBVIOUS
    <2>2. PICK exe : exe = <<name[h], ".exe", Text(name[h], ".cpp")>>
      OBVIOUS
    <2>3. exe \in Files /\ exe[1] = name[h]
      BY <1>1, <1>4, <2>2, FileTyped, TextFacts
    <2>4. messages \subseteq Files /\ \A f \in messages : f \in tmp \/ f[1] = name[h]
      BY <1>1, <1>4, <2>1, ExtendFacts
    <2>5. alone[h] => \A f \in messages : f[1] = name[h] => Fits(h, f)
      BY <1>1, <1>4, <2>1, ExtendFacts
    <2>6. alone[h] => Fits(h, exe)
      BY <1>1, <1>6, <2>2, ExecutableFits
    <2>7. \A f \in tmp' : f \in messages \/ f = exe
      BY <1>6, <2>1, <2>2
    <2> QED  BY <1>3, <1>6, <2>3, <2>4, <2>5, <2>6, <2>7
  <1>7. ASSUME tmp' = Extend(name[h], ".compile_err", Text(name[h], ".cpp")),
               Goto(h, "check"), UNCHANGED status
        PROVE  IInv'
    <2>1. PICK text \in SUBSET Request : text = Text(name[h], ".cpp")  BY TextFacts
    <2>2. alone[h] => text \subseteq {request[h]}  BY <1>1, <2>1, TextOwn
    <2> QED  BY <1>1, <1>3, <1>4, <1>7, <2>1, <2>2, ExtendFacts
  <1> QED  BY <1>2, <1>5, <1>6, <1>7 DEF Compile

(* An executable of a handler that was named alone is made of its code. *)
LEMMA CheckExecutableStep ==
  ASSUME IInv, NEW h \in Handler, CheckExecutable(h)  PROVE IInv'
  <1>1. HasName(h)  BY DEF CheckExecutable, HasName
  <1>2. CASE Compiled(h) /\ Goto(h, "open") /\ UNCHANGED status
    <2>1. pc' \in [Handler -> Steps] /\ pc'[h] = "open"
          /\ \A g \in Handler : g # h => pc'[g] = pc[g]
      BY <1>2, GotoFacts DEF Steps
    <2>2. HasName(h)'  BY <2>1 DEF HasName
    <2>3. alone[h] => Good(h)
      <3>1. PICK f \in tmp : f[1] = name[h] /\ f[2] = ".exe"
        BY <1>2 DEF Compiled, Exists
      <3> QED  BY <1>1, <3>1, FilesFit DEF Fits
    <2> QED
      BY <1>1, <1>2, <2>1, <2>2, <2>3, NamedFacts, QuietStepKeeps DEF CheckExecutable
  <1>3. CASE Finish(h, -3)
    <2>1. Goto(h, "answer") /\ status'[h] = -3  BY <1>3, FinishFacts
    <2>2. pc'[h] = "answer"  BY <2>1, GotoFacts DEF Steps
    <2>3. HasName(h)'  BY <2>2 DEF HasName
    <2> QED
      BY <1>1, <1>3, <2>1, <2>2, <2>3, GotoFacts, FinishFacts, QuietStepKeeps
      DEF CheckExecutable, Steps
  <1> QED  BY <1>2, <1>3 DEF CheckExecutable

(* What is opened without truncation is kept. *)
LEMMA OpenedFacts ==
  ASSUME IInv, NEW h \in Handler, HasName(h), NEW suffixes \in SUBSET Streams
  PROVE  /\ Opened(name[h], suffixes) \subseteq Files
         /\ \A f \in Opened(name[h], suffixes) : f \in tmp \/ f[1] = name[h]
         /\ alone[h] => \A f \in Opened(name[h], suffixes) : f[1] = name[h] => Fits(h, f)
  <1>1. \A f \in Opened(name[h], suffixes) :
          f \in tmp \/ \E s \in suffixes : f = <<name[h], s, Text(name[h], s)>>
    BY DEF Opened
  <1>2. ASSUME NEW s \in suffixes, NEW f, f = <<name[h], s, Text(name[h], s)>>
        PROVE  f \in Files /\ f[1] = name[h] /\ (alone[h] => Fits(h, f))
    <2>1. s \in Suffix /\ s # ".exe"  BY DEF Streams, Suffix
    <2>2. PICK text \in SUBSET Request : text = Text(name[h], s)  BY TextFacts
    <2>3. f \in Files /\ f[1] = name[h] /\ f[2] = s /\ f[3] = text
      BY <1>2, <2>1, <2>2, FileTyped
    <2>4. alone[h] => text \subseteq {request[h]}  BY <2>2, TextOwn
    <2> QED  BY <2>1, <2>3, <2>4 DEF Fits
  <1> QED  BY <1>1, <1>2, NamedFacts, FilesFit

LEMMA OpenFilesStep ==
  ASSUME IInv, NEW h \in Handler, OpenFiles(h)  PROVE IInv'
  <1>1. HasName(h)  BY DEF OpenFiles, HasName
  <1>2. PICK suffixes \in SUBSET Streams :
          /\ tmp' = Opened(name[h], suffixes)
          /\ \/ suffixes = Streams /\ Goto(h, "run") /\ UNCHANGED status
             \/ Finish(h, -2)
    BY DEF OpenFiles
  <1>3. tmp' \subseteq Files /\ \A f \in tmp' : f \in tmp \/ f[1] = name[h]
    BY <1>1, <1>2, OpenedFacts
  <1>4. alone[h] => \A f \in tmp' : f[1] = name[h] => Fits(h, f)
    BY <1>1, <1>2, OpenedFacts
  <1>5. alone[h] => Good(h)  BY <1>1 DEF OpenFiles, IInv, OwnFiles
  <1>6. CASE Goto(h, "run") /\ UNCHANGED status
    <2>1. pc' \in [Handler -> Steps] /\ pc'[h] = "run"
          /\ \A g \in Handler : g # h => pc'[g] = pc[g]
      BY <1>6, GotoFacts DEF Steps
    <2>2. HasName(h)'  BY <2>1 DEF HasName
    <2> QED
      BY <1>1, <1>3, <1>4, <1>5, <1>6, <2>1, <2>2, NamedFacts, FileStepKeeps DEF OpenFiles
  <1>7. CASE Finish(h, -2)
    <2>1. /\ Goto(h, "answer")
          /\ status' \in [Handler -> {0, 11, -2, -3}] /\ status'[h] = -2
          /\ \A g \in Handler : g # h => status'[g] = status[g]
      BY <1>7, FinishFacts
    <2>2. pc' \in [Handler -> Steps] /\ pc'[h] = "answer"
          /\ \A g \in Handler : g # h => pc'[g] = pc[g]
      BY <2>1, GotoFacts DEF Steps
    <2>3. HasName(h)'  BY <2>2 DEF HasName
    <2> QED
      BY <1>1, <1>3, <1>4, <2>1, <2>2, <2>3, NamedFacts, FileStepKeeps DEF OpenFiles
  <1> QED  BY <1>2, <1>6, <1>7

LEMMA RunStep ==
  ASSUME IInv, NEW h \in Handler, Run(h)  PROVE IInv'
  <1>1. HasName(h)  BY DEF Run, HasName
  <1>2. alone[h] => Good(h)  BY <1>1 DEF Run, IInv, OwnFiles
  <1>3. ASSUME NEW wait \in {0, 256, 11}, Finish(h, Signal(wait)),
               tmp' \subseteq Files, \A f \in tmp' : f \in tmp \/ f[1] = name[h],
               alone[h] => \A f \in tmp' : f[1] = name[h] => Fits(h, f)
        PROVE  IInv'
    <2>1. Signal(wait) \in {0, 11, -2, -3}  BY DEF Signal
    <2>2. /\ Goto(h, "answer")
          /\ status' \in [Handler -> {0, 11, -2, -3}]
          /\ \A g \in Handler : g # h => status'[g] = status[g]
      BY <1>3, <2>1, FinishFacts
    <2>3. pc' \in [Handler -> Steps] /\ pc'[h] = "answer"
          /\ \A g \in Handler : g # h => pc'[g] = pc[g]
      BY <2>2, GotoFacts DEF Steps
    <2>4. HasName(h)'  BY <2>3 DEF HasName
    <2> QED
      BY <1>1, <1>2, <1>3, <2>2, <2>3, <2>4, NamedFacts, FileStepKeeps DEF Run
  <1>4. CASE UNCHANGED tmp
    <2>1. /\ tmp' \subseteq Files /\ \A f \in tmp' : f \in tmp \/ f[1] = name[h]
          /\ alone[h] => \A f \in tmp' : f[1] = name[h] => Fits(h, f)
      BY <1>1, <1>4, NamedFacts, FilesFit
    <2>2. PICK wait \in {0, 256, 11} : Finish(h, Signal(wait))  BY DEF Run
    <2> QED  BY <1>3, <2>1, <2>2
  <1>5. ASSUME tmp' = Extend(name[h], ".stdout", Text(name[h], ".exe"))
        PROVE  IInv'
    <2>1. PICK text \in SUBSET Request : text = Text(name[h], ".exe")  BY TextFacts
    <2>2. alone[h] => text \subseteq {request[h]}  BY <1>1, <2>1, TextOwn
    <2>3. ".stdout" \in Suffix /\ ".stdout" # ".exe"  BY DEF Suffix
    <2>4. /\ tmp' \subseteq Files /\ \A f \in tmp' : f \in tmp \/ f[1] = name[h]
          /\ alone[h] => \A f \in tmp' : f[1] = name[h] => Fits(h, f)
      BY <1>1, <1>5, <2>1, <2>2, <2>3, ExtendFacts
    <2>5. PICK wait \in {0, 256, 11} : Finish(h, Signal(wait))  BY DEF Run
    <2> QED  BY <1>3, <2>4, <2>5
  <1> QED  BY <1>4, <1>5 DEF Run

LEMMA ReplyStep ==
  ASSUME IInv, NEW h \in Handler, Reply(h)  PROVE IInv'
  <1>1. HasName(h)  BY DEF Reply, HasName
  <1>2. PICK of \in SUBSET Request :
          of = IF status[h] = 0 THEN Text(name[h], ".stdout")
               ELSE IF status[h] = -3 THEN Text(name[h], ".compile_err")
               ELSE {}
    BY TextFacts
  <1>3. alone[h] => of \subseteq {request[h]}  BY <1>1, <1>2, TextOwn
  <1>4. PICK a : a = [status |-> status[h], to |-> request[h], of |-> of]
    OBVIOUS
  <1>5. a \in Answers /\ a.status = status[h] /\ a.of = of
    BY <1>1, <1>4, NamedFacts DEF Answers
  <1>6. answer' = [answer EXCEPT ![h] = a]  BY <1>2, <1>4 DEF Reply
  <1>7. answer' \in [Handler -> Answers] /\ answer'[h] = a
        /\ \A g \in Handler : g # h => answer'[g] = answer[g]
    BY <1>1, <1>5, <1>6, NamedFacts
  <1>8. pc' \in [Handler -> Steps] /\ pc'[h] = "remove"
        /\ \A g \in Handler : g # h => pc'[g] = pc[g]
    BY GotoFacts DEF Reply, Steps
  <1>9. HasName(h)'  BY <1>8 DEF HasName
  <1>10. alone[h] => /\ answer'[h].status = 0 => Good(h)
                     /\ answer'[h].of \subseteq {request[h]}
                     /\ \A f \in tmp : f[1] = name[h] => Fits(h, f)
    BY <1>1, <1>3, <1>5, <1>7, FilesFit DEF Reply, IInv, OwnFiles
  <1> QED
    BY <1>1, <1>7, <1>8, <1>9, <1>10, NamedFacts, FileStepKeeps DEF Reply

-----------------------------------------------------------------------------
(* Steps that change who is named what.                                    *)

(* A handler without a name turns to its next request. *)
LEMMA ArriveStep ==
  ASSUME IInv, NEW h \in Handler, NEW code \in Code, Arrive(h, code)  PROVE IInv'
  <1>1. PICK r : r = [number |-> requests + 1, code |-> code]
    OBVIOUS
  <1>2. requests + 1 \in 1 .. MaxRequests  BY Types, CompileServerAssumption DEF Arrive
  <1>3. r \in Request  BY <1>1, <1>2 DEF Request
  <1>4. request' = [request EXCEPT ![h] = r]  BY <1>1 DEF Arrive
  <1>5. /\ pc[h] = "idle" /\ requests' = requests + 1
        /\ UNCHANGED <<clock, id, tmp, time, name, status, alone>>
    BY DEF Arrive
  <1>6. /\ request' \in [Handler -> Request \cup {NoRequest}] /\ request'[h] \in Request
        /\ \A g \in Handler : g # h => request'[g] = request[g]
    BY <1>3, <1>4, Types
  <1>7. \/ pc' = pc
        \/ Goto(h, "name")
    BY DEF Arrive
  <1>8. /\ pc' \in [Handler -> Steps] /\ \A g \in Handler : g # h => pc'[g] = pc[g]
        /\ pc'[h] \in {"idle", "name"}
    BY <1>5, <1>7, Types, GotoFacts DEF Steps
  <1>9. /\ answer' \in [Handler -> Answers]
        /\ \A g \in Handler : g # h => answer'[g] = answer[g]
    <2>1. [status |-> -1, of |-> {}, to |-> r] \in Answers  BY <1>3 DEF Answers
    <2>2. \/ answer' = answer
          \/ answer' = [answer EXCEPT ![h] = [status |-> -1, of |-> {}, to |-> r]]
      BY <1>1 DEF Arrive
    <2> QED  BY <2>1, <2>2, Types
  <1>10. TypeOK'
    BY <1>2, <1>5, <1>6, <1>8, <1>9, Types, TypesFit
  <1>11. \A g \in Handler : (HasName(g)' <=> HasName(g)) /\ (Naming(g)' <=> Naming(g))
    BY <1>5, <1>8 DEF HasName, Naming
  <1>12. \A g \in Handler : HasName(g) => g # h  BY <1>5 DEF HasName
  <1>13. Counted'
    <2>1. IsFiniteSet(Waiting) /\ id + Cardinality(Waiting) <= requests
      BY DEF IInv, Counted
    <2>2. Cardinality(Waiting) \in Nat /\ id \in Nat /\ requests \in Nat
      BY <2>1, Types, FS_CardinalityType
    <2>3. h \notin Waiting  BY <1>5 DEF Waiting
    <2>4. Waiting' = Waiting \/ Waiting' = Waiting \cup {h}
      BY <1>8, <1>5 DEF Waiting
    <2>5. IsFiniteSet(Waiting') /\ Cardinality(Waiting') <= Cardinality(Waiting) + 1
      <3>1. /\ IsFiniteSet(Waiting \cup {h})
            /\ Cardinality(Waiting \cup {h}) = Cardinality(Waiting) + 1
        BY <2>1, <2>3, FS_AddElement
      <3>2. CASE Waiting' = Waiting  BY <2>1, <2>2, <3>2
      <3>3. CASE Waiting' = Waiting \cup {h}  BY <2>2, <3>1, <3>3
      <3> QED  BY <2>4, <3>2, <3>3
    <2>6. Cardinality(Waiting') \in Nat  BY <2>5, FS_CardinalityType
    <2> QED  BY <2>1, <2>2, <2>5, <2>6, <1>5 DEF Counted
  <1>14. StepsSound'
    <2> SUFFICES ASSUME NEW g \in Handler
        PROVE  /\ pc'[g] # "idle" => request'[g] \in Request
               /\ ~ HasName(g) => name[g] = NoName
               /\ HasName(g) => name[g] \in (1 .. MaxClock) \X (1 .. id)
               /\ Naming(g) => id >= 1
               /\ pc'[g] = "id" => time[g] >= 1
      BY <1>5, <1>11 DEF StepsSound
    <2> QED  BY <1>6, <1>8, HandlerFacts
  <1>15. NamesSound'
    <2> SUFFICES ASSUME NEW f \in Handler, NEW g \in Handler, f # g
        PROVE  /\ Naming(f) /\ Naming(g) => ~ alone[f] /\ ~ alone[g]
               /\ HasName(f) /\ Naming(g) /\ name[f][2] = id => ~ alone[f] /\ ~ alone[g]
               /\ HasName(f) /\ HasName(g) /\ name[f] = name[g] => ~ alone[f] /\ ~ alone[g]
      BY <1>5, <1>11 DEF NamesSound
    <2> QED  BY DEF IInv, NamesSound
  <1>16. FilesOwned'
    <2> SUFFICES ASSUME NEW f \in tmp
                 PROVE  \E g \in Handler : HasName(g) /\ name[g] = f[1]
      BY <1>5, <1>11 DEF FilesOwned
    <2> QED  BY DEF IInv, FilesOwned
  <1>17. OwnFiles'
    <2> SUFFICES ASSUME NEW g \in Handler, HasName(g), alone[g]
        PROVE  /\ \A f \in tmp : f[1] = name[g] => Fits(g, f)'
               /\ pc'[g] \in {"open", "run"} => Good(g)'
               /\ pc'[g] = "answer" /\ status[g] = 0 => Good(g)'
      BY <1>5, <1>11 DEF OwnFiles, Fits, Good
    <2>1. g # h  BY <1>12
    <2>2. request'[g] = request[g] /\ pc'[g] = pc[g]  BY <1>6, <1>8, <2>1
    <2> QED  BY <2>2 DEF IInv, OwnFiles, Fits, Good
  <1>18. AnswerIsOwn'
    <2> SUFFICES ASSUME NEW g \in Handler, pc'[g] = "remove", alone[g]
        PROVE  /\ answer'[g].status = 0 => request'[g].code = "good"
               /\ answer'[g].of \subseteq {request'[g]}
      BY <1>5 DEF AnswerIsOwn, Answered
    <2>1. g # h  BY <1>8
    <2> QED  BY <1>6, <1>8, <1>9, <2>1 DEF IInv, AnswerIsOwn, Answered
  <1> QED  BY <1>10, <1>13, <1>14, <1>15, <1>16, <1>17, <1>18 DEF IInv

(* Nobody has a name of the new value of the counter yet. *)
LEMMA RaiseIdStep ==
  ASSUME IInv, NEW h \in Handler, RaiseId(h)  PROVE IInv'
  <1>1. /\ pc[h] = "name" /\ id' = id + 1 /\ Goto(h, "clock")
        /\ UNCHANGED <<clock, requests, tmp, request, time, name, status, answer>>
    BY DEF RaiseId, NextId
  <1>2. /\ pc' \in [Handler -> Steps] /\ pc'[h] = "clock"
        /\ \A g \in Handler : g # h => pc'[g] = pc[g]
    BY <1>1, GotoFacts DEF Steps
  <1>3. /\ alone' \in [Handler -> BOOLEAN]
        /\ alone'[h] => \A g \in Handler : ~ Naming(g)
        /\ \A g \in Handler : g # h /\ alone'[g] => alone[g] /\ ~ Naming(g)
    BY Types DEF RaiseId
  <1>4. \A g \in Handler :
          /\ HasName(g)' <=> HasName(g)
          /\ HasName(g) => g # h
          /\ Naming(g)' <=> Naming(g) \/ g = h
    BY <1>1, <1>2 DEF HasName, Naming
  <1>5. id \in Nat /\ requests \in Nat /\ requests <= MaxRequests  BY Types
  <1>6. Counted' /\ id' <= requests
    <2>1. IsFiniteSet(Waiting) /\ id + Cardinality(Waiting) <= requests
      BY DEF IInv, Counted
    <2>2. h \in Waiting  BY <1>1 DEF Waiting
    <2>3. Waiting' = Waiting \ {h}  BY <1>2 DEF Waiting
    <2>4. IsFiniteSet(Waiting') /\ Cardinality(Waiting') = Cardinality(Waiting) - 1
      BY <2>1, <2>2, <2>3, FS_RemoveElement
    <2>5. Cardinality(Waiting) \in Nat /\ Cardinality(Waiting') \in Nat
      BY <2>1, <2>4, FS_CardinalityType
    <2>6. id' + Cardinality(Waiting') <= requests'
      BY <1>1, <1>5, <2>1, <2>4, <2>5
    <2> QED  BY <1>1, <1>5, <2>4, <2>5, <2>6 DEF Counted
  <1>7. TypeOK'
    <2>1. id' \in 0 .. MaxRequests
      BY <1>1, <1>5, <1>6, CompileServerAssumption
    <2> QED  BY <1>1, <1>2, <1>3, <2>1, Types, TypesFit
  <1>8. StepsSound'
    <2> SUFFICES ASSUME NEW g \in Handler
        PROVE  /\ pc'[g] # "idle" => request[g] \in Request
               /\ ~ HasName(g) => name[g] = NoName
               /\ HasName(g) => name[g] \in (1 .. MaxClock) \X (1 .. id')
               /\ id' >= 1
               /\ pc'[g] = "id" => time[g] >= 1
      BY <1>1, <1>4 DEF StepsSound
    <2>1. id' >= 1 /\ 1 .. id \subseteq 1 .. id'  BY <1>1, <1>5
    <2>2. pc'[g] # "idle" => pc[g] # "idle"  BY <1>1, <1>2
    <2>3. pc'[g] = "id" => pc[g] = "id"  BY <1>1, <1>2
    <2> QED  BY <2>1, <2>2, <2>3, HandlerFacts
  <1>9. NamesSound'
    <2> SUFFICES ASSUME NEW f \in Handler, NEW g \in Handler, f # g
        PROVE  /\ Naming(f)' /\ Naming(g)' => ~ alone'[f] /\ ~ alone'[g]
               /\ HasName(f) /\ Naming(g)' /\ name[f][2] = id' =>
                    ~ alone'[f] /\ ~ alone'[g]
               /\ HasName(f) /\ HasName(g) /\ name[f] = name[g] =>
                    ~ alone'[f] /\ ~ alone'[g]
      BY <1>1, <1>4 DEF NamesSound
    <2>1. Naming(f)' /\ Naming(g)' => ~ alone'[f] /\ ~ alone'[g]
      BY <1>3, <1>4
    <2>2. ASSUME HasName(f)  PROVE name[f][2] # id'
      <3>1. name[f] \in (1 .. MaxClock) \X (1 .. id)  BY <2>2, HandlerFacts
      <3>2. name[f][2] \in 1 .. id  BY <3>1
      <3> QED  BY <1>1, <1>5, <3>2
    <2>3. HasName(f) /\ HasName(g) /\ name[f] = name[g] => ~ alone'[f] /\ ~ alone'[g]
      BY <1>3, <1>4 DEF IInv, NamesSound
    <2> QED  BY <2>1, <2>2, <2>3
  <1>10. FilesOwned'
    <2> SUFFICES ASSUME NEW f \in tmp
                 PROVE  \E g \in Handler : HasName(g) /\ name[g] = f[1]
      BY <1>1, <1>4 DEF FilesOwned
    <2> QED  BY DEF IInv, FilesOwned
  <1>11. OwnFiles'
    <2> SUFFICES ASSUME NEW g \in Handler, HasName(g), alone'[g]
        PROVE  /\ \A f \in tmp : f[1] = name[g] => Fits(g, f)
               /\ pc'[g] \in {"open", "run"} => Good(g)
               /\ pc'[g] = "answer" /\ status[g] = 0 => Good(g)
      BY <1>1, <1>4 DEF OwnFiles, Fits, Good
    <2>1. pc'[g] = pc[g] /\ alone[g]  BY <1>2, <1>3, <1>4
    <2> QED  BY <2>1 DEF IInv, OwnFiles
  <1>12. AnswerIsOwn'
    <2> SUFFICES ASSUME NEW g \in Handler, pc'[g] = "remove", alone'[g]
        PROVE  /\ answer[g].status = 0 => request[g].code = "good"
               /\ answer[g].of \subseteq {request[g]}
      BY <1>1 DEF AnswerIsOwn, Answered
    <2>1. g # h  BY <1>2
    <2>2. pc[g] = "remove" /\ alone[g]  BY <1>2, <1>3, <2>1
    <2> QED  BY <2>2 DEF IInv, AnswerIsOwn, Answered
  <1> QED  BY <1>6, <1>7, <1>8, <1>9, <1>10, <1>11, <1>12 DEF IInv

LEMMA ReadClockStep ==
  ASSUME IInv, NEW h \in Handler, ReadClock(h)  PROVE IInv'
  <1>1. /\ pc[h] = "clock" /\ time' = [time EXCEPT ![h] = clock] /\ Goto(h, "id")
        /\ UNCHANGED <<clock, id, requests, tmp, request, name, status, answer, alone>>
    BY DEF ReadClock
  <1>2. /\ pc' \in [Handler -> Steps] /\ pc'[h] = "id"
        /\ \A g \in Handler : g # h => pc'[g] = pc[g]
    BY <1>1, GotoFacts DEF Steps
  <1>3. /\ time' \in [Handler -> 0 .. MaxClock] /\ time'[h] >= 1
        /\ \A g \in Handler : g # h => time'[g] = time[g]
    BY <1>1, Types
  <1>4. TypeOK'  BY <1>1, <1>2, <1>3, Types, TypesFit
  <1>5. \A g \in Handler : (HasName(g)' <=> HasName(g)) /\ (Naming(g)' <=> Naming(g))
    BY <1>1, <1>2 DEF HasName, Naming
  <1>6. Counted'  BY <1>1, <1>2, CountedStays
  <1>7. StepsSound'
    <2> SUFFICES ASSUME NEW g \in Handler
        PROVE  /\ pc'[g] # "idle" => request[g] \in Request
               /\ ~ HasName(g) => name[g] = NoName
               /\ HasName(g) => name[g] \in (1 .. MaxClock) \X (1 .. id)
               /\ Naming(g) => id >= 1
               /\ pc'[g] = "id" => time'[g] >= 1
      BY <1>1, <1>5 DEF StepsSound
    <2>1. pc'[g] # "idle" => pc[g] # "idle"  BY <1>1, <1>2
    <2>2. pc'[g] = "id" => time'[g] >= 1  BY <1>2, <1>3, HandlerFacts
    <2> QED  BY <2>1, <2>2, HandlerFacts
  <1>8. NamesSound'
    <2> SUFFICES ASSUME NEW f \in Handler, NEW g \in Handler, f # g
        PROVE  /\ Naming(f) /\ Naming(g) => ~ alone[f] /\ ~ alone[g]
               /\ HasName(f) /\ Naming(g) /\ name[f][2] = id => ~ alone[f] /\ ~ alone[g]
               /\ HasName(f) /\ HasName(g) /\ name[f] = name[g] => ~ alone[f] /\ ~ alone[g]
      BY <1>1, <1>5 DEF NamesSound
    <2> QED  BY DEF IInv, NamesSound
  <1>9. FilesOwned'
    <2> SUFFICES ASSUME NEW f \in tmp
                 PROVE  \E g \in Handler : HasName(g) /\ name[g] = f[1]
      BY <1>1, <1>5 DEF FilesOwned
    <2> QED  BY DEF IInv, FilesOwned
  <1>10. OwnFiles'
    <2> SUFFICES ASSUME NEW g \in Handler, HasName(g), alone[g]
        PROVE  /\ \A f \in tmp : f[1] = name[g] => Fits(g, f)
               /\ pc'[g] \in {"open", "run"} => Good(g)
               /\ pc'[g] = "answer" /\ status[g] = 0 => Good(g)
      BY <1>1, <1>5 DEF OwnFiles, Fits, Good
    <2>1. pc'[g] = pc[g]  BY <1>1, <1>2 DEF HasName
    <2> QED  BY <2>1 DEF IInv, OwnFiles
  <1>11. AnswerIsOwn'
    <2>1. \A g \in Handler : pc'[g] = "remove" => pc[g] = "remove"  BY <1>2
    <2> QED  BY <1>1, <2>1 DEF IInv, AnswerIsOwn, Answered
  <1> QED  BY <1>4, <1>6, <1>7, <1>8, <1>9, <1>10, <1>11 DEF IInv

(* Whoever already has this name read the counter while this handler was   *)
(* being named; if it was named alone, no one has, and no file either.     *)
LEMMA ReadIdStep ==
  ASSUME IInv, NEW h \in Handler, ReadId(h)  PROVE IInv'
  <1>1. /\ pc[h] = "id" /\ name' = [name EXCEPT ![h] = <<time[h], id>>] /\ Goto(h, "write")
        /\ UNCHANGED <<clock, id, requests, tmp, request, time, status, answer, alone>>
    BY DEF ReadId
  <1>2. /\ pc' \in [Handler -> Steps] /\ pc'[h] = "write"
        /\ \A g \in Handler : g # h => pc'[g] = pc[g]
    BY <1>1, GotoFacts DEF Steps
  <1>3. Naming(h) /\ ~ HasName(h)  BY <1>1 DEF Naming, HasName
  <1>4. /\ time[h] \in 1 .. MaxClock /\ id \in 1 .. id /\ id \in 1 .. MaxRequests
        /\ 1 .. MaxClock \subseteq 0 .. MaxClock
    BY <1>1, <1>3, Types, HandlerFacts, CompileServerAssumption
  <1>5. /\ name' \in [Handler -> (0 .. MaxClock) \X (0 .. MaxRequests)]
        /\ name'[h] = <<time[h], id>>
        /\ name'[h] \in (1 .. MaxClock) \X (1 .. id)
        /\ \A g \in Handler : g # h => name'[g] = name[g]
    BY <1>1, <1>4, Types
  <1>6. TypeOK'  BY <1>1, <1>2, <1>5, Types, TypesFit
  <1>7. \A g \in Handler :
          /\ HasName(g)' <=> HasName(g) \/ g = h
          /\ Naming(g)' <=> Naming(g) /\ g # h
    BY <1>1, <1>2 DEF HasName, Naming
  <1>8. Counted'  BY <1>1, <1>2, CountedStays
  <1>9. StepsSound'
    <2> SUFFICES ASSUME NEW g \in Handler
        PROVE  /\ pc'[g] # "idle" => request[g] \in Request
               /\ ~ HasName(g)' => name'[g] = NoName
               /\ HasName(g)' => name'[g] \in (1 .. MaxClock) \X (1 .. id)
               /\ Naming(g)' => id >= 1
               /\ pc'[g] = "id" => time[g] >= 1
      BY <1>1 DEF StepsSound
    <2>1. pc'[g] # "idle" => pc[g] # "idle"  BY <1>1, <1>2
    <2>2. pc'[g] = "id" => pc[g] = "id"  BY <1>2
    <2> QED  BY <1>5, <1>7, <2>1, <2>2, HandlerFacts
  <1>10. \A g \in Handler : HasName(g) /\ name[g] = <<time[h], id>> =>
           g # h /\ ~ alone[g] /\ ~ alone[h]
    <2> SUFFICES ASSUME NEW g \in Handler, HasName(g), name[g] = <<time[h], id>>
                 PROVE  g # h /\ ~ alone[g] /\ ~ alone[h]
      OBVIOUS
    <2>1. name[g][2] = id  OBVIOUS
    <2> QED  BY <1>3, <2>1 DEF IInv, NamesSound
  <1>11. NamesSound'
    <2> SUFFICES ASSUME NEW f \in Handler, NEW g \in Handler, f # g
        PROVE  /\ Naming(f)' /\ Naming(g)' => ~ alone[f] /\ ~ alone[g]
               /\ HasName(f)' /\ Naming(g)' /\ name'[f][2] = id => ~ alone[f] /\ ~ alone[g]
               /\ HasName(f)' /\ HasName(g)' /\ name'[f] = name'[g] =>
                    ~ alone[f] /\ ~ alone[g]
      BY <1>1 DEF NamesSound
    <2>1. Naming(f)' /\ Naming(g)' => ~ alone[f] /\ ~ alone[g]
      BY <1>7 DEF IInv, NamesSound
    <2>2. HasName(f)' /\ Naming(g)' /\ name'[f][2] = id => ~ alone[f] /\ ~ alone[g]
      <3>1. CASE f = h  BY <1>3, <1>7, <3>1 DEF IInv, NamesSound
      <3>2. CASE f # h  BY <1>5, <1>7, <3>2 DEF IInv, NamesSound
      <3> QED  BY <3>1, <3>2
    <2>3. HasName(f)' /\ HasName(g)' /\ name'[f] = name'[g] => ~ alone[f] /\ ~ alone[g]
      <3>1. CASE f = h  BY <1>5, <1>7, <1>10, <3>1
      <3>2. CASE g = h  BY <1>5, <1>7, <1>10, <3>2
      <3>3. CASE f # h /\ g # h  BY <1>5, <1>7, <3>3 DEF IInv, NamesSound
      <3> QED  BY <3>1, <3>2, <3>3
    <2> QED  BY <2>1, <2>2, <2>3
  <1>12. FilesOwned'
    <2> SUFFICES ASSUME NEW f \in tmp
                 PROVE  \E g \in Handler : HasName(g)' /\ name'[g] = f[1]
      BY <1>1 DEF FilesOwned
    <2>1. PICK g \in Handler : HasName(g) /\ name[g] = f[1]  BY DEF IInv, FilesOwned
    <2> QED  BY <1>3, <1>5, <1>7, <2>1
  <1>13. OwnFiles'
    <2> SUFFICES ASSUME NEW g \in Handler, HasName(g)', alone[g]
        PROVE  /\ \A f \in tmp : f[1] = name'[g] => Fits(g, f)
               /\ pc'[g] \in {"open", "run"} => Good(g)
               /\ pc'[g] = "answer" /\ status[g] = 0 => Good(g)
      BY <1>1 DEF OwnFiles, Fits, Good
    <2>1. CASE g = h
      <3>1. \A f \in tmp : f[1] # name'[h]
        <4> SUFFICES ASSUME NEW f \in tmp, f[1] = name'[h]  PROVE FALSE
          OBVIOUS
        <4>1. PICK owner \in Handler : HasName(owner) /\ name[owner] = f[1]
          BY DEF IInv, FilesOwned
        <4> QED  BY <1>5, <1>10, <2>1, <4>1
      <3> QED  BY <1>2, <2>1, <3>1
    <2>2. CASE g # h
      <3>1. HasName(g) /\ name'[g] = name[g] /\ pc'[g] = pc[g]
        BY <1>2, <1>5, <1>7, <2>2
      <3> QED  BY <3>1 DEF IInv, OwnFiles
    <2> QED  BY <2>1, <2>2
  <1>14. AnswerIsOwn'
    <2>1. \A g \in Handler : pc'[g] = "remove" => pc[g] = "remove"  BY <1>2
    <2> QED  BY <1>1, <2>1 DEF IInv, AnswerIsOwn, Answered
  <1> QED  BY <1>6, <1>8, <1>9, <1>11, <1>12, <1>13, <1>14 DEF IInv

(* The files of the name are gone, and with them the name. *)
LEMMA RemoveFilesStep ==
  ASSUME IInv, NEW h \in Handler, RemoveFiles(h)  PROVE IInv'
  <1>1. /\ pc[h] = "remove" /\ tmp' = Remove(name[h])
        /\ name' = [name EXCEPT ![h] = NoName] /\ time' = [time EXCEPT ![h] = 0]
        /\ status' = [status EXCEPT ![h] = 0] /\ Goto(h, "idle")
        /\ UNCHANGED <<clock, id, requests, request, answer, alone>>
    BY DEF RemoveFiles
  <1>2. /\ pc' \in [Handler -> Steps] /\ pc'[h] = "idle"
        /\ \A g \in Handler : g # h => pc'[g] = pc[g]
    BY <1>1, GotoFacts DEF Steps
  <1>3. 0 \in 0 .. MaxClock /\ NoName \in (0 .. MaxClock) \X (0 .. MaxRequests)
    BY CompileServerAssumption DEF NoName
  <1>4. /\ name' \in [Handler -> (0 .. MaxClock) \X (0 .. MaxRequests)]
        /\ name'[h] = NoName
        /\ \A g \in Handler : g # h => name'[g] = name[g]
    BY <1>1, <1>3, Types
  <1>5. /\ time' \in [Handler -> 0 .. MaxClock]
        /\ \A g \in Handler : g # h => time'[g] = time[g]
    BY <1>1, <1>3, Types
  <1>6. /\ status' \in [Handler -> {0, 11, -2, -3}]
        /\ \A g \in Handler : g # h => status'[g] = status[g]
    BY <1>1, Types
  <1>7. \A f \in tmp' : f \in tmp /\ f[1] # name[h]  BY <1>1 DEF Remove
  <1>8. TypeOK'  BY <1>1, <1>2, <1>4, <1>5, <1>6, <1>7, Types, TypesFit
  <1>9. \A g \in Handler :
          /\ HasName(g)' <=> HasName(g) /\ g # h
          /\ Naming(g)' <=> Naming(g)
          /\ Naming(g) => g # h
    BY <1>1, <1>2 DEF HasName, Naming
  <1>10. Counted'  BY <1>1, <1>2, CountedStays
  <1>11. StepsSound'
    <2> SUFFICES ASSUME NEW g \in Handler
        PROVE  /\ pc'[g] # "idle" => request[g] \in Request
               /\ ~ HasName(g)' => name'[g] = NoName
               /\ HasName(g)' => name'[g] \in (1 .. MaxClock) \X (1 .. id)
               /\ Naming(g)' => id >= 1
               /\ pc'[g] = "id" => time'[g] >= 1
      BY <1>1 DEF StepsSound
    <2>1. CASE g = h  BY <1>2, <1>4, <1>9, <2>1
    <2>2. CASE g # h  BY <1>2, <1>4, <1>5, <1>9, <2>2, HandlerFacts
    <2> QED  BY <2>1, <2>2
  <1>12. NamesSound'
    <2> SUFFICES ASSUME NEW f \in Handler, NEW g \in Handler, f # g
        PROVE  /\ Naming(f)' /\ Naming(g)' => ~ alone[f] /\ ~ alone[g]
               /\ HasName(f)' /\ Naming(g)' /\ name'[f][2] = id => ~ alone[f] /\ ~ alone[g]
               /\ HasName(f)' /\ HasName(g)' /\ name'[f] = name'[g] =>
                    ~ alone[f] /\ ~ alone[g]
      BY <1>1 DEF NamesSound
    <2>1. HasName(f)' => HasName(f) /\ name'[f] = name[f]  BY <1>4, <1>9
    <2>2. HasName(g)' => HasName(g) /\ name'[g] = name[g]  BY <1>4, <1>9
    <2> QED  BY <1>9, <2>1, <2>2 DEF IInv, NamesSound
  <1>13. FilesOwned'
    <2> SUFFICES ASSUME NEW f \in tmp'
                 PROVE  \E g \in Handler : HasName(g)' /\ name'[g] = f[1]
      BY DEF FilesOwned
    <2>1. PICK g \in Handler : HasName(g) /\ name[g] = f[1]
      BY <1>7 DEF IInv, FilesOwned
    <2>2. g # h  BY <1>7, <2>1
    <2> QED  BY <1>4, <1>9, <2>1, <2>2
  <1>14. OwnFiles'
    <2> SUFFICES ASSUME NEW g \in Handler, HasName(g)', alone[g]
        PROVE  /\ \A f \in tmp' : f[1] = name'[g] => Fits(g, f)
               /\ pc'[g] \in {"open", "run"} => Good(g)
               /\ pc'[g] = "answer" /\ status'[g] = 0 => Good(g)
      BY <1>1 DEF OwnFiles, Fits, Good
    <2>1. /\ HasName(g) /\ name'[g] = name[g] /\ pc'[g] = pc[g] /\ status'[g] = status[g]
      BY <1>2, <1>4, <1>6, <1>9
    <2> QED  BY <1>7, <2>1 DEF IInv, OwnFiles
  <1>15. AnswerIsOwn'
    <2>1. \A g \in Handler : pc'[g] = "remove" => pc[g] = "remove"  BY <1>2
    <2> QED  BY <1>1, <2>1 DEF IInv, AnswerIsOwn, Answered
  <1> QED  BY <1>8, <1>10, <1>11, <1>12, <1>13, <1>14, <1>15 DEF IInv

LEMMA TickStep ==
  ASSUME IInv, clock' \in 1 .. MaxClock,
         UNCHANGED <<id, requests, tmp, local, answer, alone>>
  PROVE  IInv'
  <1> USE DEF local
  <1>1. TypeOK'  BY Types, TypesFit
  <1>2. Counted'  BY CountedStays
  <1>3. StepsSound'  BY DEF IInv, StepsSound, HasName, Naming
  <1>4. NamesSound'  BY DEF IInv, NamesSound, HasName, Naming
  <1>5. FilesOwned'  BY DEF IInv, FilesOwned, HasName
  <1>6. OwnFiles'  BY DEF IInv, OwnFiles, HasName, Fits, Good
  <1>7. AnswerIsOwn'  BY DEF IInv, AnswerIsOwn, Answered
  <1> QED  BY <1>1, <1>2, <1>3, <1>4, <1>5, <1>6, <1>7 DEF IInv

LEMMA NextInvariant == IInv /\ [Next]_vars => IInv'
  <1> SUFFICES ASSUME IInv, [Next]_vars  PROVE IInv'
    OBVIOUS
  <1>1. ASSUME NEW h \in Handler, Step(h)  PROVE IInv'
    <2>1. CASE RaiseId(h)  BY <2>1, RaiseIdStep
    <2>2. CASE ReadClock(h)  BY <2>2, ReadClockStep
    <2>3. CASE ReadId(h)  BY <2>3, ReadIdStep
    <2>4. CASE WriteSource(h)  BY <2>4, WriteSourceStep
    <2>5. CASE Compile(h)  BY <2>5, CompileStep
    <2>6. CASE CheckExecutable(h)  BY <2>6, CheckExecutableStep
    <2>7. CASE OpenFiles(h)  BY <2>7, OpenFilesStep
    <2>8. CASE Run(h)  BY <2>8, RunStep
    <2>9. CASE Reply(h)  BY <2>9, ReplyStep
    <2>10. CASE RemoveFiles(h)  BY <2>10, RemoveFilesStep
    <2> QED
      BY <1>1, <2>1, <2>2, <2>3, <2>4, <2>5, <2>6, <2>7, <2>8, <2>9, <2>10 DEF Step
  <1>2. ASSUME NEW h \in Handler, NEW code \in Code, Arrive(h, code)  PROVE IInv'
    BY <1>2, ArriveStep
  <1>3. CASE Tick
    <2>1. clock' \in 1 .. MaxClock  BY <1>3, Types, CompileServerAssumption DEF Tick
    <2> QED  BY <1>3, <2>1, TickStep DEF Tick
  <1>4. CASE UNCHANGED vars
    <2>1. clock' \in 1 .. MaxClock  BY <1>4, Types DEF vars
    <2> QED  BY <1>4, <2>1, TickStep DEF vars
  <1> QED  BY <1>1, <1>2, <1>3, <1>4 DEF Next, Rest

LEMMA Invariant == Spec => []IInv
  BY InitInvariant, NextInvariant, PTL DEF Spec

-----------------------------------------------------------------------------

(* Every variable keeps its type; the counter of UniqueFileName            *)
(* (utils.hpp:111) is bounded by the requests that have arrived.           *)
THEOREM TypeCorrect == Spec => []TypeOK
  <1>1. IInv => TypeOK  BY DEF IInv
  <1> QED  BY <1>1, Invariant, PTL

(* Two requests share a name only if both were being named at the same     *)
(* time, and a request that was named alone is told its own result: the    *)
(* counter is read a second time after it was raised (utils.hpp:112), and  *)
(* that is the only way to a common name, for any number of handlers.      *)
THEOREM RequestsStayApart == Spec => []RequestsApart
  <1>1. IInv => RequestsApart
    <2> SUFFICES ASSUME IInv  PROVE ClashOnlyWhenOverlapping
      BY DEF RequestsApart, IInv
    <2> SUFFICES ASSUME NEW g \in Handler, NEW h \in Handler, g # h,
                        name[g] # NoName, name[g] = name[h]
                 PROVE  ~ alone[g] /\ ~ alone[h]
      BY DEF ClashOnlyWhenOverlapping
    <2>1. HasName(g) /\ HasName(h)  BY HandlerFacts
    <2> QED  BY <2>1 DEF IInv, NamesSound
  <1> QED  BY <1>1, Invariant, PTL

(* When no request is being served the directory is empty: whatever step   *)
(* failed, and even if two requests shared a name, each file is removed by *)
(* a handler of its name (compile_run.hpp:186).                            *)
THEOREM NothingLeft == Spec => []NothingLeftBehind
  <1>1. IInv => NothingLeftBehind
    <2> SUFFICES ASSUME IInv, \A h \in Handler : pc[h] = "idle", NEW f \in tmp
                 PROVE  FALSE
      BY DEF NothingLeftBehind
    <2>1. PICK h \in Handler : HasName(h)  BY DEF IInv, FilesOwned
    <2> QED  BY <2>1 DEF HasName
  <1> QED  BY <1>1, Invariant, PTL

=============================================================================
