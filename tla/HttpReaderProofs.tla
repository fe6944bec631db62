-------------------------- MODULE HttpReaderProofs --------------------------
(***************************************************************************)
(* Proofs about HttpReader, for every Retry-After a hosting may send.      *)
(***************************************************************************)
EXTENDS HttpReader, TLAPS

-----------------------------------------------------------------------------
(* Pauses *)

\* Every pause is at most a minute: the value asked for when it is kept, two,
\* four or eight seconds otherwise.
LEMMA DelayBound ==
  ASSUME NEW h \in Nat, NEW n \in 0..(tentatives - 1)
  PROVE  DelayBeforeRetry(h, n) \in 0..Minute
<1>1. CASE n = 0
  <2>1. 2^0 = 1
    OBVIOUS
  <2> QED
    BY <1>1, <2>1 DEF DelayBeforeRetry, retryAfter, attenteBase, Minute
<1>2. CASE n = 1
  <2>1. 2^1 = 2
    OBVIOUS
  <2> QED
    BY <1>2, <2>1 DEF DelayBeforeRetry, retryAfter, attenteBase, Minute
<1>3. CASE n = 2
  <2>1. 2^2 = 4
    OBVIOUS
  <2> QED
    BY <1>3, <2>1 DEF DelayBeforeRetry, retryAfter, attenteBase, Minute
<1> QED
  BY <1>1, <1>2, <1>3 DEF tentatives

\* What is renamed over the local file is the whole answer.
PartInv ==
  /\ pc \in {"create", "copy", "rename"} => got \in Bodies
  /\ pc = "rename" => part = got

\* The pauses so far, and the one under way, fit in a minute per attempt.
PauseInv ==
  /\ TypeOK /\ PartInv
  /\ attente <= Minute
  /\ pc \in {"try", "wait"} => waited <= essai * Minute
  /\ waited <= (essai + 1) * Minute

\* The initial state satisfies it and every step keeps it.
LEMMA PauseInductive ==
  (Init => PauseInv) /\ (PauseInv /\ [Next]_vars => PauseInv')
<1> USE HeadersAssumption DEF PauseInv, PartInv, TypeOK, tentatives, Minute
<1>1. Init => PauseInv
  BY DEF Init
<1>2. ASSUME PauseInv, Next PROVE PauseInv'
  <2>1. CASE Call
    BY <1>2, <2>1 DEF Call, files
  <2>2. CASE Answered
    BY <1>2, <2>2 DEF Answered, files, pause
  <2>3. CASE Refused \/ Cancelled
    BY <1>2, <2>3 DEF Refused, Cancelled, Return, Failures, files, pause
  <2>4. CASE Limited
    <3>1. PICK h \in Headers : asked' = h /\ attente' = DelayBeforeRetry(h, essai)
      BY <2>4 DEF Limited
    <3>2. DelayBeforeRetry(h, essai) \in 0..60
      BY <1>2, <3>1, DelayBound
    <3> QED
      BY <1>2, <2>4, <3>1, <3>2 DEF Limited, files
  <2>5. CASE Resume
    BY <1>2, <2>5 DEF Resume, Return, Failures, files, pause
  <2>6. CASE CreatePart \/ CopyBody
    BY <1>2, <2>6 DEF CreatePart, CopyBody, pause
  <2>7. CASE CopyFails \/ RenamePart \/ Crash
    BY <1>2, <2>7 DEF CopyFails, RenamePart, Crash, Return, Failures, files, pause
  <2>8. CASE CreateFails \/ RenameFails
    BY <1>2, <2>8 DEF CreateFails, RenameFails, Return, Failures, files, pause
  <2> QED
    BY <1>2, <2>1, <2>2, <2>3, <2>4, <2>5, <2>6, <2>7,
       <2>8 DEF Next, Step
<1>3. ASSUME PauseInv, UNCHANGED vars PROVE PauseInv'
  BY <1>3 DEF vars, files, pause
<1> QED
  BY <1>1, <1>2, <1>3

\* A call pauses three minutes at most, whatever the hosting asks for: three
\* refusals end it and retryAfter keeps every pause under a minute.
THEOREM BoundedPatience == Spec => []PatienceBounded
<1>1. PauseInv => PatienceBounded
  BY DEF PauseInv, TypeOK, PatienceBounded, tentatives, Minute
<1> QED
  BY <1>1, PauseInductive, PTL DEF Spec

\* Every variable of the reader keeps its type: the local file never holds a
\* part of an answer, whatever failed or was cancelled while it was received.
THEOREM ReaderTyped == Spec => []TypeOK
<1>1. PauseInv => TypeOK
  BY DEF PauseInv
<1> QED BY <1>1, PauseInductive, PTL DEF Spec

-----------------------------------------------------------------------------
(* Downloads *)

\* Every step of a download replaces the local file by the whole answer, or
\* leaves it and reports nothing or a failure: HttpReader implements Fetch.
THEOREM DownloadIsAtomic == Spec => AtomicDownload
<1>1. Init => Download!Init
  BY DEF Init, Download!Init
<1>2. PauseInv /\ [Next]_vars => [Download!Next]_<<dest, result>>
  <2> SUFFICES ASSUME PauseInv, Next PROVE Download!Next \/ UNCHANGED <<dest, result>>
    BY DEF vars, files
  <2>1. CASE Call \/ Crash
    BY <2>1 DEF Call, Crash, Return, files, Download!Next, Download!Again
  <2>2. CASE Answered \/ Limited \/ CreatePart \/ CopyBody
    BY <2>2 DEF Answered, Limited, CreatePart, CopyBody, files
  <2>3. CASE Refused \/ Cancelled \/ CreateFails \/ CopyFails \/ RenameFails
    BY <2>3 DEF Refused, Cancelled, CreateFails, CopyFails, RenameFails, Return,
       files, Download!Next, Download!Failure
  <2>4. CASE Resume
    BY <2>4 DEF Resume, Return, files, Download!Next, Download!Failure
  <2>5. CASE RenamePart
    BY <2>5 DEF RenamePart, Return, PauseInv, PartInv, Download!Next,
       Download!Success
  <2> QED
    BY <2>1, <2>2, <2>3, <2>4, <2>5 DEF Next, Step
<1> QED
  BY <1>1, <1>2, PauseInductive, PTL DEF Spec, AtomicDownload, Download!Spec

=============================================================================
