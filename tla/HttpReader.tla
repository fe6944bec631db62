----------------------------- MODULE HttpReader -----------------------------
(***************************************************************************)
(* HTTPReader.do and Download: one agent that asks a rate limiting hosting *)
(* for a file, waits when it is told to, and writes the answer next to the *)
(* local file before it renames it.  Time is counted in seconds.           *)
(***************************************************************************)
EXTENDS Naturals

CONSTANTS
  Bodies,     \* complete files the hosting may serve
  Partial,    \* a file that was not written to the end
  Absent,     \* no file
  Headers,    \* Retry-After values, 0 when missing or unreadable
  MaxCalls    \* bound: downloads in a behaviour

ASSUME HeadersAssumption ==
  /\ Headers \subseteq Nat
  /\ Partial \notin Bodies /\ Absent \notin Bodies
  /\ MaxCalls \in Nat

VARIABLES
  dest,       \* the local file
  part,       \* dest.part
  pc,         \* idle, try, wait, create, copy, rename
  essai,      \* attempts before this one
  attente,    \* the pause under way
  asked,      \* the Retry-After of the last refusal
  waited,     \* seconds spent in pauses by this call
  got,        \* the body of the answer
  result,     \* what the call returned
  calls       \* calls so far (bound)

files  == <<dest, part>>
pause  == <<attente, asked>>
vars   == <<files, pc, essai, pause, waited, got, result, calls>>

tentatives  == 3
attenteBase == 2
Minute      == 60

\* Mistake: the hosting is believed whatever it asks for.
NoCap(h) == h

\* retryAfter: a value over a minute counts as no value.
retryAfter(h) == IF h > Minute THEN 0 ELSE h

\* The pause after a refusal.
DelayBeforeRetry(h, n) ==
  IF retryAfter(h) > 0 THEN retryAfter(h) ELSE attenteBase * 2^n

Failures == {"notfound", "error", "limited"}

TypeOK ==
  /\ dest \in Bodies \cup {Absent}
  /\ part \in Bodies \cup {Absent, Partial}
  /\ pc \in {"idle", "try", "wait", "create", "copy", "rename"}
  /\ essai \in 0..(tentatives - 1)
  /\ attente \in Nat /\ asked \in Headers \cup {0} /\ waited \in Nat
  /\ got \in Bodies \cup {Absent}
  /\ result \in Failures \cup {"none", "ok"}
  /\ calls \in Nat

Init ==
  /\ dest = Absent /\ part = Absent
  /\ pc = "idle" /\ essai = 0 /\ attente = 0 /\ asked = 0 /\ waited = 0
  /\ got = Absent /\ result = "none" /\ calls = 0

-----------------------------------------------------------------------------

Call ==
  /\ pc = "idle" /\ calls < MaxCalls
  /\ pc' = "try" /\ essai' = 0 /\ attente' = 0 /\ asked' = 0 /\ waited' = 0
  /\ got' = Absent /\ result' = "none" /\ calls' = calls + 1
  /\ UNCHANGED files

Return(r) == pc' = "idle" /\ result' = r

\* 200: the body follows.
Answered ==
  /\ pc = "try"
  /\ got' \in Bodies
  /\ pc' = "create"
  /\ UNCHANGED <<files, essai, pause, waited, result, calls>>

\* 404, another status, no answer in five minutes, or the agent is stopped:
\* never asked again.
Refused ==
  /\ pc = "try"
  /\ \E r \in {"notfound", "error"} : Return(r)
  /\ UNCHANGED <<files, essai, pause, waited, got, calls>>

\* Mistake: a refusal is followed by a request at once, uncounted.
RetriesAtOnce ==
  /\ pc = "try"
  /\ asked' \in Headers
  /\ UNCHANGED <<files, pc, essai, attente, waited, got, result, calls>>

\* 429 or 503: a pause, even after the last attempt.
Limited ==
  /\ pc = "try"
  /\ \E h \in Headers :
       /\ asked'   = h
       /\ attente' = DelayBeforeRetry(h, essai)
  /\ pc' = "wait"
  /\ UNCHANGED <<files, essai, waited, got, result, calls>>

\* The pause is over: another attempt, as long as there is one left.
Resume ==
  /\ pc = "wait"
  /\ waited' = waited + attente
  /\ IF essai + 1 < tentatives
       THEN /\ essai' = essai + 1 /\ pc' = "try"
            /\ UNCHANGED result
       ELSE /\ Return("limited")
            /\ UNCHANGED essai
  /\ UNCHANGED <<files, pause, got, calls>>

\* The agent is asked to stop during a pause.
Cancelled ==
  /\ pc = "wait" /\ Return("error")
  /\ UNCHANGED <<files, essai, pause, waited, got, calls>>

\* os.Create truncates what an earlier call may have left.
CreatePart ==
  /\ pc = "create"
  /\ part' = Partial /\ pc' = "copy"
  /\ UNCHANGED <<dest, essai, pause, waited, got, result, calls>>

\* The folder or the file cannot be made.
CreateFails ==
  /\ pc = "create" /\ Return("error")
  /\ UNCHANGED <<files, essai, pause, waited, got, calls>>

CopyBody ==
  /\ pc = "copy"
  /\ part' = got /\ pc' = "rename"
  /\ UNCHANGED <<dest, essai, pause, waited, got, result, calls>>

\* Mistake: the error of the copy is ignored.
IgnoresCopyError ==
  /\ pc = "copy" /\ pc' = "rename"
  /\ UNCHANGED <<files, essai, pause, waited, got, result, calls>>

\* The connection or the disk fails: the temporary file is removed.
CopyFails ==
  /\ pc = "copy"
  /\ part' = Absent /\ Return("error")
  /\ UNCHANGED <<dest, essai, pause, waited, got, calls>>

RenamePart ==
  /\ pc = "rename"
  /\ dest' = part /\ part' = Absent /\ Return("ok")
  /\ UNCHANGED <<essai, pause, waited, got, calls>>

\* The local file is open somewhere: the temporary one stays.
RenameFails ==
  /\ pc = "rename" /\ Return("error")
  /\ UNCHANGED <<files, essai, pause, waited, got, calls>>

\* The process dies; the files stay as they are.
Crash ==
  /\ pc # "idle" /\ Return("none")
  /\ UNCHANGED <<files, essai, pause, waited, got, calls>>

Step == \/ Answered \/ Refused \/ Limited \/ Resume
        \/ CreatePart \/ CreateFails \/ CopyBody \/ CopyFails
        \/ RenamePart \/ RenameFails
Next == Call \/ Step \/ Cancelled \/ Crash

Spec     == Init /\ [][Next]_vars
\* The HTTP client gives up after five minutes and pauses end.
FairSpec == Spec /\ WF_vars(Step)

-----------------------------------------------------------------------------

\* Whatever fails and whenever the process dies, the local file is never a
\* truncated one, and a call that succeeds has replaced it: Receive may trust
\* the file a successful Download leaves.
Download == INSTANCE Fetch
AtomicDownload == Download!Spec

\* However long the hosting asks to wait, a call pauses three minutes at most:
\* retryAfter caps every pause and do the number of pauses.
PatienceBounded == waited <= tentatives * Minute

\* A call always returns, however often the hosting refuses.
CallReturns == pc # "idle" ~> pc = "idle"

=============================================================================
