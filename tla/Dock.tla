-------------------------------- MODULE Dock --------------------------------
(***************************************************************************)
(* The dock during one session: the page that OBS displays, the handlers   *)
(* of internal/dock and the session that reads the intent once OBS is      *)
(* closed.  The page's requests are independent: they may be handled, and  *)
(* their answers arrive, in any order.                                     *)
(***************************************************************************)
EXTENDS Naturals, FiniteSets

CONSTANTS
  Texts,      \* messages of a publication
  NoText,     \* the empty message
  MaxEdits,   \* bound: what the user enters in a session
  MaxPolls    \* bound: state requests under way at once

ASSUME DockAssumption ==
  /\ NoText \in Texts
  /\ MaxEdits \in Nat /\ MaxPolls \in Nat

VARIABLES
  \* the page
  shown,          \* the publication card is displayed
  box, text,      \* what the card displays
  focus,          \* the field that has the focus
  timer,          \* a delayed sendIntent is pending
  sending,        \* the flag of sendIntent
  \* the requests
  posts,          \* intents sent and not handled
  acks,           \* intents handled, their answers under way
  polls,          \* state requests not handled
  answers,        \* states under way to the page
  \* the server
  canPublish,     \* this machine has a publisher.json
  publishWanted,
  lastMessage,
  \* the session
  session,        \* obs, closed, read
  wanted,         \* what PublishRequested returned
  ticked,         \* history: the user has ticked the box
  edits           \* bound

page     == <<shown, box, text, focus, timer, sending>>
requests == <<posts, acks, polls, answers>>
server   == <<canPublish, publishWanted, lastMessage>>
outcome  == <<session, wanted>>
vars     == <<page, requests, server, outcome, ticked, edits>>

Init ==
  /\ shown = FALSE /\ box = FALSE /\ text = NoText /\ focus = "none"
  /\ timer = FALSE /\ sending = FALSE
  /\ posts = {} /\ acks = 0 /\ polls = 0 /\ answers = {}
  /\ canPublish \in BOOLEAN /\ publishWanted = FALSE /\ lastMessage = NoText
  /\ session = "obs" /\ wanted = FALSE /\ ticked = FALSE /\ edits = 0

-----------------------------------------------------------------------------
(* The user *)

\* sendIntent: the form as it is, the publication being p.  Two requests with
\* the same form under way together count as one.
SendIntent(p) ==
  /\ posts' = posts \cup {[publish |-> p, message |-> text]}
  /\ sending' = TRUE
  /\ UNCHANGED <<acks, polls, answers>>

Editing == session = "obs" /\ shown /\ edits < MaxEdits /\ edits' = edits + 1

\* The box is sent at once.
Toggle ==
  /\ Editing
  /\ box' = ~box /\ focus' = "box"
  /\ ticked' = (ticked \/ ~box)
  /\ SendIntent(~box)
  /\ UNCHANGED <<shown, text, timer, server, outcome>>

\* The message is sent 400 ms after the last key.
Type ==
  /\ Editing
  /\ text' \in Texts \ {text} /\ focus' = "text" /\ timer' = TRUE
  /\ UNCHANGED <<shown, box, sending, requests, server, outcome, ticked>>

Leave ==
  /\ session = "obs" /\ focus # "none"
  /\ focus' = "none"
  /\ UNCHANGED <<shown, box, text, timer, sending, requests, server, outcome,
                 ticked, edits>>

-----------------------------------------------------------------------------
(* The page *)

TimerFires ==
  /\ session = "obs" /\ timer
  /\ timer' = FALSE
  /\ SendIntent(box)
  /\ UNCHANGED <<shown, box, text, focus, server, outcome, ticked, edits>>

\* Mistake: sendIntent does not come back to the refreshes.
NeverDone ==
  /\ session = "obs" /\ acks > 0
  /\ acks' = acks - 1
  /\ UNCHANGED <<page, posts, polls, answers, server, outcome, ticked, edits>>

\* The answer to an intent ends sendIntent, also when another one is pending.
Done ==
  /\ session = "obs" /\ acks > 0
  /\ acks' = acks - 1 /\ sending' = FALSE
  /\ UNCHANGED <<shown, box, text, focus, timer, posts, polls, answers,
                 server, outcome, ticked, edits>>

\* Every three seconds, unless an intent is being sent.
Refresh ==
  /\ session = "obs" /\ ~sending
  /\ polls + Cardinality(answers) < MaxPolls
  /\ polls' = polls + 1
  /\ UNCHANGED <<page, posts, acks, answers, server, outcome, ticked, edits>>

\* render: a field that has the focus is left to the user.
Render ==
  /\ session = "obs"
  /\ \E st \in answers :
       /\ answers' = answers \ {st}
       /\ shown' = canPublish
       /\ box'   = IF canPublish /\ focus # "box" THEN st.publish ELSE box
       /\ text'  = IF canPublish /\ focus # "text" THEN st.message ELSE text
  /\ UNCHANGED <<focus, timer, sending, posts, acks, polls, server, outcome,
                 ticked, edits>>

-----------------------------------------------------------------------------
(* The server *)

\* handleState copies the intent under the lock.
HandleState ==
  /\ polls > 0
  /\ polls'   = polls - 1
  /\ answers' = answers \cup {[publish |-> publishWanted, message |-> lastMessage]}
  /\ UNCHANGED <<page, posts, acks, server, outcome, ticked, edits>>

\* Mistake: whoever sends an intent wants to publish.
AlwaysWanted(i) == canPublish

\* A machine without publisher.json never wants to publish.
Wanted(i) == i.publish /\ canPublish

\* handleIntent
HandleIntent ==
  \E i \in posts :
    /\ publishWanted' = Wanted(i) /\ lastMessage' = i.message
    /\ posts' = posts \ {i} /\ acks' = acks + 1
    /\ UNCHANGED <<page, polls, answers, canPublish, outcome, ticked, edits>>

\* OBS has stopped in the middle of a request: the error of Decode is ignored
\* and the body counts as empty.
HandleTruncated ==
  /\ session # "obs"
  /\ \E i \in posts : posts' = posts \ {i}
  /\ publishWanted' = FALSE /\ lastMessage' = NoText
  /\ UNCHANGED <<page, acks, polls, answers, canPublish, outcome, ticked, edits>>

-----------------------------------------------------------------------------
(* The session *)

\* OBS closes, and the page with it.
Close ==
  /\ session = "obs"
  /\ session' = "closed"
  /\ UNCHANGED <<page, requests, server, wanted, ticked, edits>>

\* PublishRequested, once.  A handler may still run after it.
ReadIntent ==
  /\ session = "closed"
  /\ session' = "read" /\ wanted' = publishWanted
  /\ UNCHANGED <<page, requests, server, ticked, edits>>

User    == Toggle \/ Type \/ Leave
Traffic == TimerFires \/ Done \/ Refresh \/ Render \/ HandleState \/ HandleIntent
Next    == User \/ Traffic \/ HandleTruncated \/ Close \/ ReadIntent

Spec == Init /\ [][Next]_vars

\* Timers fire, and the requests of the page are handled and answered.
Fairness == /\ WF_vars(TimerFires) /\ WF_vars(Done) /\ WF_vars(Refresh)
            /\ WF_vars(Render) /\ WF_vars(HandleState) /\ WF_vars(HandleIntent)
FairSpec == Spec /\ Fairness

-----------------------------------------------------------------------------

\* A session is asked to publish only if its user has ticked the box, whatever
\* the order of intents, refreshes and delayed messages, and whatever request
\* the end of OBS cuts: README, "publier par accident est impossible".
NeverUninvited == wanted => ticked /\ canPublish

\* Once the user lets go of the form, it ends up displaying the intent that
\* the server will hand to the session.
DockSettles ==
  <>[](session = "obs" /\ focus = "none") =>
    <>[](canPublish => box = publishWanted /\ text = lastMessage)

=============================================================================
