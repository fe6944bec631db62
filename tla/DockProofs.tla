----------------------------- MODULE DockProofs -----------------------------
(***************************************************************************)
(* Proofs about Dock: no session is asked to publish against its user, for *)
(* any number of edits, messages and requests under way.                   *)
(***************************************************************************)
EXTENDS Dock, TLAPS

Flags == /\ box \in BOOLEAN /\ canPublish \in BOOLEAN /\ ticked \in BOOLEAN
         /\ publishWanted \in BOOLEAN /\ wanted \in BOOLEAN
         /\ \A i \in posts \cup answers : i.publish \in BOOLEAN

\* Every copy of the intent goes back to a tick of the user: the one the page
\* displays, those under way, those on their way back, the server's and the
\* session's; and only a publisher's page offers the box.
Invited ==
  /\ shown \/ ticked => canPublish
  /\ box \/ publishWanted \/ wanted => ticked
  /\ \A i \in posts \cup answers : i.publish => ticked

DockInv == Flags /\ Invited

LEMMA DockInit == Init => DockInv
BY DEF Init, DockInv, Flags, Invited

\* An intent that is sent carries the box, and the box was ticked.
LEMMA SendInvited ==
  ASSUME DockInv, NEW p \in BOOLEAN, SendIntent(p), p => ticked',
         ticked => ticked'
  PROVE  \A i \in posts' \cup answers' :
           i.publish \in BOOLEAN /\ (i.publish => ticked')
<1>1. [publish |-> p, message |-> text].publish = p
  OBVIOUS
<1>2. posts' = posts \cup {[publish |-> p, message |-> text]}
      /\ answers' = answers
  BY DEF SendIntent
<1> QED BY <1>1, <1>2 DEF DockInv, Flags, Invited

LEMMA UserInvited ==
  ASSUME DockInv, User
  PROVE  DockInv'
<1>1. CASE Toggle
  <2>1. /\ box' = ~box /\ ticked' = (ticked \/ ~box) /\ SendIntent(~box)
        /\ UNCHANGED <<shown, canPublish, publishWanted, wanted>>
        /\ shown
    BY <1>1 DEF Toggle, Editing, server, outcome
  <2>2. PICK p \in BOOLEAN : SendIntent(p) /\ (p => ticked') /\ (ticked => ticked')
    BY <2>1 DEF DockInv, Flags
  <2>3. \A i \in posts' \cup answers' :
          i.publish \in BOOLEAN /\ (i.publish => ticked')
    BY <2>2, SendInvited
  <2>4. Flags'
    <3>1. box' \in BOOLEAN /\ ticked' \in BOOLEAN
      BY <2>1 DEF DockInv, Flags
    <3>2. canPublish' \in BOOLEAN /\ publishWanted' \in BOOLEAN /\ wanted' \in BOOLEAN
      BY <2>1 DEF DockInv, Flags
    <3> QED BY <3>1, <3>2, <2>3 DEF Flags
  <2>5. canPublish'
    BY <2>1 DEF DockInv, Invited
  <2>6. box' \/ publishWanted' \/ wanted' => ticked'
    BY <2>1 DEF DockInv, Flags, Invited
  <2> QED BY <2>3, <2>4, <2>5, <2>6 DEF DockInv, Invited
<1>2. CASE Type \/ Leave
  BY <1>2 DEF Type, Leave, Editing, DockInv, Flags, Invited,
              requests, server, outcome
<1> QED BY <1>1, <1>2 DEF User

LEMMA PageInvited ==
  ASSUME DockInv, TimerFires \/ Done \/ Refresh \/ Render
  PROVE  DockInv'
<1>1. CASE TimerFires
  <2>1. /\ SendIntent(box)
        /\ UNCHANGED <<shown, box, ticked, canPublish, publishWanted, wanted>>
    BY <1>1 DEF TimerFires, server, outcome
  <2>2. box \in BOOLEAN /\ (box => ticked') /\ (ticked => ticked')
    BY <2>1 DEF DockInv, Flags, Invited
  <2>3. \A i \in posts' \cup answers' :
          i.publish \in BOOLEAN /\ (i.publish => ticked')
    BY <2>1, <2>2, SendInvited
  <2> QED BY <2>1, <2>3 DEF DockInv, Flags, Invited
<1>2. CASE Done \/ Refresh
  BY <1>2 DEF Done, Refresh, DockInv, Flags, Invited, page, server, outcome
<1>3. CASE Render
  <2>1. PICK st \in answers :
          /\ answers' = answers \ {st}
          /\ shown' = canPublish
          /\ box' = IF canPublish /\ focus # "box" THEN st.publish ELSE box
    BY <1>3 DEF Render
  <2>2. UNCHANGED <<posts, server, outcome, ticked>>
    BY <1>3 DEF Render
  <2>3. box' \in BOOLEAN /\ (box' => ticked)
    BY <2>1 DEF DockInv, Flags, Invited
  <2> QED BY <2>1, <2>2, <2>3 DEF DockInv, Flags, Invited, server, outcome
<1> QED BY <1>1, <1>2, <1>3

LEMMA ServerInvited ==
  ASSUME DockInv, HandleState \/ HandleIntent \/ HandleTruncated
  PROVE  DockInv'
<1>1. CASE HandleState
  <2>1. [publish |-> publishWanted, message |-> lastMessage].publish = publishWanted
    OBVIOUS
  <2> QED
    BY <1>1, <2>1 DEF HandleState, DockInv, Flags, Invited, page, server, outcome
<1>2. CASE HandleIntent
  <2>1. PICK i \in posts :
          /\ publishWanted' = Wanted(i)
          /\ posts' = posts \ {i}
    BY <1>2 DEF HandleIntent
  <2>2. publishWanted' \in BOOLEAN /\ (publishWanted' => ticked)
    BY <2>1 DEF Wanted, DockInv, Invited
  <2> QED
    BY <1>2, <2>1, <2>2 DEF HandleIntent, DockInv, Flags, Invited, page, outcome
<1>3. CASE HandleTruncated
  BY <1>3 DEF HandleTruncated, DockInv, Flags, Invited, page, outcome
<1> QED BY <1>1, <1>2, <1>3

LEMMA DockInductive == DockInv /\ [Next]_vars => DockInv'
<1> SUFFICES ASSUME DockInv, [Next]_vars PROVE DockInv'
  OBVIOUS
<1>1. CASE Close \/ ReadIntent
  BY <1>1 DEF Close, ReadIntent, DockInv, Flags, Invited, page, requests, server
<1>2. CASE UNCHANGED vars
  BY <1>2 DEF vars, DockInv, Flags, Invited, page, requests, server, outcome
<1> QED
  BY <1>1, <1>2, UserInvited, PageInvited, ServerInvited DEF Next, Traffic

\* What PublishRequested returns is true only where the user of a publisher's
\* machine ticked the box in that session.
THEOREM AlwaysInvited == Spec => []NeverUninvited
<1>1. DockInv => NeverUninvited
  BY DEF DockInv, Invited, NeverUninvited
<1> QED BY <1>1, DockInit, DockInductive, PTL DEF Spec

=============================================================================
