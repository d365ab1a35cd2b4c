------------------------------ MODULE Dashboard ------------------------------
(***************************************************************************)
(* The dashboard: the list of WebSockets main.py pushes new requests to,   *)
(* the pushes that walk this list while handlers change it, and the list   *)
(* of requests each open tab keeps from pushes and polls, with the popup   *)
(* through which the operator decides.                                     *)
(*                                                                         *)
(* The queue of requests is AuthService's; here it is the sequence of the  *)
(* devices get_pending_list returns, which its other users change at will. *)
(***************************************************************************)
EXTENDS Integers, SequencesExt, FiniteSetsExt

CONSTANTS
    Devices,              \* fingerprints
    Tabs,                 \* loaded pages of the frontend
    Sockets,              \* WebSockets of /ws/dashboard; an id is used again
    NoSocket,             \* no connection
    NoDevice,             \* no button pressed
    MaxDashboardClients,  \* MAX_DASHBOARD_CLIENTS of settings.py
    MaxPolls              \* bound: polls of one tab under way at once

ASSUME DashboardAssumption ==
    /\ IsFiniteSet(Devices) /\ IsFiniteSet(Sockets)
    /\ NoSocket \notin Sockets
    /\ NoDevice \notin Devices
    /\ MaxDashboardClients \in Nat \ {0}
    /\ MaxPolls \in Nat \ {0}

VARIABLES
    pending,   \* what get_pending_list would return, in the order of _pending
    sockets,   \* _dashboard_sockets
    handler,   \* socket -> where its dashboard_ws stands
    push,      \* device -> the _push_dashboard task of its last request
    conn,      \* tab -> the socket it has open
    tab,       \* tab -> the state of its reducer and popup
    asked,     \* tab -> polls the server has yet to answer
    answers    \* tab -> answers under way, in any order

vars == <<pending, sockets, handler, push, conn, tab, asked, answers>>

Entry == [device: Devices, fresh: BOOLEAN]

(* "asked" is before the check of the cap.                                 *)
Stages == {"none", "asked", "accepting", "loop"}

(* index and dead are the locals of the task. The rest is history: the     *)
(* sockets in the list since the task began that it has not tried yet, and *)
(* how many entries others have taken out of the list meanwhile.           *)
Push == [on: BOOLEAN, index: 0 .. Cardinality(Sockets), dead: SUBSET Sockets,
         untried: SUBSET Sockets, shifts: 0 .. Cardinality(Sockets)]

NoPush == [on |-> FALSE, index |-> 0, dead |-> {}, untried |-> {}, shifts |-> 0]

Tab == [list: BoundedSeq(Entry, Cardinality(Devices)),
        dismissed: SUBSET Devices, loading: Devices \union {NoDevice},
        acting: SUBSET Devices]

Queues == {q \in BoundedSeq(Devices, Cardinality(Devices)) : IsInjective(q)}

(* The types of all variables: in particular neither the queue nor the     *)
(* list of sockets nor the list of a tab has anything twice.               *)
TypeOK ==
    /\ pending \in Queues
    /\ sockets \in {q \in BoundedSeq(Sockets, Cardinality(Sockets)) : IsInjective(q)}
    /\ handler \in [Sockets -> Stages]
    /\ push \in [Devices -> Push]
    /\ conn \in [Tabs -> Sockets \union {NoSocket}]
    /\ tab \in [Tabs -> Tab]
    /\ \A t \in Tabs : IsInjective([i \in DOMAIN tab[t].list |-> tab[t].list[i].device])
    /\ asked \in [Tabs -> 0 .. MaxPolls]
    /\ answers \in [Tabs -> SUBSET Queues]

-----------------------------------------------------------------------------
(* What the actions are made of.                                           *)

Up(s) == \E t \in Tabs : conn[t] = s

(* Kept(q, S)[n] is what is left of the first n elements of q without      *)
(* those in S: a list filtered, or cut down by remove().                   *)
Kept(q, S) ==
    LET kept[n \in 0 .. Len(q)] ==
            IF n = 0 THEN <<>>
            ELSE IF q[n] \in S THEN kept[n - 1] ELSE Append(kept[n - 1], q[n])
    IN  kept

Without(q, S) == Kept(q, S)[Len(q)]

Queued(q, d) == IF d \in Range(q) THEN q ELSE Append(q, d)

Listed(t) == [i \in DOMAIN tab[t].list |-> tab[t].list[i].device]

Visible(tb) == Without(tb.list, {e \in Entry : ~e.fresh \/ e.device \in tb.dismissed})

(* What every change of the tab's state renders: without a card the popup  *)
(* is unmounted, and with it the state of its buttons.                     *)
Rendered(tb) == IF Visible(tb) = <<>> THEN [tb EXCEPT !.loading = NoDevice] ELSE tb

Card(t) == Head(Visible(tab[t])).device

(* The push p when others take S out of the list it walks.                 *)
Shifted(p, S) ==
    IF p.on
    THEN [p EXCEPT !.untried = @ \ S,
                   !.shifts = Min({@ + Cardinality(S \intersect Range(sockets)),
                                   Cardinality(Sockets)})]
    ELSE p

(* The handler returns; the tab, if it is still there, sees the close.     *)
Ends(s) ==
    /\ handler' = [handler EXCEPT ![s] = "none"]
    /\ conn' = [t \in Tabs |-> IF conn[t] = s THEN NoSocket ELSE conn[t]]

(* Mutant for ListedIsServed: the handler leaves its socket in the list.   *)
UnlistNothing(s) == UNCHANGED <<sockets, push>>

(* The finally of dashboard_ws.                                            *)
Unlist(s) ==
    /\ sockets' = Without(sockets, {s})
    /\ push' = [d \in Devices |-> Shifted(push[d], {s})]

Init ==
    /\ pending = <<>>
    /\ sockets = <<>>
    /\ handler = [s \in Sockets |-> "none"]
    /\ push = [d \in Devices |-> NoPush]
    /\ conn = [t \in Tabs |-> NoSocket]
    /\ tab = [t \in Tabs |->
            [list |-> <<>>, dismissed |-> {}, loading |-> NoDevice,
             acting |-> {}]]
    /\ asked = [t \in Tabs |-> 0]
    /\ answers = [t \in Tabs |-> {}]

-----------------------------------------------------------------------------
(* The queue, and the pushes of its callback.                              *)

(* handle_hello of a device that is not trusted, and _on_pending. Bound: a *)
(* device asks again only when the push of its last request has ended.     *)
Hello(d) ==
    /\ ~push[d].on
    /\ pending' = Queued(pending, d)
    /\ push' = [push EXCEPT ![d] = [NoPush EXCEPT !.on = TRUE, !.untried = Range(sockets)]]
    /\ UNCHANGED <<sockets, handler, conn, tab, asked, answers>>

(* _issue_challenge queues a trusted device too, and notifies nobody.      *)
TrustedHello(d) ==
    /\ pending' = Queued(pending, d)
    /\ UNCHANGED <<sockets, handler, push, conn, tab, asked, answers>>

(* Verified, expired, evicted, or decided elsewhere.                       *)
Leaves(d) ==
    /\ pending' = Without(pending, {d})
    /\ UNCHANGED <<sockets, handler, push, conn, tab, asked, answers>>

(* Mutant for TypeOK: ADD_PENDING without the search for the fingerprint.  *)
AddPendingAgain(s, d) ==
    tab' = [t \in Tabs |->
        IF conn[t] = s
        THEN [tab[t] EXCEPT !.list = <<[device |-> d, fresh |-> TRUE]>> \o @]
        ELSE tab[t]]

(* The tab of socket s runs onmessage, handleWsEvent and ADD_PENDING.      *)
AddPending(s, d) ==
    tab' = [t \in Tabs |->
        IF conn[t] = s /\ d \notin Range(Listed(t))
        THEN [tab[t] EXCEPT !.list = <<[device |-> d, fresh |-> TRUE]>> \o @]
        ELSE tab[t]]

(* Mutant for PushMissesOnlyOnRemoval: a dead socket leaves the list while *)
(* the loop runs over it.                                                  *)
PushSendAndRemove(d) ==
    LET s == sockets[push[d].index + 1] IN
    /\ push[d].on /\ push[d].index < Len(sockets)
    /\ push' = [push EXCEPT ![d].index = @ + 1, ![d].untried = @ \ {s}]
    /\ sockets' = IF Up(s) THEN sockets ELSE Without(sockets, {s})
    /\ AddPending(s, d)
    /\ UNCHANGED <<pending, handler, conn, asked, answers>>

(* One turn of the loop of _push_dashboard, to its await: the next socket  *)
(* by index takes the event, or raises and is noted as dead. The event is  *)
(* read as it is sent: the delay of the task stands for the way it goes.   *)
PushSend(d) ==
    LET s == sockets[push[d].index + 1] IN
    /\ push[d].on /\ push[d].index < Len(sockets)
    /\ push' = [push EXCEPT ![d].index = @ + 1,
                            ![d].dead = IF Up(s) THEN @ ELSE @ \union {s},
                            ![d].untried = @ \ {s}]
    /\ AddPending(s, d)
    /\ UNCHANGED <<pending, sockets, handler, conn, asked, answers>>

(* The index is past the end: what is dead leaves the list.                *)
PushEnd(d) ==
    /\ push[d].on /\ push[d].index >= Len(sockets)
    /\ sockets' = Without(sockets, push[d].dead)
    /\ push' = [e \in Devices |->
            IF e = d THEN NoPush ELSE Shifted(push[e], push[d].dead)]
    /\ UNCHANGED <<pending, handler, conn, tab, asked, answers>>

-----------------------------------------------------------------------------
(* The handler of one socket, dashboard_ws.                                *)

(* The check of the cap, up to the await of accept(); a refused socket is  *)
(* closed with code 4008.                                                  *)
Admit(s) ==
    /\ handler[s] = "asked"
    /\ Len(sockets) < MaxDashboardClients
    /\ handler' = [handler EXCEPT ![s] = "accepting"]
    /\ UNCHANGED <<pending, sockets, push, conn, tab, asked, answers>>

Refuse(s) ==
    /\ handler[s] = "asked"
    /\ Len(sockets) >= MaxDashboardClients
    /\ Ends(s)
    /\ UNCHANGED <<pending, sockets, push, tab, asked, answers>>

Accept(s) ==
    /\ handler[s] = "accepting"
    /\ sockets' = Append(sockets, s)
    /\ handler' = [handler EXCEPT ![s] = "loop"]
    /\ UNCHANGED <<pending, push, conn, tab, asked, answers>>

(* accept() may find the tab gone.                                         *)
AcceptRaises(s) ==
    /\ handler[s] = "accepting" /\ ~Up(s)
    /\ Ends(s)
    /\ UNCHANGED <<pending, sockets, push, tab, asked, answers>>

(* Mutant for PlacesComeBack: no bound on the lifetime.                    *)
LoopEndsWhenDead(s) ==
    /\ handler[s] = "loop" /\ ~Up(s)
    /\ Ends(s)
    /\ Unlist(s)
    /\ UNCHANGED <<pending, tab, asked, answers>>

(* The ping of a turn of the loop raises, or its lifetime is over and the  *)
(* handler closes the socket; a ping that is sent changes nothing.         *)
LoopEnds(s) ==
    /\ handler[s] = "loop"
    /\ Ends(s)
    /\ Unlist(s)
    /\ UNCHANGED <<pending, tab, asked, answers>>

-----------------------------------------------------------------------------
(* A tab and its socket, useDashboardSocket.                               *)

(* A new socket: an id to which neither a handler nor a push refers.       *)
Connect(t) ==
    /\ conn[t] = NoSocket
    /\ \E s \in Sockets :
        /\ handler[s] = "none" /\ \A d \in Devices : s \notin push[d].dead
        /\ conn' = [conn EXCEPT ![t] = s]
        /\ handler' = [handler EXCEPT ![s] = "asked"]
    /\ UNCHANGED <<pending, sockets, push, tab, asked, answers>>

(* The server learns of it at its next send on this socket.                *)
LinkLost(t) ==
    /\ conn[t] # NoSocket
    /\ conn' = [conn EXCEPT ![t] = NoSocket]
    /\ UNCHANGED <<pending, sockets, handler, push, tab, asked, answers>>

-----------------------------------------------------------------------------
(* A tab and its polls, fetchPending.                                      *)

Poll(t) ==
    /\ asked[t] + Cardinality(answers[t]) < MaxPolls
    /\ asked' = [asked EXCEPT ![t] = @ + 1]
    /\ UNCHANGED <<pending, sockets, handler, push, conn, tab, answers>>

(* The route get_pending.                                                  *)
AnswerPoll(t) ==
    /\ asked[t] > 0
    /\ asked' = [asked EXCEPT ![t] = @ - 1]
    /\ answers' = [answers EXCEPT ![t] = @ \union {pending}]
    /\ UNCHANGED <<pending, sockets, handler, push, conn, tab>>

(* Mutant for ListConverges: SET_PENDING keeps what is listed already.     *)
SetPendingAdds(t, q) ==
    tab' = [tab EXCEPT ![t].list = @ \o
        LET new == Without(q, Range(Listed(t)))
        IN  [i \in DOMAIN new |-> [device |-> new[i], fresh |-> TRUE]]]

(* SET_PENDING takes the place of the list.                                *)
SetPending(t, q) ==
    tab' = [tab EXCEPT ![t] = Rendered([tab[t] EXCEPT !.list =
                [i \in DOMAIN q |-> [device |-> q[i], fresh |-> TRUE]]])]

PollReturns(t, q) ==
    /\ q \in answers[t]
    /\ SetPending(t, q)
    /\ answers' = [answers EXCEPT ![t] = @ \ {q}]
    /\ UNCHANGED <<pending, sockets, handler, push, conn, asked>>

(* A call that fails: fetchPending ignores the exception.                  *)
PollFails(t, q) ==
    /\ q \in answers[t]
    /\ answers' = [answers EXCEPT ![t] = @ \ {q}]
    /\ UNCHANGED <<pending, sockets, handler, push, conn, tab, asked>>

-----------------------------------------------------------------------------
(* A tab and its popup, PendingModal.                                      *)

(* TICK_PENDING brings expires_in to 0. The server's own deadline may      *)
(* differ: a PING extends it.                                              *)
CountdownEnds(t) ==
    \E i \in DOMAIN tab[t].list :
        /\ tab[t].list[i].fresh
        /\ tab' = [tab EXCEPT ![t] = Rendered([tab[t] EXCEPT !.list[i].fresh = FALSE])]
        /\ UNCHANGED <<pending, sockets, handler, push, conn, asked, answers>>

(* A button of the card that is shown, and its route: reject and block     *)
(* take the request out, approve and allow_once leave it until its         *)
(* challenge is answered, and the call may fail. Bound: a device has one   *)
(* call at a time.                                                         *)
Click(t) ==
    /\ Visible(tab[t]) # <<>> /\ tab[t].loading = NoDevice
    /\ Card(t) \notin tab[t].acting
    /\ tab' = [tab EXCEPT ![t].loading = Card(t), ![t].acting = @ \union {Card(t)}]
    /\ pending' \in {pending, Without(pending, {Card(t)})}
    /\ UNCHANGED <<sockets, handler, push, conn, asked, answers>>

(* The finally of act, whatever the answer was.                            *)
ActEnds(t, d) ==
    /\ d \in tab[t].acting
    /\ tab' = [tab EXCEPT ![t] = Rendered([tab[t] EXCEPT
            !.acting = @ \ {d},
            !.loading = IF @ = d THEN NoDevice ELSE @,
            !.list = Without(@, {e \in Entry : e.device = d}),
            !.dismissed = @ \union {d}])]
    /\ UNCHANGED <<pending, sockets, handler, push, conn, asked, answers>>

(* onDismiss without a decision.                                           *)
Dismiss(t) ==
    /\ Visible(tab[t]) # <<>>
    /\ tab' = [tab EXCEPT ![t] = Rendered([tab[t] EXCEPT !.dismissed = @ \union {Card(t)}])]
    /\ UNCHANGED <<pending, sockets, handler, push, conn, asked, answers>>

-----------------------------------------------------------------------------

Next ==
    \/ \E d \in Devices : Hello(d) \/ TrustedHello(d) \/ Leaves(d) \/ PushSend(d) \/ PushEnd(d)
    \/ \E s \in Sockets : Admit(s) \/ Refuse(s) \/ Accept(s) \/ AcceptRaises(s) \/ LoopEnds(s)
    \/ \E t \in Tabs : \/ Connect(t) \/ LinkLost(t)
                       \/ Poll(t) \/ AnswerPoll(t)
                       \/ \E q \in answers[t] : PollReturns(t, q) \/ PollFails(t, q)
                       \/ CountdownEnds(t) \/ Click(t) \/ Dismiss(t)
                       \/ \E d \in Devices : ActEnds(t, d)

(* Tasks, handlers and browsers run, and the tab's timer polls. A poll may *)
(* fail, but an answer that is sent again and again arrives once. Nothing  *)
(* makes a device ask, a link fail or the operator decide.                 *)
Fairness ==
    /\ \A d \in Devices : WF_vars(PushSend(d)) /\ WF_vars(PushEnd(d))
    /\ \A s \in Sockets : WF_vars(LoopEnds(s))
    /\ \A t \in Tabs : /\ WF_vars(Poll(t)) /\ WF_vars(AnswerPoll(t))
                       /\ \A q \in Queues : SF_vars(PollReturns(t, q))

Spec == Init /\ [][Next]_vars /\ Fairness

-----------------------------------------------------------------------------
(* Properties.                                                             *)

(* Pushes and handlers both take sockets out of _dashboard_sockets. Every  *)
(* socket in it still has a handler in its loop, which will take it out,   *)
(* and every tab whose socket is served is in it, whatever overlaps.       *)
ListedIsServed ==
    \A s \in Sockets :
        /\ s \in Range(sockets) => handler[s] = "loop"
        /\ handler[s] = "loop" /\ Up(s) => s \in Range(sockets)

(* A push that is through has tried every socket that stood in the list    *)
(* all along, but for one for each entry that others took out under its    *)
(* iteration (main.py:83).                                                 *)
PushMissesOnlyOnRemoval ==
    \A d \in Devices : push[d].on /\ push[d].index >= Len(sockets) =>
        Cardinality(push[d].untried) <= push[d].shifts

(* Every socket in the list leaves it: a dead one when its ping fails, an  *)
(* open one at the end of its lifetime.                                    *)
PlacesComeBack == \A s \in Sockets : s \in Range(sockets) ~> s \notin Range(sockets)

(* Once the queue no longer changes, every tab comes to list exactly its   *)
(* requests, through missed pushes, late events, polls that overtake each  *)
(* other and decisions that fail.                                          *)
ListConverges ==
    <>[][UNCHANGED pending]_pending => \A t \in Tabs : <>[](Listed(t) = pending)

=============================================================================
