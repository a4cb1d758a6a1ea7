----------------------------- MODULE Notifications -----------------------------
(***************************************************************************)
(* The users' inboxes: emitted, sent and broadcast notifications, and what *)
(* their owners do with them.                                              *)
(*                                                                         *)
(* No handler here holds a transaction.  An emission that carries a dedupe *)
(* key inserts first and looks for the row it collided with afterwards.    *)
(* One promotion and one trip can be referred to; with one promotion, the  *)
(* dedupe key of an assignment is the user.                                *)
(***************************************************************************)
EXTENDS Naturals

CONSTANTS
  Recipients,   \* accounts
  NoteIds,      \* notification ids: bounds the rows that are ever created
  NoteCalls     \* calls open at one time

ASSUME NotificationsAssumption == Recipients # {} /\ NoteIds # {}

VARIABLES
  recipient,  \* [Recipients -> status of the account]
  note,       \* [NoteIds -> notification row]
  tripThere,  \* the trip that TRIP notifications refer to still exists
  post        \* [NoteCalls -> the next statement of the call, what it has read]

varsNotifications == <<recipient, note, tripThere, post>>

\* TEXT refers to nothing, TRIP to a trip, DISCOUNT_CODE to a promotion: the
\* other combinations are rejected before anything is read.
Categories == {"TEXT", "TRIP", "DISCOUNT_CODE"}

\* Ids never come back.
Note == [state: {"new", "unread", "read", "gone"}, user: Recipients,
         category: Categories, keyed: BOOLEAN]

\* to: whom the next INSERT addresses; id: the row the next statement names.
Post == [at: {"idle", "insert", "existing", "mark", "remove", "broadcast"},
         to: SUBSET Recipients, category: Categories, keyed: BOOLEAN, id: NoteIds]

TypeOKNotifications ==
  /\ recipient \in [Recipients -> {"active", "inactive", "gone"}]
  /\ note \in [NoteIds -> Note]
  /\ tripThere \in BOOLEAN
  /\ post \in [NoteCalls -> Post]

AnyNote == CHOOSE i \in NoteIds : TRUE
NoPost == [at |-> "idle", to |-> {}, category |-> "TEXT", keyed |-> FALSE, id |-> AnyNote]

\* Nothing asks what a row was for that is not there.
Blank(state) == [state |-> state, user |-> CHOOSE u \in Recipients : TRUE,
                 category |-> "TEXT", keyed |-> FALSE]

InitNotifications ==
  /\ recipient = [u \in Recipients |-> "active"]
  /\ note = [i \in NoteIds |-> Blank("new")]
  /\ tripThere = TRUE
  /\ post = [c \in NoteCalls |-> NoPost]

-----------------------------------------------------------------------------
InInbox(i) == note[i].state \in {"unread", "read"}
Owned(u) == {i \in NoteIds : InInbox(i) /\ note[i].user = u}
KeyedRows(u) == {i \in Owned(u) : note[i].keyed}
Account(u) == recipient[u] # "gone"

Compose(c, step, to, category, keyed) ==
  /\ post[c].at = "idle"
  /\ post' = [post EXCEPT ![c] =
       [at |-> step, to |-> to, category |-> category, keyed |-> keyed, id |-> AnyNote]]
  /\ UNCHANGED <<recipient, note, tripThere>>

Close(c) == post' = [post EXCEPT ![c] = NoPost]

AsRead(ids) == [i \in NoteIds |-> IF i \in ids THEN [note[i] EXCEPT !.state = "read"] ELSE note[i]]
Deleted(ids) == [i \in NoteIds |-> IF i \in ids THEN Blank("gone") ELSE note[i]]

\* Every foreign key holds: the accounts, and the trip if one is meant.
Referable(c) ==
  /\ \A u \in post[c].to : Account(u)
  /\ post[c].category = "TRIP" => tripThere

-----------------------------------------------------------------------------
(* NotificationsService.notify and its callers.                            *)

\* A promotion is targeted at u: after the COMMIT, best effort.
EmitAssigned(c, u) == Compose(c, "insert", {u}, "DISCOUNT_CODE", TRUE)

\* sendFromPlatform to one user: the trip and the user are read.
SendSingle(c, u, category) ==
  /\ category = "TRIP" => tripThere
  /\ Account(u)
  /\ Compose(c, "insert", {u}, category, FALSE)

NewRow(u, c) ==
  [state |-> "unread", user |-> u, category |-> post[c].category, keyed |-> post[c].keyed]

\* Faulty variant: no unique key.
InsertUnchecked(c) ==
  /\ post[c].at = "insert"
  /\ Referable(c)
  /\ \E u \in post[c].to, i \in NoteIds :
       /\ note[i].state = "new"
       /\ note' = [note EXCEPT ![i] = NewRow(u, c)]
  /\ Close(c)
  /\ UNCHANGED <<recipient, tripThere>>

\* The unique key decides between emissions.
Insert(c) ==
  /\ post[c].at = "insert"
  /\ Referable(c)
  /\ \E u \in post[c].to, i \in NoteIds :
       /\ post[c].keyed => KeyedRows(u) = {}
       /\ note[i].state = "new"
       /\ note' = [note EXCEPT ![i] = NewRow(u, c)]
  /\ Close(c)
  /\ UNCHANGED <<recipient, tripThere>>

\* P2002: the row is looked up, and may be gone by then.
InsertCollides(c) ==
  /\ post[c].at = "insert" /\ post[c].keyed
  /\ \E u \in post[c].to : KeyedRows(u) # {}
  /\ post' = [post EXCEPT ![c] = [@ EXCEPT !.at = "existing"]]
  /\ UNCHANGED <<recipient, note, tripThere>>

Existing(c) ==
  /\ post[c].at = "existing"
  /\ Close(c)
  /\ UNCHANGED <<recipient, note, tripThere>>

\* To all users that are active when they are read: one INSERT of all rows.
Broadcast(c, category) ==
  /\ category = "TRIP" => tripThere
  /\ \E to \in {{u \in Recipients : recipient[u] = "active"}} :
       to # {} /\ Compose(c, "broadcast", to, category, FALSE)

CreateMany(c) ==
  /\ post[c].at = "broadcast"
  /\ Referable(c)
  /\ \E at \in [post[c].to -> {i \in NoteIds : note[i].state = "new"}] :
       /\ \A u, v \in post[c].to : at[u] = at[v] => u = v
       /\ note' = [i \in NoteIds |->
            IF \E u \in post[c].to : at[u] = i
            THEN NewRow(CHOOSE u \in post[c].to : at[u] = i, c) ELSE note[i]]
  /\ Close(c)
  /\ UNCHANGED <<recipient, tripThere>>

-----------------------------------------------------------------------------
(* The owner's calls: requireOwned reads, the next statement writes by id.  *)

OpenNote(c, i, step) ==
  /\ InInbox(i)
  /\ step = "mark" => note[i].state = "unread"
  /\ post[c].at = "idle"
  /\ post' = [post EXCEPT ![c] = [NoPost EXCEPT !.at = step, !.id = i]]
  /\ UNCHANGED <<recipient, note, tripThere>>

MarkRead(c) ==
  /\ post[c].at = "mark"
  /\ InInbox(post[c].id)
  /\ note' = AsRead({post[c].id})
  /\ Close(c)
  /\ UNCHANGED <<recipient, tripThere>>

RemoveNote(c) ==
  /\ post[c].at = "remove"
  /\ InInbox(post[c].id)
  /\ note' = Deleted({post[c].id})
  /\ Close(c)
  /\ UNCHANGED <<recipient, tripThere>>

MarkAllRead(u) ==
  /\ note' = AsRead(Owned(u))
  /\ UNCHANGED <<recipient, tripThere, post>>

RemoveAll(u) ==
  /\ note' = Deleted(Owned(u))
  /\ UNCHANGED <<recipient, tripThere, post>>

-----------------------------------------------------------------------------
(* Accounts and the trip.                                                  *)

SetActive(u, status) ==
  /\ Account(u)
  /\ recipient' = [recipient EXCEPT ![u] = status]
  /\ UNCHANGED <<note, tripThere, post>>

\* The inbox goes with the account.
RemoveAccount(u) ==
  /\ Account(u)
  /\ recipient' = [recipient EXCEPT ![u] = "gone"]
  /\ note' = Deleted(Owned(u))
  /\ UNCHANGED <<tripThere, post>>

\* The foreign key keeps a trip that a notification refers to.
DropTrip ==
  /\ \A i \in NoteIds : InInbox(i) => note[i].category # "TRIP"
  /\ tripThere' = FALSE
  /\ UNCHANGED <<recipient, note, post>>

\* An insert that fails, a row that is gone, the process stops.
Forget(c) ==
  /\ post[c].at # "idle"
  /\ Close(c)
  /\ UNCHANGED <<recipient, note, tripThere>>

NextNotifications ==
  \/ \E c \in NoteCalls, u \in Recipients :
       EmitAssigned(c, u) \/ \E category \in Categories : SendSingle(c, u, category)
  \/ \E c \in NoteCalls :
       \/ Insert(c) \/ InsertCollides(c) \/ Existing(c) \/ CreateMany(c)
       \/ MarkRead(c) \/ RemoveNote(c) \/ Forget(c)
       \/ \E category \in Categories : Broadcast(c, category)
       \/ \E i \in NoteIds, step \in {"mark", "remove"} : OpenNote(c, i, step)
  \/ \E u \in Recipients :
       \/ MarkAllRead(u) \/ RemoveAll(u) \/ RemoveAccount(u)
       \/ \E status \in {"active", "inactive"} : SetActive(u, status)
  \/ DropTrip

SpecNotifications == InitNotifications /\ [][NextNotifications]_varsNotifications

-----------------------------------------------------------------------------
(* Property.                                                               *)

\* "re-emit with the same key returns the existing row": two emissions of one
\* assignment, concurrent or repeated, never leave the user two notifications,
\* nor a notification whose account or trip is gone.
NotifiedOnce ==
  \A i \in NoteIds : InInbox(i) =>
    /\ \A j \in NoteIds : InInbox(j) /\ note[i].keyed /\ note[j].keyed
                            /\ note[i].user = note[j].user => i = j
    /\ Account(note[i].user)
    /\ note[i].category = "TRIP" => tripThere
===============================================================================
