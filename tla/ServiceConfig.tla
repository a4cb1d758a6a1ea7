----------------------------- MODULE ServiceConfig -----------------------------
(***************************************************************************)
(* The customer-service entries: one ordered list that a PUT replaces as a *)
(* whole.  Ids that the request names are looked up first; then, in one    *)
(* transaction at READ COMMITTED, the rows it does not name are deleted    *)
(* and its own updated or created one after the other.  What the UPDATEs   *)
(* and INSERTs of one transaction do is seen when it commits.              *)
(***************************************************************************)
EXTENDS Naturals, Sequences, FiniteSets

CONSTANTS
  EntryIds,     \* ids of entries: bounds those that are ever created
  NewEntry,     \* an item without an id
  MaxEntries,   \* bounds the length of a list
  Admins        \* replacements open at one time

ASSUME ServiceConfigAssumption == NewEntry \notin EntryIds /\ MaxEntries \in Nat

VARIABLES
  entry,      \* [EntryIds -> row]
  swap        \* [Admins -> the replacement's step, list and reads]

varsConfig == <<entry, swap>>

\* Ids never come back.
Entry == [state: {"new", "there", "gone"}, sortOrder: 0..MaxEntries]

\* normalizeConfigEntries: no id twice.  The place in the list is the order.
Lists ==
  UNION {{list \in [1..n -> EntryIds \cup {NewEntry}] :
            \A i, j \in 1..n : list[i] = list[j] /\ list[i] # NewEntry => i = j} :
           n \in 0..MaxEntries}

Swap == [at: {"idle", "delete", "save"}, list: Lists, deletes: SUBSET EntryIds]

TypeOKConfig ==
  /\ entry \in [EntryIds -> Entry]
  /\ swap \in [Admins -> Swap]

NoSwap == [at |-> "idle", list |-> <<>>, deletes |-> {}]
Away(state) == [state |-> state, sortOrder |-> 0]

InitConfig ==
  /\ entry = [e \in EntryIds |-> Away("new")]
  /\ swap = [a \in Admins |-> NoSwap]

-----------------------------------------------------------------------------
Present == {e \in EntryIds : entry[e].state = "there"}
Named(list) == {list[i] : i \in DOMAIN list} \ {NewEntry}
Fresh(list) == {i \in DOMAIN list : list[i] = NewEntry}

\* Ids that do not exist are refused: 422.
BeginReplace(a, list) ==
  /\ swap[a].at = "idle"
  /\ Named(list) \subseteq Present
  /\ swap' = [swap EXCEPT ![a] = [at |-> "delete", list |-> list, deletes |-> {}]]
  /\ UNCHANGED entry

\* DELETE WHERE id NOT IN: the rows its snapshot has.
DeleteOthers(a) ==
  /\ swap[a].at = "delete"
  /\ swap' = [swap EXCEPT ![a] =
       [@ EXCEPT !.at = "save", !.deletes = Present \ Named(swap[a].list)]]
  /\ UNCHANGED entry

\* An UPDATE of a row that somebody else has deleted fails the whole.
Save(a) ==
  LET list == swap[a].list
  IN /\ swap[a].at = "save"
     /\ Named(list) \subseteq Present
     /\ \E id \in [Fresh(list) -> {e \in EntryIds : entry[e].state = "new"}] :
          /\ \A i, j \in Fresh(list) : id[i] = id[j] => i = j
          /\ entry' = [e \in EntryIds |->
               IF \E i \in DOMAIN list : list[i] = e \/ (i \in Fresh(list) /\ id[i] = e)
               THEN [state |-> "there", sortOrder |->
                      (CHOOSE i \in DOMAIN list : list[i] = e \/ (i \in Fresh(list) /\ id[i] = e)) - 1]
               ELSE IF e \in swap[a].deletes THEN Away("gone") ELSE entry[e]]
     /\ swap' = [swap EXCEPT ![a] = NoSwap]

\* A statement fails, the transaction is rolled back.
AbortReplace(a) ==
  /\ swap[a].at # "idle"
  /\ swap' = [swap EXCEPT ![a] = NoSwap]
  /\ UNCHANGED entry

NextConfig ==
  \E a \in Admins :
    \/ \E list \in Lists : BeginReplace(a, list)
    \/ DeleteOthers(a) \/ Save(a) \/ AbortReplace(a)

SpecConfig == InitConfig /\ [][NextConfig]_varsConfig

-----------------------------------------------------------------------------
(* Property.                                                               *)

\* "PUT replaces the whole list: client order wins": the rows are one list, in
\* places 0, 1, ... without a gap or a tie.  One replacement at a time keeps it;
\* of two, each deletes what it saw and adds its own.
OneList ==
  /\ \A e, f \in Present : entry[e].sortOrder = entry[f].sortOrder => e = f
  /\ \A e \in Present : entry[e].sortOrder < Cardinality(Present)
===============================================================================
