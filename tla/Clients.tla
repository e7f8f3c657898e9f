------------------------------ MODULE Clients ------------------------------
(***************************************************************************)
(* An agency's clients and the list of them, read page by page while others  *)
(* are created.                                                             *)
(***************************************************************************)
EXTENDS Integers, FiniteSets

CONSTANTS Id,        \* ids of Client rows, which the database orders
          House,     \* agencies
          Lister,    \* readers of the list
          PageSize,  \* the limit of a page
          LastDay    \* bound: createdAt stops here

ASSUME ClientsAssumption ==
  /\ Id \subseteq Nat
  /\ PageSize \in Nat \ {0}
  /\ LastDay \in Nat

VARIABLES
  day,     \* the clock
  client,  \* the Client table
  list     \* what each reader has been shown, and where it goes on

clientVars == <<day, client, list>>

NoClient == [house |-> "none"]
ClientRow == [house : House, at : 0 .. LastDay]

IdleList == [state |-> "idle"]
\* cursor: the last id shown, or -1 before the first page. shown and present are
\* history: how often a client was shown, and the agency's when the reader began.
Listing == [state : {"more", "end"}, house : House, cursor : Id \cup {-1},
            shown : [Id -> Nat], present : SUBSET Id]

ClientsTypeOK ==
  /\ day \in 0 .. LastDay
  /\ client \in [Id -> {NoClient} \cup ClientRow]
  /\ list \in [Lister -> {IdleList} \cup Listing]

ClientsInit ==
  /\ day = 0
  /\ client = [c \in Id |-> NoClient]
  /\ list = [r \in Lister |-> IdleList]

DayPasses ==
  /\ day < LastDay
  /\ day' = day + 1
  /\ UNCHANGED <<client, list>>

\* createdAt is the start of the insert, which others may overtake.
CreateClient(h, c, at) ==
  /\ client[c] = NoClient
  /\ client' = [client EXCEPT ![c] = [house |-> h, at |-> at]]
  /\ UNCHANGED <<day, list>>

ClientsOfHouse(h) == {c \in Id : client[c] # NoClient /\ client[c].house = h}

\* orderBy createdAt desc, id desc
Before(c, d) == client[c].at > client[d].at \/ (client[c].at = client[d].at /\ c > d)

\* The rows of S that come before c, and the first n rows of all.
Ahead(S, c) == {d \in S : Before(d, c)}
Foremost(S, n) == {c \in S : Cardinality(Ahead(S, c)) < n}

\* Mutant: skip as many as were shown.
AfterOffset(S, cursor, shown) ==
  S \ Foremost(S, Cardinality({c \in Id : shown[c] > 0}))

\* The rows from the cursor on, stepping past it.
AfterCursor(S, cursor, shown) ==
  IF cursor = -1 THEN S ELSE {c \in S : Before(cursor, c)}

\* One row more than the page is fetched to see whether there are more.
Fetched(S, cursor, shown) == Foremost(AfterCursor(S, cursor, shown), PageSize + 1)
Items(fetched) == Foremost(fetched, PageSize)

\* items[items.length - 1]
LastItem(items) == CHOOSE c \in items : \A d \in items : d = c \/ Before(d, c)

\* Mutant: the cursor is the row's time.
NextCursorTime(items) == client[LastItem(items)].at

NextCursor(items) == LastItem(items)

OpenList(r, h) ==
  /\ list[r] = IdleList
  /\ list' = [list EXCEPT ![r] =
       [state |-> "more", house |-> h, cursor |-> -1, shown |-> [c \in Id |-> 0],
        present |-> ClientsOfHouse(h)]]
  /\ UNCHANGED <<day, client>>

NextPage(r) ==
  /\ list[r].state = "more"
  /\ LET fetched == Fetched(ClientsOfHouse(list[r].house), list[r].cursor, list[r].shown)
         items == Items(fetched)
         more == Cardinality(fetched) > PageSize
     IN list' = [list EXCEPT ![r].shown = [c \in Id |-> IF c \in items THEN @[c] + 1 ELSE @[c]],
                             ![r].state = IF more THEN "more" ELSE "end",
                             ![r].cursor = IF more THEN NextCursor(items) ELSE @]
  /\ UNCHANGED <<day, client>>

ClientsNext ==
  \/ DayPasses
  \/ \E h \in House, c \in Id, at \in {day - 1, day} \cap 0 .. LastDay : CreateClient(h, c, at)
  \/ \E r \in Lister : NextPage(r) \/ \E h \in House : OpenList(r, h)

ClientsSpec == ClientsInit /\ [][ClientsNext]_clientVars

----------------------------------------------------------------------------
(* Properties.                                                              *)

\* A reader who turns pages while clients are created sees no client twice, and
\* at the end has seen each one that was there when it began.
\* (pagination.ts:1-3, 42-66)
PagesAreComplete ==
  \A r \in Lister :
    list[r] # IdleList =>
      /\ \A c \in Id : list[r].shown[c] <= 1
      /\ list[r].state = "end" => \A c \in list[r].present : list[r].shown[c] = 1

----------------------------------------------------------------------------
(* The inductive invariant behind PagesAreComplete: the cursor parts what    *)
(* was shown from what is still to come.                                    *)

\* A reader shows clients of its agency, the last of which is its cursor.
CursorParts(r) ==
  list[r] # IdleList =>
    /\ list[r].present \subseteq ClientsOfHouse(list[r].house)
    /\ list[r].cursor # -1 => list[r].cursor \in ClientsOfHouse(list[r].house)
    /\ \A c \in Id : list[r].shown[c] <= 1
    /\ list[r].state = "more" =>
         /\ \A c \in Id : list[r].shown[c] = 1 =>
              /\ list[r].cursor # -1 /\ client[c] # NoClient
              /\ ~Before(list[r].cursor, c)
         /\ \A c \in list[r].present :
              list[r].shown[c] = 1 \/ list[r].cursor = -1 \/ Before(list[r].cursor, c)
    /\ list[r].state = "end" => \A c \in list[r].present : list[r].shown[c] = 1

ClientsInv ==
  /\ ClientsTypeOK
  /\ IsFiniteSet({c \in Id : client[c] # NoClient})
  /\ \A r \in Lister : CursorParts(r)
============================================================================
