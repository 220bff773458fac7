----------------------------- MODULE ListDelete -----------------------------
(* The pages that list agents, boards, groups or gateways and delete their  *)
(* items: the cached list, the optimistic removal that is rolled back on an *)
(* error, and the refetches (react-query's, from how the pages use it).     *)
(*                                                                          *)
(* A page confirms one deletion at a time, but a deletion goes on when its  *)
(* page is left, and the page that is opened next can confirm another one.  *)
EXTENDS FiniteSets, Naturals

CONSTANTS Item, None

VARIABLES
    server,     \* the items in the database
    list,       \* the items in the query cache
    stale,      \* the cache entry is invalidated
    fetch,      \* the refetch under way and the items it read
    deletion,   \* deletion[i]: how far it is and the list it found
    mounted,    \* the page is open
    confirming  \* the deletion this page waits for, or None

listVars == <<server, list, stale, fetch, deletion, mounted, confirming>>

NoFetch == [at |-> "none", items |-> {}]
NoDeletion == [at |-> "none", previous |-> {}]

Pending == {i \in Item : deletion[i].at # "none"}

TypeOK ==
    /\ server \in SUBSET Item /\ list \in SUBSET Item
    /\ stale \in BOOLEAN /\ mounted \in BOOLEAN
    /\ fetch \in [at : {"none", "sent", "read"}, items : SUBSET Item]
    /\ deletion \in [Item -> [at : {"none", "sent", "deleted", "refused"},
                              previous : SUBSET Item]]
    /\ confirming \in Item \union {None}

\* The page is open and has loaded its list.
Init ==
    /\ server = Item /\ list = Item /\ stale = FALSE
    /\ fetch = NoFetch
    /\ deletion = [i \in Item |-> NoDeletion]
    /\ mounted = TRUE /\ confirming = None

\* handleDelete and onMutate: the refetch under way is cancelled, the list kept
\* for a rollback, the item removed from it. The dialog asks for an item of the list,
\* which a refetch may have removed since.
Confirm(i) ==
    /\ mounted /\ confirming = None
    /\ deletion[i].at = "none"
    /\ deletion' = [deletion EXCEPT ![i] = [at |-> "sent", previous |-> list]]
    /\ list' = list \ {i}
    /\ fetch' = NoFetch /\ stale' = FALSE
    /\ confirming' = i
    /\ UNCHANGED <<server, mounted>>

\* The DELETE request reaches the server, which may refuse it.
Delete(i) ==
    /\ deletion[i].at = "sent"
    /\ \/ /\ i \in server
          /\ server' = server \ {i}
          /\ deletion' = [deletion EXCEPT ![i].at = "deleted"]
       \/ /\ deletion' = [deletion EXCEPT ![i].at = "refused"]
          /\ UNCHANGED server
    /\ UNCHANGED <<list, stale, fetch, mounted, confirming>>

\* A refetch starts; invalidateQueries cancels the one under way for it.
Refetch == fetch' = [at |-> "sent", items |-> {}]

\* Mutant: no onSettled.
Invalidated_Not == UNCHANGED <<stale, fetch>>

\* onSettled: the list is stale, and fetched again if it is on the screen.
Invalidated ==
    /\ stale' = TRUE
    /\ IF mounted THEN Refetch ELSE UNCHANGED fetch

\* The mutation settles. onError puts the list back that onMutate had found: the
\* answer may be lost although the item is deleted.
Settle(i) ==
    /\ \/ deletion[i].at = "deleted" /\ UNCHANGED list
       \/ deletion[i].at \in {"deleted", "refused"} /\ list' = deletion[i].previous
    /\ deletion' = [deletion EXCEPT ![i] = NoDeletion]
    /\ Invalidated
    /\ confirming' = IF confirming = i THEN None ELSE confirming
    /\ UNCHANGED <<server, mounted>>

\* refetchInterval, or the window gets the focus.
StartFetch ==
    /\ mounted /\ fetch = NoFetch
    /\ Refetch
    /\ UNCHANGED <<server, list, stale, deletion, mounted, confirming>>

\* The list endpoint.
ReadList ==
    /\ fetch.at = "sent"
    /\ fetch' = [at |-> "read", items |-> server]
    /\ UNCHANGED <<server, list, stale, deletion, mounted, confirming>>

FetchArrives ==
    /\ fetch.at = "read"
    /\ list' = fetch.items /\ stale' = FALSE /\ fetch' = NoFetch
    /\ UNCHANGED <<server, deletion, mounted, confirming>>

\* After its retry; the list stays as it is.
FetchFails ==
    /\ fetch # NoFetch
    /\ fetch' = NoFetch /\ stale' = TRUE
    /\ UNCHANGED <<server, list, deletion, mounted, confirming>>

\* The page is left: its refetch is aborted, its deletion is not.
Leave ==
    /\ mounted /\ mounted' = FALSE
    /\ fetch' = NoFetch /\ confirming' = None
    /\ UNCHANGED <<server, list, stale, deletion>>

\* The page, or another with the same list, is opened: refetchOnMount "always".
Enter ==
    /\ ~mounted /\ mounted' = TRUE
    /\ Refetch
    /\ UNCHANGED <<server, list, stale, deletion, confirming>>

Next ==
    \/ \E i \in Item : Confirm(i) \/ Delete(i) \/ Settle(i)
    \/ StartFetch \/ ReadList \/ FetchArrives \/ FetchFails \/ Leave \/ Enter

Spec == Init /\ [][Next]_listVars

\* When every deletion has settled and no refetch is due, the page shows what the
\* server has: neither a rollback to a list that another deletion has overtaken,
\* nor a refetch that read the list before a deletion, is left on the screen.
ListRight ==
    mounted /\ Pending = {} /\ fetch = NoFetch /\ ~stale => list = server
=============================================================================
