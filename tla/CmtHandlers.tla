---------------------------- MODULE CmtHandlers ----------------------------
(***************************************************************************)
(* The message handlers of the kernel (cmt_msg_hdlr_* of cmt.c, the mhllent*)
(* half of cmt_heap.c) and the walk of message_loop over them.             *)
(*                                                                         *)
(* Entries are linked through `next' from the cell of their message and,   *)
(* when they are not in use, from mhllent_free.  Only the pool has a mutex:*)
(* the lists are read and written by both cores without any.  What makes   *)
(* that work is when the firmware registers: core 0 in its start function, *)
(* before core 1 exists, and core 1 in its own, while core 0 dispatches.   *)
(* A step makes one access to a list the other core may be using.          *)
(*                                                                         *)
(* Nothing in the firmware removes a handler.  The model lets core 0 do so *)
(* in its start function; what may be removed is a parameter.              *)
(***************************************************************************)
EXTENDS Chains, Integers, Sequences, FiniteSets

CONSTANTS
  Entries,    \* mhllent_pool
  FirstFree,  \* the chain of the pool as cmt_heap_modinit leaves it: a sequence
  Ids,        \* message ids
  Handlers,   \* handler functions
  Askable,    \* the corenum arguments the callers give
  FirstOnly,  \* callers remove only the newest handler of a message
  Null        \* the NULL pointer

Corenums == {0, 1}
Both == 3                 \* MSG_HDLR_CORE_BOTH: all ones, an odd number
Pointers == Entries \cup {Null}

ASSUME HandlersAssumption ==
  /\ Null \notin Entries /\ Entries # {}
  /\ Ids # {} /\ Handlers # {}
  /\ FirstFree \in Seq(Entries)
  /\ {FirstFree[i] : i \in DOMAIN FirstFree} = Entries
  /\ Len(FirstFree) = Cardinality(Entries)
  /\ Askable \subseteq Corenums \cup {Both}
  /\ FirstOnly \in BOOLEAN

VARIABLES
  hdlrs,    \* id -> cmt_msg_hdlrs[id]
  free,     \* mhllent_free
  next,     \* entry -> next
  handler,  \* entry -> handler
  corenum,  \* entry -> corenum
  mode,     \* core -> "off", "start" (in its start function) or "loop"
  adding,   \* core -> where its cmt_msg_hdlr_add is, with its id and entry
  walk,     \* core -> where its dispatch is, with its id and handler_entry
  asked,    \* history: entry -> the corenum its handler was registered for
  due       \* history: core -> the entries its dispatch has yet to call

registryVars == <<hdlrs, free, next, handler, corenum, mode, adding, walk, asked, due>>

NotAdding == [pc |-> "none", id |-> CHOOSE i \in Ids : TRUE, ent |-> Null]
NotWalking == [pc |-> "none", id |-> CHOOSE i \in Ids : TRUE, ent |-> Null]

RegistryInit ==
  /\ hdlrs = [i \in Ids |-> Null]
  /\ free = FirstFree[1]
  /\ next = [e \in Entries |->
               LET i == CHOOSE j \in DOMAIN FirstFree : FirstFree[j] = e
               IN  IF i < Len(FirstFree) THEN FirstFree[i + 1] ELSE Null]
  /\ handler = [e \in Entries |-> CHOOSE h \in Handlers : TRUE]
  /\ corenum = [e \in Entries |-> 0]
  /\ mode = [c \in Corenums |-> IF c = 0 THEN "start" ELSE "off"]
  /\ adding = [c \in Corenums |-> NotAdding]
  /\ walk = [c \in Corenums |-> NotWalking]
  /\ asked = [e \in Entries |-> 0]
  /\ due = [c \in Corenums |-> {}]

Steps(p) == StepsFrom(next, Null, p, Cardinality(Entries))
Chain(p) == ChainFrom(next, Null, p, Cardinality(Entries))
Ends(p) == EndsFrom(next, Null, p, Cardinality(Entries))

Registered(i) == Chain(hdlrs[i])

\* The handlers a message is for on core c, by what their registration asked.
MeantFor(c, i) == {e \in Registered(i) : asked[e] \in {c, Both}}

-----------------------------------------------------------------------------
(* Registration *)

Starting(c) == mode[c] = "start" /\ adding[c].pc = "none"

\* corenum & 0x00000001
StoredCore(corenumArg) == corenumArg % 2

\* What becomes of an add that finds the pool empty.
AfterEmpty_GoesOn == "link"
AfterEmpty == "panic"

\* cmt_alloc_mhllent, under mhllent_mutex (which a panic never gives back), and
\* the fields of the new entry, which nobody else can reach yet.
Alloc(c, i, h, k) ==
  /\ Starting(c)
  /\ \A d \in Corenums : adding[d].pc # "panic"
  /\ IF free = Null
       THEN /\ adding' = [adding EXCEPT ![c].pc = AfterEmpty]
            /\ UNCHANGED <<free, next, handler, corenum, asked>>
       ELSE /\ adding' = [adding EXCEPT ![c] = [pc |-> "link", id |-> i, ent |-> free]]
            /\ free' = next[free]
            /\ next' = [next EXCEPT ![free] = Null]
            /\ handler' = [handler EXCEPT ![free] = h]
            /\ corenum' = [corenum EXCEPT ![free] = StoredCore(k)]
            /\ asked' = [asked EXCEPT ![free] = k]
  /\ UNCHANGED <<hdlrs, mode, walk, due>>

\* ent->next = head
Link(c) ==
  /\ adding[c].pc = "link"
  /\ next' = [next EXCEPT ![adding[c].ent] = hdlrs[adding[c].id]]
  /\ adding' = [adding EXCEPT ![c].pc = "publish"]
  /\ UNCHANGED <<hdlrs, free, handler, corenum, mode, walk, asked, due>>

\* cmt_msg_hdlrs[id] = ent
Publish(c) ==
  /\ adding[c].pc = "publish"
  /\ hdlrs' = [hdlrs EXCEPT ![adding[c].id] = adding[c].ent]
  /\ adding' = [adding EXCEPT ![c] = NotAdding]
  /\ UNCHANGED <<free, next, handler, corenum, mode, walk, asked, due>>

\* cmt_msg_hdlrs[id] = ent->next: `prev' is never set, so this is what is done
\* wherever in the list the entry is.
HeadWithout(e) == next[e]

\* cmt_return_mhllent: mhllent_free = mhllent
Freed_Lost(e) == free
Freed(e) == e

\* The first entry of the list with this handler for this core.
Matches(e, h, k) == corenum[e] = k /\ handler[e] = h
FirstMatch(i, h, k) ==
  LET step == Steps(hdlrs[i])
      matching == {n \in DOMAIN step : step[n] # Null /\ Matches(step[n], h, k)}
  IN  IF matching = {} THEN Null
      ELSE step[CHOOSE n \in matching : \A m \in matching : n <= m]

\* cmt_msg_hdlr_rm_for_core.
Remove(c, i, h, k) ==
  /\ c = 0 /\ Starting(c)
  /\ LET e == FirstMatch(i, h, k)
     IN  /\ e # Null
         /\ FirstOnly => e = hdlrs[i]
         /\ hdlrs' = [hdlrs EXCEPT ![i] = HeadWithout(e)]
         /\ next' = [next EXCEPT ![e] = free]
         /\ free' = Freed(e)
  /\ UNCHANGED <<handler, corenum, mode, adding, walk, asked, due>>

\* The end of a start function.  Core 0's has launched core 1.
EndStart(c) ==
  /\ Starting(c)
  /\ mode' = IF c = 0 THEN [d \in Corenums |-> IF d = 0 THEN "loop" ELSE "start"]
                      ELSE [mode EXCEPT ![c] = "loop"]
  /\ UNCHANGED <<hdlrs, free, next, handler, corenum, adding, walk, asked, due>>

-----------------------------------------------------------------------------
(* The walk of message_loop *)

\* A message is out of the queue: handler_entry = cmt_msg_hdlrs[msg.id].
Dispatch(c, i) ==
  /\ mode[c] = "loop" /\ walk[c].pc = "none"
  /\ walk' = [walk EXCEPT ![c] = [pc |-> "visit", id |-> i, ent |-> hdlrs[i]]]
  /\ due' = [due EXCEPT ![c] = MeantFor(c, i)]
  /\ UNCHANGED <<hdlrs, free, next, handler, corenum, mode, adding, asked>>

\* handler_entry->corenum == corenum || handler_entry->corenum == MSG_HDLR_CORE_BOTH
Serves_Any(c, e) == TRUE
Serves(c, e) == corenum[e] = c \/ corenum[e] = Both

\* The walk is at an entry: its handler is called, or it is for the other core.
Visit(c) ==
  LET e == walk[c].ent IN
  /\ walk[c].pc = "visit" /\ e # Null
  /\ walk' = [walk EXCEPT ![c].pc = IF Serves(c, e) THEN "called" ELSE "advance"]
  /\ due' = [due EXCEPT ![c] = IF Serves(c, e) THEN @ \ {e} ELSE @]
  /\ UNCHANGED <<hdlrs, free, next, handler, corenum, mode, adding, asked>>

\* The handler returns, and may have set msg.abort.
Return(c) ==
  /\ walk[c].pc = "called"
  /\ \/ /\ walk' = [walk EXCEPT ![c].pc = "advance"]
        /\ UNCHANGED due
     \/ /\ walk' = [walk EXCEPT ![c] = NotWalking]
        /\ due' = [due EXCEPT ![c] = {}]
  /\ UNCHANGED <<hdlrs, free, next, handler, corenum, mode, adding, asked>>

\* handler_entry = handler_entry->next
Advanced(c) == next[walk[c].ent]

Advance(c) ==
  /\ walk[c].pc = "advance"
  /\ walk' = [walk EXCEPT ![c].pc = "visit", ![c].ent = Advanced(c)]
  /\ UNCHANGED <<hdlrs, free, next, handler, corenum, mode, adding, asked, due>>

\* No more handlers.
EndWalk(c) ==
  /\ walk[c].pc = "visit" /\ walk[c].ent = Null
  /\ walk' = [walk EXCEPT ![c] = NotWalking]
  /\ due' = [due EXCEPT ![c] = {}]
  /\ UNCHANGED <<hdlrs, free, next, handler, corenum, mode, adding, asked>>

-----------------------------------------------------------------------------

Walk(c) == Visit(c) \/ Return(c) \/ Advance(c) \/ EndWalk(c)
Add(c) == Link(c) \/ Publish(c)

RegistryNext ==
  \E c \in Corenums :
    \/ \E i \in Ids, h \in Handlers, k \in Askable : Alloc(c, i, h, k)
    \/ \E i \in Ids, h \in Handlers, k \in Corenums : Remove(c, i, h, k)
    \/ Add(c) \/ EndStart(c)
    \/ \E i \in Ids : Dispatch(c, i)
    \/ Walk(c)

RegistrySpec == RegistryInit /\ [][RegistryNext]_registryVars

-----------------------------------------------------------------------------
(* Properties *)

Unused == {"none", "panic"}

RegistryTypeOK ==
  /\ hdlrs \in [Ids -> Pointers]
  /\ free \in Pointers
  /\ next \in [Entries -> Pointers]
  /\ handler \in [Entries -> Handlers]
  /\ corenum \in [Entries -> Corenums]
  /\ mode \in [Corenums -> {"off", "start", "loop"}]
  /\ adding \in [Corenums -> [pc : {"none", "link", "publish", "panic"}, id : Ids,
                              ent : Pointers]]
  /\ walk \in [Corenums -> [pc : {"none", "visit", "called", "advance"}, id : Ids,
                            ent : Pointers]]
  /\ \A c \in Corenums : adding[c].pc \notin Unused => adding[c].ent \in Entries
  /\ \A c \in Corenums : walk[c].pc \in {"called", "advance"} => walk[c].ent \in Entries
  /\ asked \in [Entries -> Corenums \cup {Both}]
  /\ due \in [Corenums -> SUBSET Entries]

BeingAdded(c) == IF adding[c].pc \in Unused THEN {} ELSE {adding[c].ent}

\* Every entry is registered for one message, free, or in the hand of the core
\* that registers it; no list runs in a circle or into another.
RegistryIntact ==
  LET holders == {<<"id", i>> : i \in Ids} \cup {<<"core", c>> : c \in Corenums}
                 \cup {<<"free", 0>>}
      Held(x) == CASE x[1] = "id" -> Registered(x[2])
                   [] x[1] = "core" -> BeingAdded(x[2])
                   [] OTHER -> Chain(free)
  IN  /\ \A i \in Ids : Ends(hdlrs[i])
      /\ Ends(free)
      /\ \A e \in Entries : \E x \in holders :
           e \in Held(x) /\ \A y \in holders \ {x} : e \notin Held(y)

\* A dispatch calls each handler that was registered for its message and core
\* when it began once, and no other handler, while core 1 registers more.
HandlersCalledOnce ==
  \A c \in Corenums :
    /\ walk[c].pc = "visit" /\ walk[c].ent = Null => due[c] = {}
    /\ walk[c].pc = "visit" /\ walk[c].ent # Null /\ Serves(c, walk[c].ent)
         => walk[c].ent \in due[c]
=============================================================================
