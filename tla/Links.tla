------------------------------- MODULE Links -------------------------------
(***************************************************************************)
(* The dependency edges of vue-rs-reactive as they are stored: a pool of   *)
(* links (crates/vue-rs-reactive/src/runtime.rs, struct Link), each of     *)
(* them in the dependency list of its subscriber and in the subscriber     *)
(* list of its source.  Both lists are doubly linked and intrusive, and a  *)
(* node that runs again moves a cursor along the links of its last run.    *)
(*                                                                         *)
(* Every operation is one step: it holds the borrow of the runtime.        *)
(***************************************************************************)
EXTENDS Integers, Sequences, SequencesExt

CONSTANTS
  Nodes,     \* handles of nodes, never issued twice (the arena sees to that)
  Initial,   \* the nodes that exist at first
  CanRead,   \* [Nodes -> SUBSET Nodes]: the sources that a node's closure reads
  Returns,   \* closures that go back to a source after having read another one
  DisposeWhileTracking,   \* a closure disposes its own node or one it has read
  MaxLinks,  \* bound on the size of the pool
  MaxRuns,   \* bound on the number of runs of closures
  MaxReads,  \* bound on the reads of a run
  None

(* Option<LinkId>, struct Link, and the list ends in struct Node. *)
Pointer == (Nat \ {0}) \cup {None}
Link == [dep : Nodes, sub : Nodes, prevDep : Pointer, nextDep : Pointer,
         prevSub : Pointer, nextSub : Pointer]
Ends == [deps : Pointer, depsTail : Pointer, subs : Pointer, subsTail : Pointer]

ASSUME LinksAssumption ==
  /\ Initial \subseteq Nodes /\ CanRead \in [Nodes -> SUBSET Nodes]
  /\ Returns \subseteq Nodes /\ DisposeWhileTracking \in BOOLEAN
  /\ MaxLinks \in Nat /\ MaxRuns \in Nat /\ MaxReads \in Nat 
  /\ None \notin Nodes \cup Nat \cup Link \cup Ends

VARIABLES
  links,      \* Runtime::links, None where a slot is free
  freeLinks,  \* Runtime::free_links
  node,       \* Runtime::nodes: the list heads and tails, None when disposed
  running,    \* the nodes whose closures are running, innermost last
  runs,       \* the number of runs so far
  gone,       \* the handles of disposed nodes
  reads,      \* history: what the current or last run has read, in order, a
              \* source once for reads in a row
  lastReads   \* history: the same for the run before

heap == <<links, freeLinks, node>>
vars == <<heap, running, runs, gone, reads, lastReads>>

NoLinks == [deps |-> None, depsTail |-> None, subs |-> None, subsTail |-> None]

Alive == {n \in Nodes : node[n] # None}

Init ==
  /\ links = <<>> /\ freeLinks = <<>>
  /\ node = [n \in Nodes |-> IF n \in Initial THEN NoLinks ELSE None]
  /\ running = <<>> /\ runs = 0 /\ gone = {}
  /\ reads = [n \in Nodes |-> <<>>] /\ lastReads = [n \in Nodes |-> <<>>]

-----------------------------------------------------------------------------
(* The pool and the lists, as functions of a heap h. *)

Heap == [links |-> links, free |-> freeLinks, node |-> node]

Becomes(h) == links' = h.links /\ freeLinks' = h.free /\ node' = h.node

(* `if let Some(node) = self.nodes.get_mut(n)` *)
SetEnd(h, n, end, c) ==
  IF h.node[n] = None THEN h ELSE [h EXCEPT !.node[n][end] = c]

SetLink(h, c, field, x) == [h EXCEPT !.links[c][field] = x]

(* The links from c on, along a field.  A list that is cyclic is cut. *)
InUse(h, p) == p \in DOMAIN h.links /\ h.links[p] # None
Push(h, c, field, got) ==
  LET p == IF got = <<>> THEN c ELSE h.links[Last(got)][field]
  IN IF InUse(h, p) THEN Append(got, p) ELSE got
Chain(h, c, field) ==
  LET push == [got \in Seq(DOMAIN h.links) |-> Push(h, c, field, got)]
      walk[i \in 0..Len(h.links)] == IF i = 0 THEN <<>> ELSE push[walk[i - 1]]
  IN walk[Len(h.links)]

DepLinks(h, n) == Chain(h, h.node[n].deps, "nextDep")
SubLinks(h, n) == Chain(h, h.node[n].subs, "nextSub")

(* unlink_from_dep_subs.  (Bug: the tail of the list is not repaired.) *)
UnlinkFromDepSubsKeepsTail(h, c) ==
  LET l == h.links[c]
      h1 == IF l.prevSub # None THEN SetLink(h, l.prevSub, "nextSub", l.nextSub)
            ELSE SetEnd(h, l.dep, "subs", l.nextSub)
  IN IF l.nextSub # None THEN SetLink(h1, l.nextSub, "prevSub", l.prevSub) ELSE h1
UnlinkFromDepSubs(h, c) ==
  LET l == h.links[c]
      h1 == IF l.prevSub # None THEN SetLink(h, l.prevSub, "nextSub", l.nextSub)
            ELSE SetEnd(h, l.dep, "subs", l.nextSub)
  IN IF l.nextSub # None THEN SetLink(h1, l.nextSub, "prevSub", l.prevSub)
     ELSE SetEnd(h1, l.dep, "subsTail", l.prevSub)

(* unlink_from_sub_deps.  (It knows nothing of the cursor of l.sub.) *)
UnlinkFromSubDeps(h, c) ==
  LET l == h.links[c]
      h1 == IF l.prevDep # None THEN SetLink(h, l.prevDep, "nextDep", l.nextDep)
            ELSE SetEnd(h, l.sub, "deps", l.nextDep)
  IN IF l.nextDep # None THEN SetLink(h1, l.nextDep, "prevDep", l.prevDep)
     ELSE SetEnd(h1, l.sub, "depsTail", l.prevDep)

FreeLink(h, c) == [h EXCEPT !.links[c] = None, !.free = Append(@, c)]

(* The next link after the cursor of n: where it expects the next read. *)
AfterCursor(n) ==
  LET tail == node[n].depsTail
  IN IF tail = None THEN node[n].deps ELSE links[tail].nextDep

(* The links up to and including the cursor. *)
Prefix(n) ==
  LET all == DepLinks(Heap, n)
      tail == node[n].depsTail
  IN IF tail = None THEN {}
     ELSE {all[i] : i \in {j \in DOMAIN all : \A k \in 1..(j - 1) : all[k] # tail}}

Dangling(n) == node[n].depsTail # None /\ links[node[n].depsTail] = None

-----------------------------------------------------------------------------
Create(n) ==
  /\ node[n] = None /\ n \notin gone
  /\ node' = [node EXCEPT ![n] = NoLinks]
  /\ UNCHANGED <<links, freeLinks, running, runs, gone, reads, lastReads>>

(* start_tracking.  (Bug: the cursor stays where the last run left it.) *)
CursorKept(n) == UNCHANGED node
CursorReset(n) == node' = [node EXCEPT ![n].depsTail = None]

StartTracking(n) ==
  /\ n \in Alive /\ CanRead[n] # {} /\ ~Contains(running, n)
  /\ runs < MaxRuns /\ runs' = runs + 1
  /\ CursorReset(n)
  /\ running' = Append(running, n)
  /\ lastReads' = [lastReads EXCEPT ![n] = reads[n]]
  /\ reads' = [reads EXCEPT ![n] = <<>>]
  /\ UNCHANGED <<links, freeLinks, gone>>

(* link(dep, sub): the innermost running closure, sub, reads dep, maybe     *)
(* several times in a row.  Where the code unwraps a node that is gone, or  *)
(* a cursor that leads to a freed link, it panics: there is no such step.   *)
Reading(sub, dep) ==
  /\ running # <<>> /\ sub = Last(running) /\ sub \in Alive
  /\ dep \in CanRead[sub] \cap Alive /\ ~Dangling(sub)
  /\ IF reads[sub] # <<>> /\ Last(reads[sub]) = dep
     THEN UNCHANGED reads
     ELSE /\ Contains(reads[sub], dep) => sub \in Returns
          /\ Len(reads[sub]) < MaxReads
          /\ reads' = [reads EXCEPT ![sub] = Append(@, dep)]
  /\ UNCHANGED <<running, runs, gone, lastReads>>

AtCursor(sub, dep) ==
  LET tail == node[sub].depsTail IN tail # None /\ links[tail].dep = dep

(* The comparison with the next link.  (Bug: it is never made.) *)
NeverNext(sub, dep) == FALSE
IsNext(sub, dep) ==
  LET next == AfterCursor(sub) IN next # None /\ links[next].dep = dep

(* The newest subscription of dep is sub's, and confirmed in this run.     *)
(* (Bug: is_valid_link is not asked.)                                      *)
IsLastSub(sub, dep) ==
  LET last == node[dep].subsTail IN last # None /\ links[last].sub = sub
IsConfirmed(sub, dep) ==
  LET last == node[dep].subsTail IN last # None /\ links[last].sub = sub /\ last \in Prefix(sub)

LinkAgain(sub, dep) ==
  /\ Reading(sub, dep) /\ AtCursor(sub, dep)
  /\ UNCHANGED heap

LinkReuse(sub, dep) ==
  /\ Reading(sub, dep) /\ ~AtCursor(sub, dep) /\ IsNext(sub, dep)
  /\ node' = [node EXCEPT ![sub].depsTail = AfterCursor(sub)]
  /\ UNCHANGED <<links, freeLinks>>

LinkSkip(sub, dep) ==
  /\ Reading(sub, dep) /\ ~AtCursor(sub, dep) /\ ~IsNext(sub, dep) /\ IsConfirmed(sub, dep)
  /\ UNCHANGED heap

(* The slot that alloc_link adds. *)
PushedSlot == Len(links) + 1

(* alloc_link and the splice into both lists. *)
LinkNew(sub, dep) ==
  /\ Reading(sub, dep) /\ ~AtCursor(sub, dep) /\ ~IsNext(sub, dep) /\ ~IsConfirmed(sub, dep)
  /\ freeLinks # <<>> \/ Len(links) < MaxLinks
  /\ LET prev == node[sub].depsTail
         next == AfterCursor(sub)
         last == node[dep].subsTail
         new  == IF freeLinks # <<>> THEN Last(freeLinks) ELSE PushedSlot
         link == [dep |-> dep, sub |-> sub, prevDep |-> prev, nextDep |-> next,
                  prevSub |-> last, nextSub |-> None]
         h0 == IF freeLinks # <<>>
               THEN [Heap EXCEPT !.links[new] = link, !.free = Front(@)]
               ELSE [Heap EXCEPT !.links = Append(@, link)]
         h1 == IF next = None THEN h0 ELSE SetLink(h0, next, "prevDep", new)
         h2 == IF prev = None THEN SetEnd(h1, sub, "deps", new)
               ELSE SetLink(h1, prev, "nextDep", new)
         h3 == SetEnd(h2, sub, "depsTail", new)
         h4 == IF last = None THEN SetEnd(h3, dep, "subs", new)
               ELSE SetLink(h3, last, "nextSub", new)
     IN Becomes(SetEnd(h4, dep, "subsTail", new))

(* end_tracking: cut the list after the cursor, and free what is cut off.  *)
Prune(h, c) == FreeLink(UnlinkFromDepSubs(h, c), c)
PruneAll(h, cs) ==
  LET pruned[i \in 0..Len(cs)] == IF i = 0 THEN h ELSE Prune(pruned[i - 1], cs[i])
  IN pruned[Len(cs)]

EndTracking(n) ==
  /\ running # <<>> /\ n = Last(running)
  /\ n \in Alive => ~Dangling(n)
  /\ running' = Front(running)
  /\ IF n \notin Alive THEN UNCHANGED heap
     ELSE LET tail == node[n].depsTail
              cut == IF tail = None THEN SetEnd(Heap, n, "deps", None)
                     ELSE SetLink(Heap, tail, "nextDep", None)
          IN Becomes(PruneAll(cut, Chain(Heap, AfterCursor(n), "nextDep")))
  /\ UNCHANGED <<runs, gone, reads, lastReads>>

(* clear_deps, detach_subs and the removal of the node, all in the borrow  *)
(* of dispose_node.                                                        *)
ClearDeps(h, n) ==
  SetEnd(SetEnd(PruneAll(h, DepLinks(h, n)), n, "deps", None), n, "depsTail", None)

Detach(h, c) == FreeLink(UnlinkFromSubDeps(h, c), c)
DetachAll(h, cs) ==
  LET detached[i \in 0..Len(cs)] == IF i = 0 THEN h ELSE Detach(detached[i - 1], cs[i])
  IN detached[Len(cs)]
DetachSubs(h, n) ==
  SetEnd(SetEnd(DetachAll(h, SubLinks(h, n)), n, "subs", None), n, "subsTail", None)

(* The histories forget a node that is gone. *)
Without(s, n) ==
  LET kept[i \in 0..Len(s)] ==
        IF i = 0 THEN <<>> ELSE IF s[i] = n THEN kept[i - 1] ELSE Append(kept[i - 1], s[i])
  IN kept[Len(s)]

Tracks(n, d) == Contains(running, n) /\ \E c \in ToSet(DepLinks(Heap, n)) : links[c].dep = d

DisposeNode(n) ==
  /\ n \in Alive
  /\ DisposeWhileTracking \/ (~Contains(running, n) /\ \A m \in Alive : ~Tracks(m, n))
  /\ LET h == DetachSubs(ClearDeps(Heap, n), n)
     IN Becomes([h EXCEPT !.node[n] = None])
  /\ gone' = gone \cup {n}
  /\ reads' = [m \in Nodes |-> IF m = n THEN <<>> ELSE Without(reads[m], n)]
  /\ lastReads' = [m \in Nodes |-> IF m = n THEN <<>> ELSE Without(lastReads[m], n)]
  /\ UNCHANGED <<running, runs>>

Next ==
  \/ \E n \in Nodes : Create(n) \/ StartTracking(n) \/ EndTracking(n) \/ DisposeNode(n)
  \/ \E n, d \in Nodes : LinkAgain(n, d) \/ LinkReuse(n, d) \/ LinkSkip(n, d) \/ LinkNew(n, d)

Spec == Init /\ [][Next]_vars
=============================================================================
