-------------------------- MODULE LinksProperties --------------------------
(***************************************************************************)
(* What the link pool promises: two sound lists per edge, and the abstract *)
(* graph of DepGraph.tla.                                                  *)
(***************************************************************************)
EXTENDS Links

(* The type of every variable. *)
TypeOK ==
  /\ \A c \in DOMAIN links : links[c] \in Link \cup {None}
  /\ ToSet(freeLinks) \subseteq DOMAIN links
  /\ node \in [Nodes -> Ends \cup {None}]
  /\ running \in Seq(Nodes) /\ runs \in Nat /\ gone \subseteq Nodes
  /\ reads \in [Nodes -> Seq(Nodes)] /\ lastReads \in [Nodes -> Seq(Nodes)]

-----------------------------------------------------------------------------
(* s, a list of links, is doubly linked: following `next` from one end and *)
(* `prev` from the other visits the same links.                            *)
DoublyLinked(s, next, prev) ==
  \A i \in DOMAIN s :
    /\ links[s[i]][prev] = IF i = 1 THEN None ELSE s[i - 1]
    /\ links[s[i]][next] = IF i = Len(s) THEN None ELSE s[i + 1]

(* Both lists of every node are sound, every link in use is in the lists   *)
(* of both its ends, and every other slot of the pool is free exactly      *)
(* once.  The cursor of a running node is in its own dependency list.      *)
WellLinked ==
  /\ \A n \in Alive :
       LET ds == DepLinks(Heap, n)
           ss == SubLinks(Heap, n)
           tail == node[n].depsTail
       IN /\ DoublyLinked(ds, "nextDep", "prevDep") /\ \A c \in ToSet(ds) : links[c].sub = n
          /\ DoublyLinked(ss, "nextSub", "prevSub") /\ \A c \in ToSet(ss) : links[c].dep = n
          /\ node[n].subsTail = IF ss = <<>> THEN None ELSE Last(ss)
          /\ tail # None => Contains(ds, tail)
          /\ ~Contains(running, n) => tail = IF ds = <<>> THEN None ELSE Last(ds)
  /\ \A c \in DOMAIN links :
       IF links[c] = None
       THEN \E i \in DOMAIN freeLinks : \A j \in DOMAIN freeLinks : freeLinks[j] = c <=> j = i
       ELSE /\ links[c].sub \in Alive /\ Contains(DepLinks(Heap, links[c].sub), c)
            /\ links[c].dep \in Alive /\ Contains(SubLinks(Heap, links[c].dep), c)
            /\ ~Contains(freeLinks, c)

(* An edge has one link, except while its subscriber runs and has not yet  *)
(* pruned the link of the run before, or when the run went back to the     *)
(* source after it had left it.                                            *)
ReadOnce(n, d) == \E i \in DOMAIN reads[n] : \A j \in DOMAIN reads[n] : reads[n][j] = d <=> j = i

OneLinkPerEdge ==
  \A n, d \in Alive : ~Contains(running, n) /\ ReadOnce(n, d) =>
    \A b, c \in ToSet(DepLinks(Heap, n)) : links[b].dep = d /\ links[c].dep = d => b = c

(* The cursor of a running node never leads to a link that has been freed. *)
NoDanglingLink == \A n \in Alive : Contains(running, n) => ~Dangling(n)

-----------------------------------------------------------------------------
Allocates == Len(links') > Len(links) \/ Len(freeLinks') < Len(freeLinks)

(* As long as a run reads what the run before it has read, in the same     *)
(* order and each once, no link is allocated: an unchanged graph allocates *)
(* nothing.                                                                *)
UnchangedAllocatesNothing ==
  [][Allocates => LET last == lastReads[Last(running)]
                  IN ~(IsInjective(last) /\ IsPrefix(reads'[Last(running)], last))]_vars

-----------------------------------------------------------------------------
DepSet(C) == {links[c].dep : c \in C}

Graph == INSTANCE DepGraph WITH
  Node <- Nodes,
  alive <- Alive,
  running <- ToSet(running),
  deps <- [n \in Nodes |-> IF n \in Alive THEN DepSet(ToSet(DepLinks(Heap, n))) ELSE {}],
  confirmed <- [n \in Nodes |-> IF n \in Alive /\ Contains(running, n)
                                THEN ToSet(reads[n]) ELSE {}]

(* Whatever links it reuses, skips, moves or frees: after a run a node     *)
(* depends on exactly the live nodes that the run has read.                *)
ImplementsGraph == Graph!Spec
=============================================================================
