----------------------------- MODULE RouteGuide -----------------------------
(***************************************************************************)
(* Guides: the tiles that a net with a route from before is led along when *)
(* it is routed again (route/lowering/nets.rs, route/guide.rs and the      *)
(* attempts of route_sink in route/router.rs).                             *)
(*                                                                         *)
(* The pips of the old route, in the order they were made, give segments   *)
(* between the tiles they are in.  The guide of a sink is a shortest way   *)
(* over the tiles of these segments, found breadth first, or, when there   *)
(* is none, all the tiles of the net one after the other.  A sink is first *)
(* searched in the order of its guide, then within a distance 0, 1 and 2   *)
(* of the guide's tiles, then anywhere.                                    *)
(***************************************************************************)
EXTENDS Integers, Sequences, FiniteSets, SequencesExt

CONSTANTS
  Tiles,      \* the tiles of the chip, pairs of coordinates
  GuidedNets  \* records [pips, source, sink]: the tiles of the old pips

Cells == Int \X Int

ASSUME GuideAssumption ==
  /\ Tiles \subseteq Cells /\ IsFiniteSet(Tiles)
  /\ \A n \in GuidedNets : n.pips \in Seq(Cells) /\ n.source \in Cells /\ n.sink \in Cells

VARIABLES
  phase,      \* "lowered", "tracing", "guided", "spreading", "following"
  net,
  queue, came_from,   \* of the search for a guide; the queue also of distances
  guide,      \* OrderedGuide
  field,      \* GuideDistances: tile -> distance, Far when not reached
  index,      \* where in the guide the wire followed is, 0 before the start
  trail       \* the tiles the wires from the start have passed

guideVars == <<phase, net, queue, came_from, guide, field, index, trail>>

Far == -1   \* usize::MAX

-----------------------------------------------------------------------------
(* OrderedGuide::new and the like: of equal neighbours only the first.     *)
Deduped(seq) ==
  FoldLeft(LAMBDA kept, t : IF kept # <<>> /\ Last(kept) = t THEN kept ELSE Append(kept, t), <<>>, seq)

(* derive_segments_from_pips: pairs of tiles. *)
SegmentsOf(pips) ==
  LET at == Deduped(pips)
  IN CASE at = <<>> -> <<>>
       [] Len(at) = 1 -> <<<<at[1], at[1]>>>>
       [] OTHER -> [i \in 1..(Len(at) - 1) |-> <<at[i], at[i + 1]>>]

Toward(a, b, k) ==
  IF a <= b THEN (IF a + k < b THEN a + k ELSE b) ELSE (IF a - k > b THEN a - k ELSE b)

Gap(a, b) == IF a <= b THEN b - a ELSE a - b

(* append_segment_tiles: both coordinates move until each is there.        *)
SegmentTiles(seg) ==
  LET a == seg[1]
      b == seg[2]
      steps == IF Gap(a[1], b[1]) < Gap(a[2], b[2]) THEN Gap(a[2], b[2]) ELSE Gap(a[1], b[1])
  IN [k \in 1..(steps + 1) |-> <<Toward(a[1], b[1], k - 1), Toward(a[2], b[2], k - 1)>>]

(* guide_tiles. *)
NetTiles(n) ==
  LET segs == SegmentsOf(n.pips)
  IN Deduped(FlattenSeq([i \in DOMAIN segs |-> SegmentTiles(segs[i])]))

(* route_adjacency. *)
Mapped(n) == ToSet(NetTiles(n))

Adjacent(n, t, u) ==
  LET segs == SegmentsOf(n.pips)
  IN \E i \in DOMAIN segs : \E k \in 1..(Len(SegmentTiles(segs[i])) - 1) :
       {SegmentTiles(segs[i])[k], SegmentTiles(segs[i])[k + 1]} = {t, u}

-----------------------------------------------------------------------------
GuideInit ==
  /\ net \in GuidedNets
  /\ phase = "lowered"
  /\ queue = <<>> /\ came_from = <<>> /\ guide = <<>> /\ field = <<>>
  /\ index = 0 /\ trail = <<>>

Guided(tiles) == phase' = "guided" /\ guide' = Deduped(tiles)

(* trace_route_path: at once, *)
Trivial ==
  /\ phase = "lowered" /\ net.source = net.sink
  /\ Guided(<<net.source>>)
  /\ UNCHANGED <<net, queue, came_from, field, index, trail>>

(* without a chance (guide_tiles_for_sink then takes the tiles of the net) *)
NotOnRoute ==
  /\ phase = "lowered" /\ net.source # net.sink
  /\ ~({net.source, net.sink} \subseteq Mapped(net))
  /\ Guided(NetTiles(net))
  /\ UNCHANGED <<net, queue, came_from, field, index, trail>>

(* or breadth first. *)
StartTrace ==
  /\ phase = "lowered" /\ net.source # net.sink
  /\ {net.source, net.sink} \subseteq Mapped(net)
  /\ phase' = "tracing" /\ queue' = <<net.source>>
  /\ UNCHANGED <<net, came_from, guide, field, index, trail>>

Seen == DOMAIN came_from \union {net.source}

Fresh(t) == {u \in Mapped(net) : Adjacent(net, t, u)} \ Seen

(* Mutant: the last tile found is looked at first. *)
Enqueued_Front(q, found) == SetToSeq(found) \o Tail(q)

Enqueued(q, found) == Tail(q) \o SetToSeq(found)

TraceOn ==
  /\ phase = "tracing" /\ queue # <<>>
  /\ net.sink \notin Fresh(Head(queue))
  /\ came_from' = [u \in DOMAIN came_from \union Fresh(Head(queue)) |->
                  IF u \in DOMAIN came_from THEN came_from[u] ELSE Head(queue)]
  /\ queue' = Enqueued(queue, Fresh(Head(queue)))
  /\ UNCHANGED <<phase, net, guide, field, index, trail>>

(* reconstruct_tile_path. *)
PathTo(t) ==
  LET back[u \in Mapped(net)] == IF u \in DOMAIN came_from THEN Append(back[came_from[u]], u) ELSE <<u>>
  IN back[t]

TraceDone ==
  /\ phase = "tracing" /\ queue # <<>>
  /\ net.sink \in Fresh(Head(queue))
  /\ Guided(Append(PathTo(Head(queue)), net.sink))
  /\ queue' = <<>>
  /\ UNCHANGED <<net, came_from, field, index, trail>>

(***************************************************************************)
(* GuideDistances::new.  Tiles outside the chip are left out.              *)
(***************************************************************************)
(* Mutant: distances are taken from the sink's end of the guide alone. *)
Nearest_Last == IF guide = <<>> THEN {} ELSE {Last(guide)} \cap Tiles

Nearest == ToSet(guide) \cap Tiles

StartSpread ==
  /\ phase = "guided"
  /\ phase' = "spreading"
  /\ field' = IF guide = <<>> THEN <<>>
              ELSE [t \in Tiles |-> IF t \in Nearest THEN 0 ELSE Far]
  /\ queue' = SetToSeq(Nearest)
  /\ UNCHANGED <<net, came_from, guide, index, trail>>

Beside(t, u) == Gap(t[1], u[1]) + Gap(t[2], u[2]) = 1

Closer(t, u) == Beside(t, u) /\ (field[u] = Far \/ field[t] + 1 < field[u])

Spread ==
  /\ phase = "spreading" /\ queue # <<>>
  /\ LET t == Head(queue)
         found == {u \in Tiles : Closer(t, u)}
     IN /\ field' = [u \in Tiles |-> IF u \in found THEN field[t] + 1 ELSE field[u]]
        /\ queue' = Tail(queue) \o SetToSeq(found)
  /\ UNCHANGED <<phase, net, came_from, guide, index, trail>>

SpreadDone ==
  /\ phase = "spreading" /\ queue = <<>>
  /\ phase' = "following"
  /\ UNCHANGED <<net, queue, came_from, guide, field, index, trail>>

(***************************************************************************)
(* OrderedGuide::advance: to a later place of the guide that a straight    *)
(* run of it leads to.                                                     *)
(***************************************************************************)
Step(t, u) == <<u[1] - t[1], u[2] - t[2]>>

(* guide_run_is_linear, guide_step. *)
Linear(i, j) ==
  /\ Beside(guide[i], guide[i + 1])
  /\ \A k \in i..(j - 1) : Step(guide[k], guide[k + 1]) = Step(guide[i], guide[i + 1])

(* Mutant: only the first tile of the run is looked at. *)
Advances_Bent(i, j, t, u) ==
  /\ guide[i] = t /\ u # t
  /\ j > i /\ guide[j] = u /\ Beside(guide[i], guide[i + 1])

Advances(i, j, t, u) ==
  /\ guide[i] = t /\ u # t
  /\ j > i /\ guide[j] = u /\ Linear(i, j)

(* route_sink_following_guide: only a guide of some length to the sink.    *)
Ordered == Len(guide) > 1 /\ Last(guide) = net.sink

(* From any tile of the tree that the guide visits, at each visit. *)
Enter ==
  /\ phase = "following" /\ index = 0 /\ Ordered
  /\ \E i \in DOMAIN guide : index' = i /\ trail' = <<guide[i]>>
  /\ UNCHANGED <<phase, net, queue, came_from, guide, field>>

(* The tiles from one to another in a straight line, without the first. *)
Passed(t, u) == Tail(SegmentTiles(<<t, u>>))

(* A wire to another tile; wires within a tile change nothing here.        *)
Follow ==
  /\ phase = "following" /\ index # 0
  /\ \E u \in Tiles : \E j \in DOMAIN guide :
       /\ Advances(index, j, guide[index], u)
       /\ index' = j
       /\ trail' = trail \o Passed(guide[index], u)
  /\ UNCHANGED <<phase, net, queue, came_from, guide, field>>

(* The search leaves the guide, at its end or before. *)
Leave ==
  /\ phase = "following"
  /\ phase' = "left"
  /\ UNCHANGED <<net, queue, came_from, guide, field, index, trail>>

Done == phase = "left" /\ UNCHANGED guideVars

GuideNext ==
  \/ Trivial \/ NotOnRoute \/ StartTrace \/ TraceOn \/ TraceDone
  \/ StartSpread \/ Spread \/ SpreadDone
  \/ Enter \/ Follow \/ Leave \/ Done

GuideSpec == GuideInit /\ [][GuideNext]_guideVars

-----------------------------------------------------------------------------
(* The tiles within k steps of a set, over neighbours that next allows. *)
Within(S, k, next(_, _)) ==
  LET reach[n \in Nat] ==
        IF n = 0 THEN S
        ELSE LET before == reach[n - 1]
             IN before \union {u \in Mapped(net) \union Tiles : \E t \in before : next(t, u)}
  IN reach[k]

(* A guide that is traced leads over neighbouring tiles of the old route   *)
(* from the driver to the sink, and none is shorter.                       *)
SinkGuideShortest ==
  /\ phase = "tracing" => queue # <<>>
  /\ (phase \notin {"lowered", "tracing"} /\ {net.source, net.sink} \subseteq Mapped(net)) =>
       /\ Head(guide) = net.source /\ Last(guide) = net.sink
       /\ \A i \in 1..(Len(guide) - 1) : Adjacent(net, guide[i], guide[i + 1])
       /\ Len(guide) > 1 =>
            net.sink \notin Within({net.source}, Len(guide) - 2, LAMBDA t, u : Adjacent(net, t, u))

DistancesTrue ==
  (phase \in {"following", "left"} /\ guide # <<>>) =>
    \A t \in Tiles :
      LET near(k) == t \in Within(ToSet(guide) \cap Tiles, k, LAMBDA a, b : b \in Tiles /\ Beside(a, b))
      IN IF field[t] = Far THEN ~near(Cardinality(Tiles))
         ELSE near(field[t]) /\ (field[t] > 0 => ~near(field[t] - 1))

(***************************************************************************)
(* Both breadth-first searches find what is nearest: the guide of a sink   *)
(* is a shortest one, although the branches of the old route overlap and   *)
(* cross and are joined by segments no wire ever took, and it is found     *)
(* whenever both ends are on the route; a tile's distance is that from the *)
(* nearest tile of the guide by way of the chip's tiles.                   *)
(***************************************************************************)
SearchesShortest == SinkGuideShortest /\ DistancesTrue

(* Wires pass over all the tiles of the guide from where they enter it to  *)
(* where they are, in its order.                                           *)
WalkFollowsGuide ==
  index # 0 => trail = SubSeq(guide, index - Len(trail) + 1, index)

(* A net that was routed to one sink without coming to a tile twice may be *)
(* routed as it was, wire for wire.                                        *)
OwnRouteAdmitted ==
  LET at == Deduped(net.pips)
      straight == \A k \in 1..(Len(at) - 1) : at[k][1] = at[k + 1][1] \/ at[k][2] = at[k + 1][2]
  IN (/\ phase \in {"following", "left"} /\ Len(at) > 1
      /\ straight /\ IsInjective(NetTiles(net)) /\ Head(at) = net.source /\ Last(at) = net.sink) =>
       /\ Ordered /\ Head(guide) = Head(at)
       /\ \A k \in 1..(Len(at) - 1) : \E i, j \in DOMAIN guide : Advances(i, j, at[k], at[k + 1])

(***************************************************************************)
(* Following a guide in order admits no short cut, also when the guide     *)
(* comes to a tile more than once and wires pass over several tiles, and   *)
(* admits the route that the guide was made from.                          *)
(***************************************************************************)
GuideAdmitsItsRoute == WalkFollowsGuide /\ OwnRouteAdmitted

(***************************************************************************)
(* A guide is what routing again is to keep to: a shortest way over the    *)
(* old route, with true distances from it, that admits the old route and   *)
(* no short cut (route_adjacency, GuideDistances, OrderedGuide::advance).  *)
(***************************************************************************)
GuidesHold == SearchesShortest /\ GuideAdmitsItsRoute

(***************************************************************************)
(* Each attempt allows what the one before did: a wire that may be taken   *)
(* in the order of the guide keeps to its tiles, at a distance of 0.       *)
(***************************************************************************)
Admitted(limit, t, u) == u = t \/ guide = <<>> \/ (field[u] # Far /\ field[u] <= limit)

AttemptsWiden ==
  phase \in {"following", "left"} =>
    \A i, j \in DOMAIN guide : \A u \in Tiles :
      Advances(i, j, guide[i], u) => Admitted(0, guide[i], u)
=============================================================================
