------------------------------ MODULE Wavefronts ------------------------------
(***************************************************************************)
(* The wavefronts of the operators of a graph on one time line             *)
(* (Wavefront_visualization, Timeline_window): every node has frames for a *)
(* span of times, moved by the offset that an arrangement or the user gave *)
(* it. A frame of the program updates the playhead, draws the windows,     *)
(* delivers messages, and renders, which sets the length of the time line. *)
(*                                                                         *)
(* Times and lengths are size_t: numbers modulo Word, in which a negative  *)
(* offset is a large number. The time line and its playhead are floats, in *)
(* whole steps here: numbers of Digits binary digits, to which every sum   *)
(* and difference is rounded.                                              *)
(***************************************************************************)
EXTENDS Integers, SequencesExt, FiniteSetsExt

CONSTANTS
  Graph,     \* [listed |-> Seq(node), depth, first, last, reached |-> [node -> Nat]]:
             \* the operators in the order of the graph, the first and last time of
             \* their frames, and the time when the x axis is reached to its end
  NoGraph,
  Word,      \* 2^64 in the program
  Digits,    \* the digits of a float: 24 in the program
  Edit,      \* the offsets that the user enters
  Typed,     \* the positions that the user types into the slider
  MaxStep    \* how far the playhead moves in a frame, at most

ASSUME NoGraphAssumption == NoGraph \notin Graph
ASSUME GraphAssumption ==
  \A g \in Graph :
    /\ g.listed \in Seq(ToSet(g.listed)) /\ IsInjective(g.listed)
    /\ \A times \in {g.depth, g.first, g.last, g.reached} : times \in [ToSet(g.listed) -> Nat]
    /\ \A n \in ToSet(g.listed) : g.first[n] <= g.last[n]
ASSUME WordAssumption == Word \in Nat /\ Word > 2
ASSUME DigitsAssumption == Digits \in Nat \ {0}
ASSUME EditAssumption == Edit \subseteq Int /\ Typed \subseteq Int

VARIABLES
  phase,
  graph,     \* the nodes of the graph window, with the frames fetched for them
  offset,    \* m_wavefront_time_offset
  shown,     \* the nodes with m_show_wavefront
  length,    \* of the time line, as render() computed it
  position,  \* Timeline_window::m_play_position
  playing, looping, backwards,
  placed     \* a ghost: the nodes with the offset that the last arrangement gave
             \* them, and which arrangement it was

nodeVars == << graph, offset, shown, placed >>
playVars == << position, playing, looping, backwards >>
vars == << phase, nodeVars, length, playVars >>

Nodes == IF graph = NoGraph THEN {} ELSE ToSet(graph.listed)

Init ==
  /\ phase = "update" /\ graph = NoGraph /\ offset = << >> /\ shown = {}
  /\ length = 1 /\ position = 0
  /\ playing = FALSE /\ looping = TRUE /\ backwards = FALSE
  /\ placed = [nodes |-> {}, by |-> "baseline"]

-----------------------------------------------------------------------------
(* Floats                                                                    *)

Exact == 2 ^ Digits

Magnitude(x) == IF x < 0 THEN -x ELSE x

(* A float below 2 ^ Digits is exact; above that it is a multiple of the power *)
(* of two that leaves it Digits digits: the nearest one, the even one of two.  *)
RoundedUp(m) ==
  LET unit == CHOOSE u \in {2 ^ k : k \in 0 .. m} : m \div u \in Exact \div 2 .. Exact - 1
      whole == m \div unit
      rest == 2 * (m % unit)
  IN  unit * (IF rest > unit \/ (rest = unit /\ whole % 2 = 1) THEN whole + 1 ELSE whole)

Rounded(x) == IF Magnitude(x) <= Exact THEN x
              ELSE IF x < 0 THEN -RoundedUp(-x) ELSE RoundedUp(x)

(* Timeline_window::m_length *)
Length == Rounded(length)

-----------------------------------------------------------------------------
(* Timeline_window::update()                                                *)

Moved(step) == Rounded(IF backwards THEN position - step ELSE position + step)

Inside(p) == p >= 0 /\ p <= Length

Clamped(p) == IF p < 0 THEN 0 ELSE IF p > Length THEN Length ELSE p

Advance(p) ==
  \/ looping /\ phase' = "wrap" /\ position' = p /\ UNCHANGED playing
  \/ ~looping /\ phase' = "windows" /\ position' = Clamped(p) /\ playing' = Inside(p)

Update ==
  /\ phase = "update"
  /\ \/ ~playing /\ phase' = "windows" /\ UNCHANGED << position, playing >>
     \/ playing /\ \E step \in 1 .. MaxStep : Advance(Moved(step))
  /\ UNCHANGED << nodeVars, length, looping, backwards >>

(* Mutant: the second loop goes back by a step less than the length. *)
WrapShort ==
  /\ phase = "wrap"
  /\ \/ position < 0 /\ position' = Rounded(position + Length) /\ UNCHANGED phase
     \/ position > Length /\ position' = Rounded(position - (Length - 1)) /\ UNCHANGED phase
     \/ Inside(position) /\ phase' = "windows" /\ UNCHANGED position
  /\ UNCHANGED << nodeVars, length, playing, looping, backwards >>

(* A round of the two loops that bring the playhead back into the time line.  *)
(* A length that is lost in the rounding leaves it where it is.              *)
Wrap ==
  /\ phase = "wrap"
  /\ \/ position < 0 /\ position' = Rounded(position + Length) /\ UNCHANGED phase
     \/ position > Length /\ position' = Rounded(position - Length) /\ UNCHANGED phase
     \/ Inside(position) /\ phase' = "windows" /\ UNCHANGED position
  /\ UNCHANGED << nodeVars, length, playing, looping, backwards >>

-----------------------------------------------------------------------------
(* The windows.                                                              *)
Play ==
  /\ ~playing /\ playing' = TRUE
  /\ position' = IF position = Length THEN 0 ELSE position
  /\ UNCHANGED << nodeVars, looping, backwards >>

Pause == playing /\ playing' = FALSE /\ UNCHANGED << nodeVars, position, looping, backwards >>

(* The buttons, and the slider, in which any number can be typed. *)
Seek ==
  /\ position' \in {Rounded(p) : p \in (0 .. Length) \cup Typed}
  /\ UNCHANGED << nodeVars, playing, looping, backwards >>

ToggleLooping ==
  looping' = ~looping /\ UNCHANGED << nodeVars, position, playing, backwards >>

TurnAround ==
  backwards' = ~backwards /\ UNCHANGED << nodeVars, position, playing, looping >>

ToggleShow(n) ==
  /\ n \in Nodes
  /\ shown' = (shown \cup {n}) \ (shown \cap {n})
  /\ UNCHANGED << graph, offset, placed, playVars >>

EnterOffset(n, t) ==
  /\ n \in Nodes
  /\ offset' = [offset EXCEPT ![n] = t]
  /\ placed' = [placed EXCEPT !.nodes = @ \ {n}]
  /\ UNCHANGED << graph, shown, playVars >>

(* The nodes in on by depth: std::sort leaves nodes of equal depth in any     *)
(* order, and the loop over them passes over the hidden ones.                *)
ByDepth(g, on) ==
  {s \in SetToSeqs(on) : \A i, j \in DOMAIN s : i < j => g.depth[s[i]] <= g.depth[s[j]]}

(* Mutant: the next node starts when the one before it ends. *)
ArrangedTight(g, s, old, on, duration) ==
  LET last[k \in 0 .. Len(s)] == IF k = 0 THEN 0 ELSE last[k - 1] + duration[s[k]]
  IN  [n \in ToSet(g.listed) |->
         IF n \in on THEN last[(CHOOSE i \in DOMAIN s : s[i] = n) - 1] ELSE old[n]]

(* apply_baseline() and apply_optimized(): by depth, each shown node after   *)
(* the ones before it, or after these have reached their end in x.          *)
Arranged(g, s, old, on, duration) ==
  LET last[k \in 0 .. Len(s)] == IF k = 0 THEN 0 ELSE last[k - 1] + duration[s[k]] + 1
  IN  [n \in ToSet(g.listed) |->
         IF n \in on THEN last[(CHOOSE i \in DOMAIN s : s[i] = n) - 1] ELSE old[n]]

Arrange(by) ==
  /\ graph # NoGraph
  /\ \E s \in ByDepth(graph, shown) :
       offset' = Arranged(graph, s, offset, shown,
                          IF by = "baseline" THEN graph.last ELSE graph.reached)
  /\ placed' = [nodes |-> shown, by |-> by]
  /\ UNCHANGED << graph, shown, playVars >>

(* The message about a loaded graph: on_message() fetches the frames of the  *)
(* new nodes, all shown, and arranges them.                                 *)
Load(g) ==
  /\ graph' = g /\ shown' = ToSet(g.listed)
  /\ \E s \in ByDepth(g, ToSet(g.listed)) :
       offset' = Arranged(g, s, [n \in ToSet(g.listed) |-> 0], ToSet(g.listed), g.last)
  /\ placed' = [nodes |-> ToSet(g.listed), by |-> "baseline"]
  /\ UNCHANGED playVars

User ==
  /\ phase = "windows"
  /\ \/ Play \/ Pause \/ Seek \/ ToggleLooping \/ TurnAround
     \/ \E n \in Nodes : ToggleShow(n) \/ \E t \in Edit : EnterOffset(n, t)
     \/ \E by \in {"baseline", "optimized"} : Arrange(by)
     \/ \E g \in Graph : Load(g)
  /\ UNCHANGED << phase, length >>

-----------------------------------------------------------------------------
(* render(): the loop over the nodes in the order of the graph. The last     *)
(* time is the larger one of the FIRST time and the end of this node.       *)
Unsigned(t) == t % Word

Larger(a, b) == IF a > b THEN a ELSE b
Smaller(a, b) == IF a < b THEN a ELSE b

(* Mutant: a node ends when it starts. *)
ExtendToEarlierEnd(range, n) ==
  [first |-> Smaller(range.first, Unsigned(graph.first[n] + offset[n])),
   last |-> Larger(range.last, Unsigned(graph.first[n] + offset[n]))]

Extend(range, n) ==
  LET start == Smaller(range.first, Unsigned(graph.first[n] + offset[n]))
  IN  [first |-> start, last |-> Larger(start, Unsigned(graph.last[n] + offset[n]))]

TimeRange ==
  LET nodes == IF graph = NoGraph THEN << >> ELSE graph.listed
      range[k \in 0 .. Len(nodes)] ==
        IF k = 0 THEN [first |-> Word - 1, last |-> 0]
        ELSE IF nodes[k] \in shown THEN Extend(range[k - 1], nodes[k])
        ELSE range[k - 1]
  IN  range[Len(nodes)]

(* Mutant: the last time is not counted. *)
LengthOffByOne(range) == Unsigned(range.last - range.first)
LengthOf(range) == Unsigned(range.last - range.first + 1)

Render ==
  /\ phase = "windows" /\ phase' = "update"
  /\ length' = LengthOf(TimeRange)
  /\ UNCHANGED << nodeVars, playVars >>

Frame == Update \/ Wrap \/ Render

Next == Frame \/ User

Spec == Init /\ [][Next]_vars

(* tick() is called again and again.                                         *)
FairSpec == Spec /\ WF_vars(Frame)

-----------------------------------------------------------------------------
(* Properties *)

EndOf(n) == graph.last[n] + offset[n]

(* The length is never 0, unless the user has entered an offset with which a *)
(* node ends one step before time 0, where another one starts.               *)
LengthIsPositive ==
  [][length' = 0 /\ length # 0 =>
       \E m, n \in shown : /\ Unsigned(EndOf(m)) = Unsigned(-1)
                           /\ Unsigned(graph.first[n] + offset[n]) = 0]_vars

(* One frame follows another, except for a playhead that loops as many lengths *)
(* away from the time line as a float can count, or on one of length 0: the   *)
(* loop of update() that brings it back may not end.                         *)
FramesGoOn ==
  \/ []<>(phase = "update") /\ []<>(phase = "windows")
  \/ <>[](phase = "wrap" /\ Exact * Length <= Magnitude(position))

(* As long as their offsets are not edited, and also after others were       *)
(* hidden or shown, arranged nodes run in the order of their depth; with     *)
(* the baseline no two of them ever run at the same time.                    *)
Ends(n) == offset[n] + (IF placed.by = "baseline" THEN graph.last[n] ELSE graph.reached[n])

ArrangedByDepth ==
  \A m, n \in placed.nodes : m # n =>
    /\ graph.depth[m] < graph.depth[n] => Ends(m) < offset[n]
    /\ Ends(m) < offset[n] \/ Ends(n) < offset[m]

(* When the shown nodes are listed in the order in which they end, and none   *)
(* is before time 0 or ends at the last time there is, a time line whose      *)
(* length is exact as a float covers the frames of all of them. (In any other *)
(* order it ends with the node that is listed last, whatever ends later.)    *)
ListedInTime ==
  /\ graph # NoGraph
  /\ \A n \in shown : 0 <= graph.first[n] + offset[n] /\ EndOf(n) < Word - 1
  /\ \A i, j \in DOMAIN graph.listed :
       i < j /\ {graph.listed[i], graph.listed[j]} \subseteq shown
         => EndOf(graph.listed[i]) <= EndOf(graph.listed[j])

TimelineCovers ==
  [][phase = "windows" /\ phase' = "update" /\ ListedInTime /\ length' <= Exact =>
       \A n \in shown : TimeRange.first <= graph.first[n] + offset[n]
                         /\ EndOf(n) < TimeRange.first + Length']_vars
=============================================================================
