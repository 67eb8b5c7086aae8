----------------------------- MODULE CmdMarkets ------------------------------
(***************************************************************************)
(* From the odds table of the CMD lobby to the markets the detector sees.  *)
(* The match group of a fixture is read twice by code that must agree: the *)
(* parser of whole documents (parseJun88CmdSnapshot, for bootstrap and     *)
(* reconcile) and its copy inside the page (the observer's parseMatchGroup,*)
(* for deltas).  The sink turns the selections of a fixture into markets   *)
(* with two legs (fixtureMarketSnapshotFromSelections).                    *)
(*                                                                         *)
(* The module is an algorithm: a state is a match group, a step adds one   *)
(* cell of the table.  Texts are sequences of words, a word is a number,   *)
(* lines are in quarter goals.  1X2 cells are left out: the sink drops     *)
(* their markets.                                                          *)
(***************************************************************************)
EXTENDS Integers, SequencesExt, FiniteSets

CONSTANTS Names,    \* pairs <<home, away>> of sequences of words
          Lines,    \* what a cell may show: one or two numbers, in quarters
          Legs,     \* what an anchor may show
          Leagues,  \* subset of {"standard", "special"}
          MaxCells

CmdMarketsAssumption ==
  /\ Legs \subseteq {"missing", "blank", "zero", "price", "locked"}
  /\ Leagues \subseteq {"standard", "special"}
  /\ MaxCells \in Nat

VARIABLES names, league, group

vars == <<names, league, group>>

Kinds == {"hdp", "ou"}
Over == <<0>>
Under == <<1>>
Halves == {"FT", "1H"}

(* One cell: its line, the side that gives the handicap (the line stands   *)
(* above or below a <br>), its anchors in order, and whether the handicap  *)
(* anchors name their side (Hdp_Home, Hdp_Away).                           *)
Cell == [kind : Kinds, half : Halves, line : Lines, giving : {1, 2},
         legs : Legs \X Legs, marked : BOOLEAN]

Init == names \in Names /\ league \in Leagues /\ group = <<>>

AddCell(c) ==
  /\ Len(group) < MaxCells
  /\ c.kind = "ou" => c.giving = 1 /\ ~c.marked
  /\ group' = Append(group, c)
  /\ UNCHANGED <<names, league>>

Next == \E c \in Cell : AddCell(c)

Spec == Init /\ [][Next]_vars

-----------------------------------------------------------------------------
(* The parser and the observer.                                            *)

Anchors(c) == SelectSeq(<<1, 2>>, LAMBDA k : c.legs[k] # "missing")

Positional(c, k) == IF k <= Len(Anchors(c)) THEN Anchors(c)[k] ELSE 0

(* cmdSelectionButton: the anchor with the side's marker, else the anchor  *)
(* at the side's position; 0 is no anchor.  Over and under go by position. *)
Button(c, k) ==
  IF c.marked /\ c.legs[k] # "missing" THEN k ELSE Positional(c, k)

(* isCmdOutcomeUnavailable looks from the anchor up to the match row.      *)
Suspended(leg) == leg \in {"blank", "locked"}

(* normalizeHandicapLine.                                                  *)
HandicapSign(c, k) == IF k = c.giving THEN -1 ELSE 1

OutcomeName(c, k) ==
  IF c.kind = "hdp" THEN names[k] ELSE IF k = 1 THEN Over ELSE Under

(* createSelection.  The outcome id is a token of the outcome's name: the  *)
(* sign of the line does not survive it.                                   *)
OutcomeId(c, k) == <<c.kind, c.half, OutcomeName(c, k), c.line>>

Selection(i, k) ==
  LET c == group[i] IN
  [id |-> OutcomeId(c, k),
   name |-> OutcomeName(c, k), line |-> c.line,
   sign |-> IF c.kind = "hdp" THEN HandicapSign(c, k) ELSE 0,
   anchor |-> <<i, Button(c, k)>>,
   odds |-> c.legs[Button(c, k)] \in {"price", "locked"},
   suspended |-> Suspended(c.legs[Button(c, k)])]

(* isStandardJun88CmdFixture: corners, bookings, virtual leagues and the   *)
(* like are not read at all.                                               *)
StandardFixture == league = "standard"

Parts == {p \in (DOMAIN group) \X {1, 2} : Button(group[p[1]], p[2]) # 0}

(* Full time cells before those of the first half, in document order.      *)
Before(p, q) ==
  \/ group[p[1]].half = "FT" /\ group[q[1]].half = "1H"
  \/ group[p[1]].half = group[q[1]].half /\ (p[1] < q[1] \/ (p[1] = q[1] /\ p[2] < q[2]))

(* dedupeSelections: of the selections with one id the last one stays.     *)
ParserSelections ==
  IF ~StandardFixture THEN {}
  ELSE {Selection(p[1], p[2]) : p \in
         {x \in Parts : ~\E y \in Parts :
            Before(x, y) /\ Selection(x[1], x[2]).id = Selection(y[1], y[2]).id}}

(* The page runs copies of these functions.                                *)
ObserverSelection(i, k) == Selection(i, k)

(* seenOutcomeIds: in the observer the first one stays.                    *)
ObserverSelections ==
  IF ~StandardFixture THEN {}
  ELSE {ObserverSelection(p[1], p[2]) : p \in
         {x \in Parts : ~\E y \in Parts :
            Before(y, x) /\ ObserverSelection(x[1], x[2]).id = ObserverSelection(y[1], y[2]).id}}

-----------------------------------------------------------------------------
(* The sink.                                                               *)

Participants == {1, 2}

(* Wrong: the first participant whose name the outcome begins with.        *)
SelectionSideFirst(s) ==
  LET matching == {k \in Participants : IsPrefix(names[k], s.name \o s.line)}
  IN IF s.id[1] = "ou" THEN IF s.name = Over THEN 1 ELSE 2
     ELSE IF matching = {} THEN 0
     ELSE CHOOSE k \in matching : \A l \in matching : k <= l

(* selectionSide: over and under by the first word, a handicap by the      *)
(* longest participant's name the outcome begins with; 0 is no side.       *)
SelectionSide(s) ==
  LET text == s.name \o s.line
      matching == {k \in Participants : IsPrefix(names[k], text)}
  IN IF s.id[1] = "ou" THEN IF s.name = Over THEN 1 ELSE 2
     ELSE IF matching = {} THEN 0
     ELSE CHOOSE k \in matching : \A l \in matching :
            \/ Len(names[k]) > Len(names[l])
            \/ Len(names[k]) = Len(names[l]) /\ k <= l

(* normalizeAsianLine: the mean of a split line, without its sign.         *)
NormalizeAsianLine(s) ==
  LET v == FoldLeft(LAMBDA a, b : a + (IF s.sign = -1 THEN -b ELSE b), 0, s.line) \div Len(s.line)
  IN IF v < 0 THEN -v ELSE v

MarketKey(s) == <<s.id[1], s.id[2], NormalizeAsianLine(s)>>

(* A market is kept when it has one leg per side, both with odds; it is    *)
(* open when neither leg is suspended.                                     *)
MarketSnapshot(sels) ==
  LET known == {s \in sels : SelectionSide(s) # 0 /\ s.line # <<>>}
      legs(key) == {s \in known : MarketKey(s) = key}
      kept == {key \in {MarketKey(s) : s \in known} :
                 /\ Cardinality(legs(key)) = 2
                 /\ {SelectionSide(s) : s \in legs(key)} = {1, 2}
                 /\ \A s \in legs(key) : s.odds}
  IN {[key |-> key,
       open |-> \A s \in legs(key) : ~s.suspended,
       anchors |-> [k \in {1, 2} |->
                      (CHOOSE s \in legs(key) : SelectionSide(s) = k).anchor]] : key \in kept}

-----------------------------------------------------------------------------
(* Properties.                                                             *)

Mean(line) == FoldLeft(LAMBDA a, b : a + b, 0, line) \div Len(line)
KeyOf(c) == <<c.kind, c.half, Mean(c.line)>>

(* What the page offers: per kind, half and absolute line the cell that    *)
(* speaks for it, a market when both of its anchors show a price.          *)
Offered(speaks(_)) ==
  IF league # "standard" THEN {}
  ELSE {[key |-> KeyOf(group[i]),
         open |-> group[i].legs = <<"price", "price">>,
         anchors |-> [k \in {1, 2} |-> <<i, k>>]] :
          i \in {j \in DOMAIN group : speaks(j) /\ group[j].legs[1] \in {"price", "locked"}
                                               /\ group[j].legs[2] \in {"price", "locked"}}}

(* The markets of a document are those its page offers: the two legs of a  *)
(* market come from one cell, each from the anchor of its own side, for    *)
(* every pair of names (one may begin with the other) and every line, and  *)
(* a market is open only while both can be bet on.  Of two cells with the  *)
(* same line, given by home in one and by away in the other, one is lost.  *)
SnapshotIsPage ==
  MarketSnapshot(ParserSelections) =
    Offered(LAMBDA i : ~\E j \in DOMAIN group : j > i /\ KeyOf(group[j]) = KeyOf(group[i]))

(* The same of the observer, where the first such cell speaks.             *)
ObserverIsPage ==
  MarketSnapshot(ObserverSelections) =
    Offered(LAMBDA i : ~\E j \in DOMAIN group : j < i /\ KeyOf(group[j]) = KeyOf(group[i]))

(* Parser and observer read the same outcomes, and disagree about one only *)
(* when two cells show its line.                                           *)
ParsersAgree ==
  /\ {s.id : s \in ParserSelections} = {s.id : s \in ObserverSelections}
  /\ \A s \in ParserSelections \ ObserverSelections :
       \E i, j \in DOMAIN group : i # j /\ KeyOf(group[i]) = KeyOf(group[j])
                                        /\ s.anchor[1] = i
=============================================================================
