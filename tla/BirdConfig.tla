----------------------------- MODULE BirdConfig -----------------------------
(***************************************************************************)
(* editOspfCost of rpcd-mod-bird (birdconfig.uc): the line editor that     *)
(* sets the OSPF cost of one interface in the text of a BIRD               *)
(* configuration.                                                          *)
(*                                                                         *)
(* A text is a sequence of lines and a line a sequence of tokens.  Of the  *)
(* tokens only those the editor or BIRD's reading of costs depend on are   *)
(* told apart; any other statement is Other.  How BIRD reads a text        *)
(* (Parse) is external and looks at the tokens alone, not at the lines.    *)
(***************************************************************************)
EXTENDS Integers, Sequences, SequencesExt, FiniteSetsExt

CONSTANTS
  Ifaces,       \* interface names
  None          \* no interface, no file

ASSUME NoneAssumption == None \notin Ifaces

DefaultCost == 10     \* of an interface without a cost statement

Header(i) == [kind |-> "interface", arg |-> i]     \* interface "i"
Cost(c)   == [kind |-> "cost", arg |-> c]          \* cost c;
Open      == [kind |-> "open", arg |-> None]
Close     == [kind |-> "close", arg |-> None]
Other     == [kind |-> "statement", arg |-> None]
Bad       == [kind |-> "error", arg |-> None]      \* refused by BIRD

----------------------------------------------------------------------------
(* BIRD: the cost of each interface, the last statement of its block.      *)

Scan(s, t) ==
  CASE t.kind = "interface" -> [s EXCEPT !.header = t.arg]
    [] t.kind = "open" ->
         [s EXCEPT !.depth = @ + 1, !.header = None,
                   !.block = IF s.header = None THEN @ ELSE s.header,
                   !.at = IF s.header = None THEN @ ELSE s.depth]
    [] t.kind = "close" ->
         [s EXCEPT !.depth = @ - 1, !.block = IF s.at = s.depth - 1 THEN None ELSE @]
    [] t.kind = "cost" ->
         IF s.block = None THEN [s EXCEPT !.ok = FALSE]
         ELSE [s EXCEPT !.cost[s.block] = t.arg]
    [] t.kind = "error" -> [s EXCEPT !.ok = FALSE]
    [] OTHER -> [s EXCEPT !.header = None]

ScanLine(s, line) ==
  LET after[k \in 0..Len(line)] ==
        IF k = 0 THEN s ELSE Scan(after[k - 1], line[k])
  IN after[Len(line)]

Unparsed == [header |-> None, block |-> None, at |-> -1, depth |-> 0,
             ok |-> TRUE, cost |-> [i \in Ifaces |-> DefaultCost]]

(* The state before the first line and after each.                         *)
Steps(text) ==
  LET after[k \in 0..Len(text)] ==
        IF k = 0 THEN Unparsed ELSE ScanLine(after[k - 1], text[k])
  IN after

Parse(text) == Steps(text)[Len(text)]

Valid(text) == Parse(text).ok /\ Parse(text).depth = 0
Costs(text) == Parse(text).cost

----------------------------------------------------------------------------
(* The editor works on whole lines.                                        *)

CountOf(line, kind) == Cardinality({k \in DOMAIN line : line[k].kind = kind})
braceDelta(line) == CountOf(line, "open") - CountOf(line, "close")

(* Depth after lines a..b, counted from the depth before line a.           *)
Balance(text, a, b) ==
  LET sum[k \in a-1..b] ==
        IF k = a - 1 THEN 0 ELSE sum[k - 1] + braceDelta(text[k])
  IN sum[b]

(* Lines that start with interface "i"; lines with an opening brace.       *)
HeadLines(text, i) ==
  {k \in DOMAIN text : text[k] # <<>> /\ text[k][1] = Header(i)}
OpenLines(text, from) ==
  {k \in from..Len(text) : CountOf(text[k], "open") > 0}

(* Lines at which the block opened on line o is taken for closed: the      *)
(* opening line counts for one brace, whatever else it holds.              *)
CloseLines(text, o) ==
  {k \in o+1..Len(text) : 1 + Balance(text, o + 1, k) <= 0}

(* Cost statements at the start of a line of the block.                    *)
CostLines(text, o, c) ==
  {k \in o+1..c-1 : text[k] # <<>> /\ text[k][1].kind = "cost"}

Failed == [ok |-> FALSE, text |-> <<>>]

(* Mutant: the cost statement is looked for beyond the block.              *)
MRewrite(text, o, c, cost) ==
  LET k == CostLines(text, o, Len(text))
  IN IF k # {} THEN [text EXCEPT ![Min(k)][1] = Cost(cost)]
     ELSE InsertAt(text, o + 1, <<Cost(cost)>>)

(* The first cost statement is replaced, or one is inserted below the      *)
(* opening brace.                                                          *)
Rewrite(text, o, c, cost) ==
  LET k == CostLines(text, o, c)
  IN IF k # {} THEN [text EXCEPT ![Min(k)][1] = Cost(cost)]
     ELSE InsertAt(text, o + 1, <<Cost(cost)>>)

editOspfCost(text, i, cost) ==
  LET heads == HeadLines(text, i)
      opens == OpenLines(text, Min(heads))
      closes == CloseLines(text, Min(opens))
  IN IF heads = {} THEN Failed
     ELSE IF opens = {} THEN Failed
     ELSE IF closes = {} THEN Failed
     ELSE [ok |-> TRUE, text |-> Rewrite(text, Min(opens), Min(closes), cost)]

----------------------------------------------------------------------------
(* The layout for which the editor is made (rpcd-mod-bird/test/fixtures):  *)
(* a statement or a brace to a line, but for an opening brace that ends    *)
(* the line of its header.                                                 *)

Token == [kind : {"interface"}, arg : Ifaces] \cup [kind : {"cost"}, arg : Nat]
           \cup {Open, Close, Other, Bad}

IsLine(l) ==
  /\ l \in Seq(Token) /\ (l = <<>> \/ Len(l) \in {1, 2})
  /\ Len(l) = 2 => l[1].kind \in {"interface", "statement"} /\ l[2] = Open

Lines(t) == t \in Seq(Seq(Token)) /\ \A k \in 1..Len(t) : IsLine(t[k])

(* What a line is: it heads a block, opens one, closes one, sets a cost.   *)
Heads(l)  == Len(l) \in {1, 2} /\ l[1].kind = "interface"
Opens(l)  == Len(l) \in {1, 2} /\ l[Len(l)] = Open
Closes(l) == Len(l) = 1 /\ l[1] = Close
Sets(l)   == Len(l) \in {1, 2} /\ l[1].kind = "cost"

(* ... in which an interface has one block, not within that of another, a  *)
(* header alone on its line is followed by its brace, and a block has one  *)
(* cost statement at most.                                                 *)
WellLaid(t) ==
  /\ Lines(t)
  /\ \A j, k \in 1..Len(t) :
       Heads(t[j]) /\ Heads(t[k]) /\ t[j][1].arg = t[k][1].arg => j = k
  /\ \A k \in 1..Len(t) :
       Heads(t[k]) /\ ~Opens(t[k]) => k + 1 \in 1..Len(t) /\ t[k + 1] = <<Open>>
  /\ \A k \in 1..Len(t) : Heads(t[k]) => Steps(t)[k - 1].block = None
  /\ \A j, k \in 1..Len(t) :
       /\ Sets(t[j]) /\ Sets(t[k])
       /\ Steps(t)[j - 1].block # None
       /\ Steps(t)[j - 1].block = Steps(t)[k - 1].block
       => j = k

=============================================================================
