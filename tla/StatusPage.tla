----------------------------- MODULE StatusPage -----------------------------
(***************************************************************************)
(* The BIRD status page (luci-app-bird, view/bird/status.js) as refresh()  *)
(* keeps it up to date: tables that are created once and then updated in   *)
(* place, a section for each OSPF protocol, and a drawing of the AS graph  *)
(* by a script that is loaded when it is first needed.                     *)
(*                                                                         *)
(* What the page holds in variables and what it shows are two things: a    *)
(* table that exists but is in no box is updated and never seen, a box     *)
(* that is emptied takes its table with it.  Replies to the status call    *)
(* come in any order, BIRD may be down in some of them, and protocols come *)
(* and go.  A table's content is the reply it was last updated from.       *)
(***************************************************************************)
EXTENDS AsGraph

CONSTANTS
  Protos,       \* names of OSPF protocols
  None,         \* no call, no reply, no table, no network
  Pending,      \* a status call without a reply yet
  Down,         \* the reply of a status call that did not reach BIRD
  Reports,      \* what BIRD may report
  FixedReports, \* what a BIRD may report to which nothing happens
  MaxCalls,     \* bound: status calls in flight
  MaxEvents     \* bound: changes of BIRD and failures, together

Report ==
  [ospf : SUBSET Protos, bfd : BOOLEAN,
   local : Seq(Nat \cup {NoAs}), paths : Seq(Seq(Nat))]

ASSUME StatusPageAssumption ==
  /\ Reports \cup FixedReports \subseteq Report
  /\ Reports # {}
  /\ {None, Pending, Down} \cap (Reports \cup FixedReports) = {}
  /\ None # Pending /\ None # Down /\ Pending # Down
  /\ MaxCalls \in Nat \ {0} /\ MaxEvents \in Nat

VARIABLES
  server,         \* what BIRD reports, or Down
  calls,          \* status calls: None, Pending, or the reply on its way
  tbl,            \* daemonTbl, bgpTbl, bfdTbl: None or the content
  box,            \* what the box of each table shows
  ospfSections,   \* None or the content of a protocol's section
  ospfBox,        \* how many sections of a protocol the page shows
  script,         \* topoScriptLoaded, topoScriptLoading
  vis,            \* did the script define vis?
  topoNet,        \* None, or the graph that the network was given last
  topoBox,        \* what topoBoxEl shows
  last,           \* the reply rendered last: for the properties
  events          \* how many there have been, up to MaxEvents

vars == <<server, calls, tbl, box, ospfSections, ospfBox,
          script, vis, topoNet, topoBox, last, events>>
page == <<tbl, box, ospfSections, ospfBox, topoNet, topoBox, last>>

Tables == {"daemon", "bgp", "bfd"}
Slots == 1..MaxCalls
AllReports == Reports \cup FixedReports
Replies == AllReports \cup {Down}

\* What the variables may hold.
TypeOK ==
  /\ server \in Replies
  /\ calls \in [Slots -> Replies \cup {None, Pending}]
  /\ tbl \in [Tables -> AllReports \cup {None}]
  /\ box \in [Tables -> {"loading", "unreachable", "empty", "table"}]
  /\ ospfSections \in [Protos -> AllReports \cup {None}]
  /\ ospfBox \in [Protos -> Nat]
  /\ script \in {"absent", "loading", "loaded"}
  /\ vis \in BOOLEAN
  /\ topoNet = None \/ DOMAIN topoNet = {"nodes", "edges"}
  /\ topoBox \in {"empty", "loading", "error", "net"}
  /\ last \in Replies \cup {None}
  /\ events \in 0..MaxEvents

-----------------------------------------------------------------------------
(* The parts of a refresh.                                                 *)

\* updateDaemon(), updateBgp(), updateBfd(): a table that is not there is made
\* and put into its box; then it is updated.  Without a BFD protocol the BFD
\* box is emptied and the table dropped.
Hidden(t, r) == t = "bfd" /\ ~r.bfd

UpdateTables(r) ==
  /\ tbl' = [t \in Tables |-> IF Hidden(t, r) THEN None ELSE r]
  /\ box' = [t \in Tables |->
               IF Hidden(t, r)
               THEN IF tbl[t] = None THEN box[t] ELSE "empty"
               ELSE IF tbl[t] = None THEN "table" ELSE box[t]]

\* Mutant: the sections of protocols that are gone are not dropped.
MUpdateOspf(r) ==
  /\ ospfSections' = [p \in Protos |-> IF p \in r.ospf THEN r ELSE ospfSections[p]]
  /\ ospfBox' = [p \in Protos |->
                   IF p \in r.ospf /\ ospfSections[p] = None
                   THEN ospfBox[p] + 1 ELSE ospfBox[p]]

UpdateOspf(r) ==
  /\ ospfSections' = [p \in Protos |-> IF p \in r.ospf THEN r ELSE None]
  /\ ospfBox' = [p \in Protos |->
       CASE p \in r.ospf /\ ospfSections[p] = None -> ospfBox[p] + 1
         [] p \notin r.ospf /\ ospfSections[p] # None /\ ospfBox[p] > 0
              -> ospfBox[p] - 1
         [] OTHER -> ospfBox[p]]

\* The network is made, or given new data; either may throw.
Draw(g) ==
  \/ /\ topoNet' = g
     /\ topoBox' = IF topoNet = None THEN "net" ELSE topoBox
     /\ UNCHANGED events
  \/ /\ events < MaxEvents /\ events' = events + 1
     /\ topoBox' = "error"
     /\ UNCHANGED topoNet

TooSmall(g) == Len(g.nodes) < 2

\* updateTopo(), with loadTopoScript().
UpdateTopo(r) ==
  IF script # "loaded"
  THEN /\ script' = IF script = "absent" THEN "loading" ELSE script
       /\ topoBox' = "loading"
       /\ UNCHANGED <<topoNet, events>>
  ELSE /\ UNCHANGED script
       /\ IF ~vis \/ TooSmall(BuildAsGraph(r))
          THEN topoBox' = "empty" /\ UNCHANGED <<topoNet, events>>
          ELSE Draw(BuildAsGraph(r))

\* Mutant: the sections are forgotten, but not taken off the page.
MRenderUnreachable ==
  /\ tbl' = [t \in Tables |-> None]
  /\ box' = [t \in Tables |-> IF t = "daemon" THEN "unreachable" ELSE "empty"]
  /\ ospfSections' = [p \in Protos |-> None]
  /\ topoBox' = "empty"
  /\ UNCHANGED <<ospfBox, script, topoNet, events>>

RenderUnreachable ==
  /\ tbl' = [t \in Tables |-> None]
  /\ box' = [t \in Tables |-> IF t = "daemon" THEN "unreachable" ELSE "empty"]
  /\ ospfSections' = [p \in Protos |-> None]
  /\ ospfBox' = [p \in Protos |-> 0]
  /\ topoBox' = "empty"
  /\ UNCHANGED <<script, topoNet, events>>

\* The reply in slot s arrives ...
Arrives(s) ==
  /\ calls[s] \in Replies
  /\ calls' = [calls EXCEPT ![s] = None]

\* Mutant: a reply without BIRD is left aside.
MRefresh(s) ==
  /\ Arrives(s)
  /\ LET r == calls[s]
     IN  IF r = Down THEN UNCHANGED <<page, script, events>>
         ELSE last' = r /\ UpdateTables(r) /\ UpdateOspf(r) /\ UpdateTopo(r)
  /\ UNCHANGED <<server, vis>>

\* ... and is put on the page.
Refresh(s) ==
  /\ Arrives(s)
  /\ LET r == calls[s]
     IN  /\ last' = r
         /\ IF r = Down THEN RenderUnreachable
            ELSE UpdateTables(r) /\ UpdateOspf(r) /\ UpdateTopo(r)
  /\ UNCHANGED <<server, vis>>

-----------------------------------------------------------------------------
(* The poll, the router and the script.                                    *)

\* The poll, which does not wait for the answer to the call before.
Tick ==
  /\ \E s \in Slots :
       /\ calls[s] = None /\ \A t \in 1..(s - 1) : calls[t] # None
       /\ calls' = [calls EXCEPT ![s] = Pending]
  /\ UNCHANGED <<server, page, script, vis, events>>

Serve(s) ==
  /\ calls[s] = Pending
  /\ calls' = [calls EXCEPT ![s] = server]
  /\ UNCHANGED <<server, page, script, vis, events>>

\* A call fails: poll.add()'s function ignores it.
Fail(s) ==
  /\ calls[s] = Pending
  /\ events < MaxEvents /\ events' = events + 1
  /\ calls' = [calls EXCEPT ![s] = None]
  /\ UNCHANGED <<server, page, script, vis>>

Change ==
  /\ events < MaxEvents /\ events' = events + 1
  /\ server' \in Reports \cup {Down}
  /\ UNCHANGED <<calls, page, script, vis>>

\* The script arrives; what arrives may not be vis-network.
ScriptLoaded ==
  /\ script = "loading" /\ script' = "loaded"
  /\ \/ vis' = TRUE /\ UNCHANGED events
     \/ /\ events < MaxEvents /\ events' = events + 1
        /\ UNCHANGED vis
  /\ UNCHANGED <<server, calls, page>>

\* s.onerror: the next refresh tries again.
ScriptFails ==
  /\ script = "loading" /\ script' = "absent"
  /\ events < MaxEvents /\ events' = events + 1
  /\ UNCHANGED <<server, calls, page, vis>>

-----------------------------------------------------------------------------
\* render().  With a FixedReport nothing else happens.
Init ==
  /\ \/ server \in Reports /\ events = 0
     \/ server \in FixedReports /\ events = MaxEvents
  /\ calls = [s \in Slots |-> IF s = 1 THEN Pending ELSE None]
  /\ tbl = [t \in Tables |-> None]
  /\ box = [t \in Tables |-> IF t = "daemon" THEN "loading" ELSE "empty"]
  /\ ospfSections = [p \in Protos |-> None]
  /\ ospfBox = [p \in Protos |-> 0]
  /\ script = "absent" /\ vis = FALSE
  /\ topoNet = None /\ topoBox = "empty"
  /\ last = None

Next ==
  \/ Tick
  \/ \E s \in Slots : Serve(s) \/ Fail(s) \/ Refresh(s)
  \/ Change
  \/ ScriptLoaded \/ ScriptFails

\* The poll ticks, rpcd answers, the browser delivers; a script that is asked
\* for often enough is loaded, since only MaxEvents attempts fail.
Fairness ==
  /\ WF_vars(Tick) /\ WF_vars(ScriptLoaded)
  /\ \A s \in Slots : WF_vars(Serve(s)) /\ WF_calls(Arrives(s))

Spec == Init /\ [][Next]_vars /\ Fairness

-----------------------------------------------------------------------------
(* Properties.                                                             *)

\* Every table that exists is on the page, and nothing is on the page that no
\* later refresh would update or remove (status.js:30-31, 177-231, 317-377).
TablesOnPage ==
  \A t \in Tables : tbl[t] # None <=> box[t] = "table"

\* The page shows one section for each OSPF protocol of the last reply and no
\* other, through protocols that come and go and a BIRD that goes down
\* (status.js:233-287, 369-376).
SectionsOnPage ==
  \A p \in Protos :
    ospfBox[p] = IF last \in AllReports /\ p \in last.ospf THEN 1 ELSE 0

\* Of tables and sections, what the page's variables hold and what the page shows
\* agree.  The drawing is left out: there they do not, see DrawingLost.
PageMatches == TablesOnPage /\ SectionsOnPage

\* All parts of the page are of one reply: a refresh leaves nothing of an
\* earlier one behind (status.js:379-392).
OneReply ==
  /\ \A t \in Tables : tbl[t] \in {None, last}
  /\ \A p \in Protos : ospfSections[p] \in {None, last}
  /\ box["daemon"] = "unreachable" <=> last = Down

\* The graph on the page is the graph of the last reply (status.js:428-480,
\* 521-554), as IsAsGraph defines it.
GraphRight ==
  topoBox = "net" => last \in AllReports /\ IsAsGraph(topoNet, last)

\* The box of the drawing was emptied, or an error put into it, while the network
\* is kept: later refreshes give the network its data, and nothing puts it back
\* into the box (status.js:373, 531, 537, 552 against 546-549).  So the topology
\* stays away after the first outage, until the page is loaded again.
DrawingLost == topoNet # None /\ topoBox # "net"

\* What the page shows of BIRD: its tables and sections ...
TablesShow(r) ==
  /\ \A t \in Tables : IF Hidden(t, r) THEN box[t] = "empty"
                      ELSE box[t] = "table" /\ tbl[t] = r
  /\ \A p \in Protos : IF p \in r.ospf THEN ospfBox[p] = 1 /\ ospfSections[p] = r
                      ELSE ospfBox[p] = 0

\* ... and its AS graph, if there is a script to draw it and something to draw.
TopoShows(r) ==
  IF vis /\ ~TooSmall(BuildAsGraph(r))
  THEN DrawingLost \/ (topoBox = "net" /\ topoNet = BuildAsGraph(r))
  ELSE topoBox = "empty"

UnreachableShows ==
  /\ \A t \in Tables : box[t] = IF t = "daemon" THEN "unreachable" ELSE "empty"
  /\ \A p \in Protos : ospfBox[p] = 0
  /\ topoBox = "empty"

\* Once BIRD does not change any more the page comes to show what it reports, in
\* every table and section and in the drawing, unless the drawing is lost: in
\* whatever order the replies came, after outages, with protocols that came and
\* went in between, and however often the script failed before it was loaded
\* (status.js:362-392, 402-424, 521-554).
Settles ==
  <>[](IF server = Down THEN UnreachableShows ELSE TablesShow(server) /\ TopoShows(server))

=============================================================================
