---------------------------- MODULE ExplorerPages ----------------------------
(***************************************************************************)
(* The pages of the explorer that show the channels' blocks: the dashboard *)
(* with one figure per panel, the tables of blocks and transactions, and   *)
(* the lists of what the network consists of.  The user selects a channel; *)
(* every selection sends new requests and cancels none.  Behind the pages, *)
(* the queries of the service on ledgers that grow meanwhile, each through *)
(* the one manager of the process: while requests for several channels are *)
(* at the service, a request may be served by another channel's.  The page *)
(* is the only caller of the service.                                      *)
(***************************************************************************)
EXTENDS Integers, FiniteSets, SequencesExt

CONSTANTS Channels,
          Default,      \* the channel that is selected first
          Pages,        \* pages that are visited: tables, kinds, "dashboard" or "info"
          Panels,       \* panels of the dashboard
          Names,        \* what the network configuration names, by kind
          Blank,        \* nothing to show: "-", or an empty field
          Refused,      \* the service answers that the request failed
          Before,       \* the blocks of each channel before the page is opened
          MaxHeight,    \* bound on the blocks of a channel
          MaxEvents     \* bound on the selections and failures together

Tables == {"blocks", "transactions"}
Kinds == {"orderers", "peers", "cas", "channels"}

ASSUME ExplorerAssumption ==
  /\ Default \in Channels
  /\ Before \in [Channels -> Seq(1..2)]
  /\ Pages \subseteq Tables \union Kinds \union {"dashboard", "info"}
  /\ Panels \subseteq Kinds \union Tables \union {"enterprises", "chaincodes"}
  /\ \A kind \in Kinds : IsFiniteSet(Names[kind])

VARIABLES page,        \* the page that is open
          ledger,      \* the blocks of each channel, as numbers of transactions
          instance,    \* the manager: the channel it is bound to, and its label
          adrift,      \* requests given up by the page, which the service may serve
          racing,      \* channels whose managers may be obtained by any request
          selected,    \* the channel
          round,       \* how often a channel was selected
          open,        \* requests without answer: panel, channel, round
          replies,     \* answers on their way
          figures,     \* what each panel shows
          rows,        \* what the table or the list shows
          info,        \* per part of the answer to queryBlockchainInfo, the height then
          overtaken,   \* history: panels where an answer came after a newer one
          failed,      \* history: panels and rounds that got no answer
          overlapped,  \* history: what was still on its way at the last selection
          grown        \* history: a block was committed since the last selection

server == <<ledger, info, instance, adrift, racing>>
shown == <<figures, rows>>
history == <<overtaken, failed, overlapped, grown>>
vars == <<page, server, selected, round, open, replies, shown, history>>

Request(panel, channel, n) == [panel |-> panel, channel |-> channel, round |-> n]
Manager(bound, label) == [bound |-> bound, label |-> label]

PanelsOf(p) == IF p = "dashboard" THEN Panels ELSE IF p = "info" THEN {} ELSE {p}

Init == /\ page \in Pages
        /\ ledger = Before
        /\ instance = Manager(Blank, Blank)
        /\ adrift = {} /\ racing = {}
        /\ selected = Default
        /\ round = 0
        /\ open = {Request(p, Default, 0) : p \in PanelsOf(page)}
        /\ replies = {}
        /\ figures = [p \in PanelsOf(page) |-> Blank]
        /\ rows = <<>>
        /\ info = <<>>
        /\ overtaken = {} /\ failed = {}
        /\ overlapped = {} /\ grown = FALSE

-----------------------------------------------------------------------------
(* The service.                                                            *)

(* The channels are numbered one by one, each removed from a copy.         *)
Numbered(names) == SetToSeq(names)

(* Requests at the service, and the channels whose managers may be around  *)
(* while requests for a channel go there as well.                          *)
AtService == open \union adrift
Around(channel) == racing \union {q.channel : q \in AtService} \union {channel}
                     \union ({instance.bound} \ {Blank})

(* Mutant: the manager that is there serves every channel.                 *)
obtainAny(channel) ==
  IF racing # {} THEN {Manager(c, label) : c, label \in racing}
  ELSE IF instance.label # Blank THEN {instance} ELSE {Manager(channel, channel)}

(* The managers that a call for a channel may be given, or leave behind:   *)
(* the present one if it has the channel's label, else a new one; anything *)
(* of the channels in question while they replace each other's.            *)
obtain(channel) ==
  IF racing # {} THEN {Manager(c, label) : c, label \in racing}
  ELSE IF instance.label = channel THEN {instance} ELSE {Manager(channel, channel)}

(* The transactions of all blocks; a block never changes, so the height at *)
(* the start of the loop decides.                                          *)
Total(blocks) == FoldLeft(LAMBDA sum, n : sum + n, 0, blocks)

(* What the service answers to a panel.  Tables ask for the height.        *)
getAmount(panel, channel) ==
  CASE panel = "channels" -> Numbered(Names["channels"])
    [] panel \in Kinds \ {"channels"} -> SetToSeq(Names[panel])
    [] panel = "enterprises" -> 1
    [] panel = "chaincodes" -> Cardinality(Names["channels"])
    [] panel = "transactions" /\ page = "dashboard" -> Total(ledger[channel])
    [] panel = "blocks" \/ page = "transactions" -> Len(ledger[channel])

(* The service is done with a request.  One that fails may have failed in  *)
(* building a manager.  Which manager stays of those that replace each     *)
(* other's is left open until the last request is done.                    *)
Leave(r, ok) ==
  /\ instance' \in IF racing # {} /\ AtService # {r} THEN {instance}
                  ELSE obtain(r.channel) \union (IF ok THEN {} ELSE {instance})
  /\ racing' = IF AtService = {r} THEN {} ELSE racing

MayHappen == round + Cardinality(failed) < MaxEvents

Serve == \E r \in open, ok \in {TRUE, ~ MayHappen} : \E m \in obtain(r.channel) :
           /\ open' = open \ {r}
           /\ replies' = replies \union
                {[request |-> r, value |-> IF ok THEN getAmount(r.panel, m.bound) ELSE Refused]}
           /\ Leave(r, ok)
           /\ UNCHANGED <<page, ledger, info, adrift, selected, round, shown, history>>

(* A request that the page gave up is done with, or will never come.       *)
ServeAdrift == \E r \in adrift :
                 /\ adrift' = adrift \ {r}
                 /\ Leave(r, FALSE)
                 /\ UNCHANGED <<page, ledger, info, selected, round, open, replies, shown,
                                history>>

Commit == \E c \in Channels, n \in 1..2 :
            /\ Len(ledger[c]) < MaxHeight
            /\ ledger' = [ledger EXCEPT ![c] = Append(@, n)]
            /\ grown' = TRUE
            /\ UNCHANGED <<page, info, instance, adrift, racing, selected, round, open,
                           replies, shown, overtaken, failed, overlapped>>

InfoParts == <<"height", "currentBlockHash", "previousBlockHash">>

(* Mutant: the height is asked for last.                                   *)
ReadInfoHeightLast ==
  /\ page = "info" /\ Cardinality(DOMAIN info) < 3
  /\ LET parts == <<"currentBlockHash", "previousBlockHash", "height">>
         part == parts[Cardinality(DOMAIN info) + 1] IN
     info' = [p \in DOMAIN info \union {part} |->
                IF p = part THEN Len(ledger[selected]) ELSE info[p]]
  /\ instance' = Manager(selected, selected)
  /\ UNCHANGED <<page, ledger, adrift, racing, selected, round, open, replies, shown, history>>

(* Three queries, one after another, through the channel's manager, which  *)
(* no other request replaces; each finds the ledger it finds.              *)
ReadInfo ==
  /\ page = "info" /\ Cardinality(DOMAIN info) < 3
  /\ LET part == InfoParts[Cardinality(DOMAIN info) + 1] IN
     info' = [p \in DOMAIN info \union {part} |->
                IF p = part THEN Len(ledger[selected]) ELSE info[p]]
  /\ instance' = Manager(selected, selected)
  /\ UNCHANGED <<page, ledger, adrift, racing, selected, round, open, replies, shown, history>>

-----------------------------------------------------------------------------
(* The pages.                                                              *)
Waiting == open # {} \/ replies # {}

OnTheWay == {x \in {"requests", "answers"} : IF x = "requests" THEN AtService # {}
                                             ELSE replies # {}}

(* Mutants: one panel is forgotten; the table is not emptied.              *)
SelectSome ==
  \E c \in Channels \ {selected} :
    /\ page \in Tables \union {"dashboard"}
    /\ MayHappen
    /\ selected' = c /\ round' = round + 1
    /\ open' = open \union {Request(p, c, round + 1) : p \in PanelsOf(page)
                           \ (IF page = "dashboard" THEN {"transactions"} ELSE {})}
    /\ racing' = IF AtService = {} THEN {} ELSE Around(c)
    /\ rows' = <<>>
    /\ overlapped' = OnTheWay
    /\ grown' = FALSE
    /\ UNCHANGED <<page, ledger, info, instance, adrift, replies, figures, overtaken, failed>>
SelectKeepsRows ==
  \E c \in Channels \ {selected} :
    /\ page \in Tables \union {"dashboard"}
    /\ MayHappen
    /\ selected' = c /\ round' = round + 1
    /\ open' = open \union {Request(p, c, round + 1) : p \in PanelsOf(page)}
    /\ racing' = IF AtService = {} THEN {} ELSE Around(c)
    /\ overlapped' = OnTheWay
    /\ grown' = FALSE
    /\ UNCHANGED <<page, ledger, info, instance, adrift, replies, shown, overtaken, failed>>

(* The user selects another channel: a table is emptied at once, figures   *)
(* stay until they are answered.  Requests that are still at the service   *)
(* now compete with those for the new channel.                             *)
Select == \E c \in Channels \ {selected} :
            /\ page \in Tables \union {"dashboard"}
            /\ MayHappen
            /\ selected' = c /\ round' = round + 1
            /\ open' = open \union {Request(p, c, round + 1) : p \in PanelsOf(page)}
            /\ racing' = IF AtService = {} THEN {} ELSE Around(c)
            /\ rows' = <<>>
            /\ overlapped' = OnTheWay
            /\ grown' = FALSE
            /\ UNCHANGED <<page, ledger, info, instance, adrift, replies, figures,
                           overtaken, failed>>

(* No answer comes, or none within the time.                               *)
Lose == \E r \in open :
          /\ MayHappen
          /\ open' = open \ {r}
          /\ adrift' = adrift \union {r}
          /\ failed' = failed \union {<<r.panel, r.round>>}
          /\ figures' = [figures EXCEPT ![r.panel] = Blank]
          /\ UNCHANGED <<page, ledger, info, instance, racing, selected, round, replies, rows,
                         overtaken, overlapped, grown>>

(* What a table shows of block n, read from a channel: a row, or one for   *)
(* each transaction.                                                       *)
Lines(channel, n) ==
  IF page = "blocks" THEN << <<channel, n>> >>
  ELSE [j \in 1..ledger[channel][n + 1] |-> <<channel, n, j>>]

(* The rows for the blocks below a height, newest first, block n read from *)
(* from[n]: a missing block is a row without contents in the table of      *)
(* blocks, and nothing in that of transactions.                            *)
RowsOf(height, from, missing) ==
  LET below[n \in 0..height] ==
        IF n = 0 THEN <<>>
        ELSE (IF n - 1 \notin missing THEN Lines(from[n - 1], n - 1)
              ELSE IF page = "blocks" THEN <<Blank>> ELSE <<>>) \o below[n - 1]
  IN below[height]

Figure(r, value) == [channel |-> r.channel, round |-> r.round, value |-> value]

(* The page asks for the blocks one after the other, and waits for each.   *)
(* Its requests are served by the channel's manager, or by any if requests *)
(* that race with them are at the service.  A block is missing if the      *)
(* request fails or the channel that is read has no such block; if an      *)
(* answer is lost, the height is blanked as well.                          *)
FillTable(r, height) ==
  LET mixed == racing # {} \/ \E q \in AtService : q.channel # r.channel
      some == IF mixed THEN Around(r.channel) ELSE {m.bound : m \in obtain(r.channel)}
  IN
  \E from \in [0..(height - 1) -> some], refused \in IF MayHappen THEN SUBSET (0..(height - 1)) ELSE {{}} :
    LET missing == refused \union {n \in 0..(height - 1) : Len(ledger[from[n]]) <= n} IN
    /\ rows' = rows \o RowsOf(height, from, missing)
    /\ \E lost \in IF refused = {} THEN {FALSE} ELSE BOOLEAN :
         figures' = [figures EXCEPT ![r.panel] = IF lost THEN Blank ELSE Figure(r, height)]
    /\ failed' = IF missing = {} THEN failed ELSE failed \union {<<r.panel, r.round>>}
    /\ racing' = IF mixed THEN some ELSE {}
    /\ instance' \in IF mixed THEN {instance}
                    ELSE obtain(r.channel) \union
                           (IF refused = 0..(height - 1) THEN {instance} ELSE {})

Newer(r) == {q \in open \union {reply.request : reply \in replies} :
               q.panel = r.panel /\ q.round > r.round}

(* A refusal leaves a figure as it was: its result is not defined.         *)
Receive ==
  \E reply \in replies :
    LET r == reply.request
        v == reply.value
    IN
    /\ replies' = replies \ {reply}
    /\ overtaken' = IF r.round < round /\ Newer(r) = {} THEN overtaken \union {r.panel}
                    ELSE overtaken
    /\ \/ /\ v = Refused
          /\ failed' = failed \union {<<r.panel, r.round>>}
          /\ UNCHANGED <<shown, instance, racing>>
       \/ /\ v # Refused /\ page \in Tables
          /\ FillTable(r, v)
       \/ /\ v # Refused /\ page \notin Tables
          /\ figures' = [figures EXCEPT ![r.panel] = Figure(r, v)]
          /\ rows' = IF page \in Kinds THEN rows \o v ELSE rows
          /\ UNCHANGED <<failed, instance, racing>>
    /\ UNCHANGED <<page, ledger, info, adrift, selected, round, open, overlapped, grown>>

Next == Serve \/ ServeAdrift \/ Commit \/ ReadInfo \/ Select \/ Lose \/ Receive

Spec == Init /\ [][Next]_vars

-----------------------------------------------------------------------------
(* A page at rest shows figures of an earlier selection only where the     *)
(* last request got no answer or an older answer came after it             *)
(* (dashboard.js:11-20, no request is cancelled).                          *)
FiguresOfSelected ==
  ~ Waiting =>
    \A p \in DOMAIN figures :
      figures[p] # Blank /\ figures[p].round # round =>
        p \in overtaken \/ <<p, round>> \in failed

(* At rest the figures for blocks and for transactions are of one ledger,  *)
(* the selected channel's, although they are asked for separately and pass *)
(* through a manager that all channels share: if no block came in between, *)
(* no earlier request was still at the service when the channel was        *)
(* selected, and no wrong label has stayed from such a race                *)
(* (FabricManager.java:176-191, B2csmManager.java:23-27).                  *)
FiguresAddUp ==
  ~ Waiting /\ ~ grown /\ "requests" \notin overlapped /\ instance.bound = instance.label
  /\ Tables \subseteq DOMAIN figures =>
    LET b == figures["blocks"]
        t == figures["transactions"] IN
      b # Blank /\ t # Blank /\ b.round = round /\ t.round = round =>
        /\ b.value = Len(ledger[selected])
        /\ t.value = Cardinality({p \in (1..b.value) \X (1..2) : p[2] <= ledger[selected][p[1]]})

(* What a table is about: the blocks below a height, or the transactions   *)
(* in them; and how its rows are ordered.                                  *)
Entries(height) ==
  IF page = "blocks" THEN {<<selected, n>> : n \in 0..(height - 1)}
  ELSE UNION {{<<selected, n, j>> : j \in 1..ledger[selected][n + 1]} : n \in 0..(height - 1)}

Above(x, y) == \/ x[2] > y[2]
               \/ page = "transactions" /\ x[2] = y[2] /\ x[3] < y[3]

(* A table at rest lists the blocks of the selected channel, or all their  *)
(* transactions, each once and the newest block first, up to the height    *)
(* the channel has if it did not grow, unless the selection overlapped     *)
(* with earlier requests, a request failed or a wrong label stayed         *)
(* (blocks.js:5-8, 31-48, transactions.js:30-62); a list names each part   *)
(* of the network once (FabricManager.java:163-174).                       *)
TablesAreWhole ==
  ~ Waiting /\ overlapped = {} /\ <<page, round>> \notin failed
  /\ instance.bound = instance.label =>
    /\ page \in Tables =>
         /\ ToSet(rows) = Entries(figures[page].value)
         /\ \A i, k \in DOMAIN rows : i < k => Above(rows[i], rows[k])
         /\ ~ grown => figures[page].value = Len(ledger[selected])
    /\ page \in Kinds =>
         ToSet(rows) = Names[page] /\ Len(rows) = Cardinality(Names[page])

(* The hashes in the answer to queryBlockchainInfo are never older than    *)
(* its height (TempChannel.java:153-156).                                  *)
HashesNotOlder ==
  DOMAIN info = ToSet(InfoParts) => /\ info.height <= info.currentBlockHash
                                    /\ info.currentBlockHash <= info.previousBlockHash
===============================================================================
