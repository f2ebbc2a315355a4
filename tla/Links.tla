-------------------------------- MODULE Links --------------------------------
(***************************************************************************)
(* The links between a browser or a client and the terminal, each on its   *)
(* own: the pipes of a client (HubClients), the pipes of the terminal      *)
(* (TerminalLink), the bridge in the terminal (MarketBridge) and a         *)
(* browser's socket (QuoteWatch).  They share no state here: a behaviour   *)
(* is one of a single link, "part", and the others rest, with everything   *)
(* connected that connects by itself.                                      *)
(***************************************************************************)
EXTENDS HubClients, TerminalLink, MarketBridge, QuoteWatch

VARIABLE part

linksVars == <<part, clientVars, linkVars, bridgeVars, watchVars>>

ClientsRest ==
  /\ session = (CHOOSE k \in Pairs : TRUE) /\ breaks = 0 /\ late = 0
  /\ held = Ends(session) /\ open = held /\ known = held /\ owed = {}
  /\ frames = [p \in Pipes |-> <<>>]
  /\ reader = [p \in Pipes |-> IF p \notin held THEN "ended" ELSE IF p \in Rx THEN "passive" ELSE "reading"]
  /\ closing = [t \in Threads |-> {}]
  /\ rx = [pair |-> session, end |-> "rx"] /\ tx = [pair |-> session, end |-> "tx"] /\ paired = TRUE

LinkRests ==
  /\ losses = 0 /\ behind = 0
  /\ link = (CHOOSE k \in TPairs : TRUE) /\ loop = [at |-> "reading", pair |-> link]
  /\ instance = 1 /\ of = [k \in TPairs |-> 1] /\ mine = TEnds(link)
  /\ hubOpen = mine /\ hello = {} /\ hubKnown = mine
  /\ thread = [p \in TPipes |-> IF p \notin mine THEN "ended" ELSE IF p \in TRx THEN "passive" ELSE "registered"]
  /\ dropping = [t \in TThreads |-> {}] /\ hubClosing = [t \in TThreads |-> {}]
  /\ hubRx = [pair |-> link, end |-> "rx"] /\ hubTx = [pair |-> link, end |-> "tx"]

LinksInit ==
  /\ part \in {"client", "terminal", "bridge", "browser"}
  /\ IF part = "client" THEN ClientsInit ELSE ClientsRest
  /\ IF part = "terminal" THEN LinkInit ELSE LinkRests
  /\ BridgeInit /\ WatchInit

LinksNext ==
  /\ \/ part = "client" /\ ClientsNext /\ UNCHANGED <<linkVars, bridgeVars, watchVars>>
     \/ part = "terminal" /\ LinkNext /\ UNCHANGED <<clientVars, bridgeVars, watchVars>>
     \/ part = "bridge" /\ BridgeNext /\ UNCHANGED <<clientVars, linkVars, watchVars>>
     \/ part = "browser" /\ WatchNext /\ UNCHANGED <<clientVars, linkVars, bridgeVars>>
  /\ UNCHANGED part

LinksSpec == LinksInit /\ [][LinksNext]_linksVars /\ ClientsFairness /\ LinkFairness
=============================================================================
