------------------------ MODULE ServerRegistryProofs ------------------------
(***************************************************************************)
(* What holds of the registry for every set of keys and of commands: the   *)
(* inductive invariant Inv of ServerRegistry, action by action, and the    *)
(* safety properties it contains or implies.                               *)
(***************************************************************************)
EXTENDS ServerRegistry, TLAPS

\* The commands' names are apart from each other and from None.
LEMMA Names ==
    /\ None \notin Starts /\ None \notin Stops /\ None \notin Keys
    /\ Starts \cap Stops = {}
    /\ Starts \subseteq Commands /\ Stops \subseteq Commands
    /\ Commands \subseteq Starts \cup Stops
BY CommandsAssumption DEF Commands

\* Every place a command goes to is one of Points, and says whether it holds.
LEMMA PointsListed ==
    /\ \A p \in Holding : p \in Points
    /\ \A p \in {"idle", "launching", "done"} : p \in Points /\ p \notin Holding
    /\ \A p \in {"initializing", "inserting", "discarding", "closing"} :
          p \in Holding
BY DEF Points, Holding

\* A command that goes on keeps pc and hand in step.
LEMMA GotoTypes ==
    ASSUME TypeOK, NEW c \in Commands, NEW p \in Points,
           NEW s \in Starts \cup {None}, s # None <=> p \in Holding,
           Goto(c, p, s)
    PROVE  /\ pc' \in [Commands -> Points]
           /\ hand' \in [Commands -> Starts \cup {None}]
           /\ \A d \in Commands : hand'[d] # None <=> pc'[d] \in Holding
BY DEF TypeOK, Goto

\* The initial state: nothing is launched, registered or in hand.
LEMMA InitInv == Init => Inv
BY Names, PointsListed DEF Init, Inv, TypeOK, OneOwner, NoneAbandoned,
       ReplyIsOfKey, OwnInHand, LaunchedFirst, KeysAgree, SweepCovers,
       Owned, Alive

-----------------------------------------------------------------------------
(* One lemma per action.                                                   *)

\* A start that reuses a server takes charge of nothing.
LEMMA ReuseKeeps ==
    ASSUME Inv, NEW t \in Starts, Reuse(t)
    PROVE  Inv'
<1>1. TypeOK'
    <2>1. "done" \in Points /\ (None # None <=> "done" \in Holding)
        BY Names, PointsListed
    <2>2. Goto(t, "done", None)
        BY DEF Reuse
    <2>3. /\ pc' \in [Commands -> Points]
          /\ hand' \in [Commands -> Starts \cup {None}]
          /\ \A d \in Commands : hand'[d] # None <=> pc'[d] \in Holding
        BY Names, <2>1, <2>2, GotoTypes DEF Inv
    <2> QED
        BY Names, <2>3 DEF Inv, TypeOK, Reuse, Goto, servers, closing
<1>2. OneOwner'
    BY Names DEF Inv, TypeOK, OneOwner, OwnInHand, LaunchedFirst, Owned,
       Goto, servers, closing, Reuse
<1>3. NoneAbandoned'
    BY Names, PointsListed DEF Inv, TypeOK, NoneAbandoned, Owned,
       OwnInHand, Goto, servers, closing, Reuse
<1>4. ReplyIsOfKey'
    BY Names DEF Inv, TypeOK, ReplyIsOfKey, KeysAgree, Goto, servers,
       closing, Reuse
<1>5. OwnInHand'
    BY Names DEF Inv, TypeOK, OwnInHand, Goto, servers, closing, Reuse
<1>6. LaunchedFirst'
    BY Names DEF Inv, TypeOK, LaunchedFirst, OwnInHand, Owned, Goto,
       servers, closing, Reuse
<1>7. KeysAgree'
    BY Names DEF Inv, TypeOK, KeysAgree, LaunchedFirst, OwnInHand, Owned,
       Goto, servers, closing, Reuse
<1>8. SweepCovers'
    BY Names DEF Inv, TypeOK, SweepCovers, NoneAbandoned, Owned, OwnInHand,
       Alive, Underway, Registered, InHand, Goto, servers, closing, Reuse
<1> QED
    BY <1>1, <1>2, <1>3, <1>4, <1>5, <1>6, <1>7, <1>8 DEF Inv

\* A start that finds no server has still launched nothing.
LEMMA MissKeeps ==
    ASSUME Inv, NEW t \in Starts, Miss(t)
    PROVE  Inv'
<1>1. TypeOK'
    <2>1. "launching" \in Points /\ (None # None <=> "launching" \in Holding)
        BY Names, PointsListed
    <2>2. Goto(t, "launching", None)
        BY DEF Miss
    <2>3. /\ pc' \in [Commands -> Points]
          /\ hand' \in [Commands -> Starts \cup {None}]
          /\ \A d \in Commands : hand'[d] # None <=> pc'[d] \in Holding
        BY Names, <2>1, <2>2, GotoTypes DEF Inv
    <2> QED
        BY Names, <2>3 DEF Inv, TypeOK, Miss, Goto, servers, closing
<1>2. OneOwner'
    BY Names DEF Inv, TypeOK, OneOwner, OwnInHand, LaunchedFirst, Owned,
       Goto, servers, closing, Miss
<1>3. NoneAbandoned'
    BY Names, PointsListed DEF Inv, TypeOK, NoneAbandoned, Owned,
       OwnInHand, Goto, servers, closing, Miss
<1>4. ReplyIsOfKey'
    BY Names DEF Inv, TypeOK, ReplyIsOfKey, KeysAgree, Goto, servers,
       closing, Miss
<1>5. OwnInHand'
    BY Names DEF Inv, TypeOK, OwnInHand, Goto, servers, closing, Miss
<1>6. LaunchedFirst'
    BY Names DEF Inv, TypeOK, LaunchedFirst, OwnInHand, Owned, Goto,
       servers, closing, Miss
<1>7. KeysAgree'
    BY Names DEF Inv, TypeOK, KeysAgree, LaunchedFirst, OwnInHand, Owned,
       Goto, servers, closing, Miss
<1>8. SweepCovers'
    BY Names DEF Inv, TypeOK, SweepCovers, NoneAbandoned, Owned, OwnInHand,
       Alive, Underway, Registered, InHand, Goto, servers, closing, Miss
<1> QED
    BY <1>1, <1>2, <1>3, <1>4, <1>5, <1>6, <1>7, <1>8 DEF Inv

\* A refused start launched nothing.
LEMMA RefuseKeeps ==
    ASSUME Inv, NEW t \in Starts, Refuse(t)
    PROVE  Inv'
<1>1. TypeOK'
    <2>1. "done" \in Points /\ (None # None <=> "done" \in Holding)
        BY Names, PointsListed
    <2>2. Goto(t, "done", None)
        BY DEF Refuse
    <2>3. /\ pc' \in [Commands -> Points]
          /\ hand' \in [Commands -> Starts \cup {None}]
          /\ \A d \in Commands : hand'[d] # None <=> pc'[d] \in Holding
        BY Names, <2>1, <2>2, GotoTypes DEF Inv
    <2> QED
        BY Names, <2>3 DEF Inv, TypeOK, Refuse, Goto, servers, closing
<1>2. OneOwner'
    BY Names DEF Inv, TypeOK, OneOwner, OwnInHand, LaunchedFirst, Owned,
       Goto, servers, closing, Refuse
<1>3. NoneAbandoned'
    BY Names, PointsListed DEF Inv, TypeOK, NoneAbandoned, Owned,
       OwnInHand, Goto, servers, closing, Refuse
<1>4. ReplyIsOfKey'
    BY Names DEF Inv, TypeOK, ReplyIsOfKey, KeysAgree, Goto, servers,
       closing, Refuse
<1>5. OwnInHand'
    BY Names DEF Inv, TypeOK, OwnInHand, Goto, servers, closing, Refuse
<1>6. LaunchedFirst'
    BY Names DEF Inv, TypeOK, LaunchedFirst, OwnInHand, Owned, Goto,
       servers, closing, Refuse
<1>7. KeysAgree'
    BY Names DEF Inv, TypeOK, KeysAgree, LaunchedFirst, OwnInHand, Owned,
       Goto, servers, closing, Refuse
<1>8. SweepCovers'
    BY Names DEF Inv, TypeOK, SweepCovers, NoneAbandoned, Owned, OwnInHand,
       Alive, Underway, Registered, InHand, Goto, servers, closing, Refuse
<1> QED
    BY <1>1, <1>2, <1>3, <1>4, <1>5, <1>6, <1>7, <1>8 DEF Inv

\* A launched server is in the hands of its start, and of nobody else.
LEMMA LaunchKeeps ==
    ASSUME Inv, NEW t \in Starts, Launch(t)
    PROVE  Inv'
<1>1. TypeOK'
    <2>1. "initializing" \in Points /\ (t # None <=> "initializing" \in Holding)
        BY Names, PointsListed
    <2>2. Goto(t, "initializing", t)
        BY DEF Launch
    <2>3. /\ pc' \in [Commands -> Points]
          /\ hand' \in [Commands -> Starts \cup {None}]
          /\ \A d \in Commands : hand'[d] # None <=> pc'[d] \in Holding
        BY Names, <2>1, <2>2, GotoTypes DEF Inv
    <2> QED
        BY Names, <2>3 DEF Inv, TypeOK, Launch, Goto, closing
<1>2. OneOwner'
    BY Names DEF Inv, TypeOK, OneOwner, OwnInHand, LaunchedFirst, Owned,
       Goto, closing, Launch
<1>3. NoneAbandoned'
    BY Names, PointsListed DEF Inv, TypeOK, NoneAbandoned, Owned,
       OwnInHand, Goto, closing, Launch
<1>4. ReplyIsOfKey'
    BY Names DEF Inv, TypeOK, ReplyIsOfKey, KeysAgree, Goto, closing,
       Launch
<1>5. OwnInHand'
    BY Names DEF Inv, TypeOK, OwnInHand, Goto, closing, Launch
<1>6. LaunchedFirst'
    BY Names DEF Inv, TypeOK, LaunchedFirst, OwnInHand, Owned, Goto,
       closing, Launch
<1>7. KeysAgree'
    BY Names DEF Inv, TypeOK, KeysAgree, LaunchedFirst, OwnInHand, Owned,
       Goto, closing, Launch
<1>8. SweepCovers'
    BY Names DEF Inv, TypeOK, SweepCovers, NoneAbandoned, Owned, OwnInHand,
       Alive, Underway, Registered, InHand, Goto, closing, Launch
<1> QED
    BY <1>1, <1>2, <1>3, <1>4, <1>5, <1>6, <1>7, <1>8 DEF Inv

\* An initialized server stays in its start's hands.
LEMMA InitializedKeeps ==
    ASSUME Inv, NEW t \in Starts, Initialized(t)
    PROVE  Inv'
<1>1. TypeOK'
    <2>1. "inserting" \in Points /\ (t # None <=> "inserting" \in Holding)
        BY Names, PointsListed
    <2>2. Goto(t, "inserting", t)
        BY DEF Initialized
    <2>3. /\ pc' \in [Commands -> Points]
          /\ hand' \in [Commands -> Starts \cup {None}]
          /\ \A d \in Commands : hand'[d] # None <=> pc'[d] \in Holding
        BY Names, <2>1, <2>2, GotoTypes DEF Inv
    <2> QED
        BY Names, <2>3 DEF Inv, TypeOK, Initialized, Goto, servers,
           closing
<1>2. OneOwner'
    BY Names DEF Inv, TypeOK, OneOwner, OwnInHand, LaunchedFirst, Owned,
       Goto, servers, closing, Initialized
<1>3. NoneAbandoned'
    BY Names, PointsListed DEF Inv, TypeOK, NoneAbandoned, Owned,
       OwnInHand, Goto, servers, closing, Initialized
<1>4. ReplyIsOfKey'
    BY Names DEF Inv, TypeOK, ReplyIsOfKey, KeysAgree, Goto, servers,
       closing, Initialized
<1>5. OwnInHand'
    BY Names DEF Inv, TypeOK, OwnInHand, Goto, servers, closing,
       Initialized
<1>6. LaunchedFirst'
    BY Names DEF Inv, TypeOK, LaunchedFirst, OwnInHand, Owned, Goto,
       servers, closing, Initialized
<1>7. KeysAgree'
    BY Names DEF Inv, TypeOK, KeysAgree, LaunchedFirst, OwnInHand, Owned,
       Goto, servers, closing, Initialized
<1>8. SweepCovers'
    BY Names DEF Inv, TypeOK, SweepCovers, NoneAbandoned, Owned, OwnInHand,
       Alive, Underway, Registered, InHand, Goto, servers, closing,
       Initialized
<1> QED
    BY <1>1, <1>2, <1>3, <1>4, <1>5, <1>6, <1>7, <1>8 DEF Inv

\* A server that failed to initialize stays in its start's hands.
LEMMA InitializeFailsKeeps ==
    ASSUME Inv, NEW t \in Starts, InitializeFails(t)
    PROVE  Inv'
<1>1. TypeOK'
    <2>1. "discarding" \in Points /\ (t # None <=> "discarding" \in Holding)
        BY Names, PointsListed
    <2>2. Goto(t, "discarding", t)
        BY DEF InitializeFails
    <2>3. /\ pc' \in [Commands -> Points]
          /\ hand' \in [Commands -> Starts \cup {None}]
          /\ \A d \in Commands : hand'[d] # None <=> pc'[d] \in Holding
        BY Names, <2>1, <2>2, GotoTypes DEF Inv
    <2> QED
        BY Names, <2>3 DEF Inv, TypeOK, InitializeFails, Goto, servers,
           closing
<1>2. OneOwner'
    BY Names DEF Inv, TypeOK, OneOwner, OwnInHand, LaunchedFirst, Owned,
       Goto, servers, closing, InitializeFails
<1>3. NoneAbandoned'
    BY Names, PointsListed DEF Inv, TypeOK, NoneAbandoned, Owned,
       OwnInHand, Goto, servers, closing, InitializeFails
<1>4. ReplyIsOfKey'
    BY Names DEF Inv, TypeOK, ReplyIsOfKey, KeysAgree, Goto, servers,
       closing, InitializeFails
<1>5. OwnInHand'
    BY Names DEF Inv, TypeOK, OwnInHand, Goto, servers, closing,
       InitializeFails
<1>6. LaunchedFirst'
    BY Names DEF Inv, TypeOK, LaunchedFirst, OwnInHand, Owned, Goto,
       servers, closing, InitializeFails
<1>7. KeysAgree'
    BY Names DEF Inv, TypeOK, KeysAgree, LaunchedFirst, OwnInHand, Owned,
       Goto, servers, closing, InitializeFails
<1>8. SweepCovers'
    BY Names DEF Inv, TypeOK, SweepCovers, NoneAbandoned, Owned, OwnInHand,
       Alive, Underway, Registered, InHand, Goto, servers, closing,
       InitializeFails
<1> QED
    BY <1>1, <1>2, <1>3, <1>4, <1>5, <1>6, <1>7, <1>8 DEF Inv

\* Registering a server takes charge of the one it replaces.
LEMMA InsertKeeps ==
    ASSUME Inv, NEW t \in Starts, Insert(t)
    PROVE  Inv'
<1>1. TypeOK'
    BY Names, PointsListed DEF Inv, TypeOK, Goto, servers, closing, Insert
<1>2. OneOwner'
    BY Names DEF Inv, TypeOK, OneOwner, OwnInHand, LaunchedFirst, Owned,
       Goto, servers, closing, Insert
<1>3. NoneAbandoned'
    BY Names, PointsListed DEF Inv, TypeOK, NoneAbandoned, Owned,
       OwnInHand, Goto, servers, closing, Insert
<1>4. ReplyIsOfKey'
    BY Names DEF Inv, TypeOK, ReplyIsOfKey, KeysAgree, Goto, servers,
       closing, Insert
<1>5. OwnInHand'
    BY Names DEF Inv, TypeOK, OwnInHand, Goto, servers, closing, Insert
<1>6. LaunchedFirst'
    BY Names DEF Inv, TypeOK, LaunchedFirst, OwnInHand, Owned, Goto,
       servers, closing, Insert
<1>7. KeysAgree'
    BY Names DEF Inv, TypeOK, KeysAgree, LaunchedFirst, OwnInHand, Owned,
       Goto, servers, closing, Insert
<1>8. SweepCovers'
    BY Names DEF Inv, TypeOK, SweepCovers, NoneAbandoned, Owned, OwnInHand,
       Alive, Underway, Registered, InHand, Goto, servers, closing, Insert
<1> QED
    BY <1>1, <1>2, <1>3, <1>4, <1>5, <1>6, <1>7, <1>8 DEF Inv

\* A stop takes charge of the server it removes.
LEMMA RemoveKeeps ==
    ASSUME Inv, NEW c \in Stops, Remove(c)
    PROVE  Inv'
<1>1. TypeOK'
    BY Names, PointsListed DEF Inv, TypeOK, Goto, servers, closing, Remove
<1>2. OneOwner'
    BY Names DEF Inv, TypeOK, OneOwner, OwnInHand, LaunchedFirst, Owned,
       Goto, servers, closing, Remove
<1>3. NoneAbandoned'
    BY Names, PointsListed DEF Inv, TypeOK, NoneAbandoned, Owned,
       OwnInHand, Goto, servers, closing, Remove
<1>4. ReplyIsOfKey'
    BY Names DEF Inv, TypeOK, ReplyIsOfKey, KeysAgree, Goto, servers,
       closing, Remove
<1>5. OwnInHand'
    BY Names DEF Inv, TypeOK, OwnInHand, Goto, servers, closing, Remove
<1>6. LaunchedFirst'
    BY Names DEF Inv, TypeOK, LaunchedFirst, OwnInHand, Owned, Goto,
       servers, closing, Remove
<1>7. KeysAgree'
    BY Names DEF Inv, TypeOK, KeysAgree, LaunchedFirst, OwnInHand, Owned,
       Goto, servers, closing, Remove
<1>8. SweepCovers'
    BY Names DEF Inv, TypeOK, SweepCovers, NoneAbandoned, Owned, OwnInHand,
       Alive, Underway, Registered, InHand, Goto, servers, closing, Remove
<1> QED
    BY <1>1, <1>2, <1>3, <1>4, <1>5, <1>6, <1>7, <1>8 DEF Inv

\* A command lets go only of a server that has ended.
LEMMA ShutDownKeeps ==
    ASSUME Inv, NEW c \in Commands, ShutDown(c)
    PROVE  Inv'
<1>1. TypeOK'
    <2>1. "done" \in Points /\ (None # None <=> "done" \in Holding)
        BY Names, PointsListed
    <2>2. Goto(c, "done", None)
        BY DEF ShutDown
    <2>3. /\ pc' \in [Commands -> Points]
          /\ hand' \in [Commands -> Starts \cup {None}]
          /\ \A d \in Commands : hand'[d] # None <=> pc'[d] \in Holding
        BY Names, <2>1, <2>2, GotoTypes DEF Inv
    <2> QED
        BY ZenonT(60), Names, <2>3 DEF Inv, TypeOK, ShutDown, Goto, Ended, closing
<1>2. OneOwner'
    BY Names DEF Inv, TypeOK, OneOwner, OwnInHand, LaunchedFirst, Owned,
       Goto, Ended, closing, ShutDown
<1>3. NoneAbandoned'
    BY Names, PointsListed DEF Inv, TypeOK, NoneAbandoned, Owned,
       OwnInHand, Goto, Ended, closing, ShutDown
<1>4. ReplyIsOfKey'
    BY Names DEF Inv, TypeOK, ReplyIsOfKey, KeysAgree, Goto, Ended,
       closing, ShutDown
<1>5. OwnInHand'
    BY Names DEF Inv, TypeOK, OwnInHand, Goto, Ended, closing, ShutDown
<1>6. LaunchedFirst'
    BY Names DEF Inv, TypeOK, LaunchedFirst, OwnInHand, Owned, Goto, Ended,
       closing, ShutDown
<1>7. KeysAgree'
    BY Names DEF Inv, TypeOK, KeysAgree, LaunchedFirst, OwnInHand, Owned,
       Goto, Ended, closing, ShutDown
<1>8. SweepCovers'
    BY Names DEF Inv, TypeOK, SweepCovers, NoneAbandoned, Owned, OwnInHand,
       Alive, Underway, Registered, InHand, Goto, Ended, closing, ShutDown
<1> QED
    BY <1>1, <1>2, <1>3, <1>4, <1>5, <1>6, <1>7, <1>8 DEF Inv

\* stop_all lets go only of a server that has ended.
LEMMA SweepKeeps ==
    ASSUME Inv, NEW s \in Starts, Sweep(s)
    PROVE  Inv'
<1>1. TypeOK'
    BY Names, PointsListed DEF Inv, TypeOK, Ended, Sweep
<1>2. OneOwner'
    BY Names DEF Inv, TypeOK, OneOwner, OwnInHand, LaunchedFirst, Owned,
       Ended, Sweep
<1>3. NoneAbandoned'
    BY Names, PointsListed DEF Inv, TypeOK, NoneAbandoned, Owned,
       OwnInHand, Ended, Sweep
<1>4. ReplyIsOfKey'
    BY Names DEF Inv, TypeOK, ReplyIsOfKey, KeysAgree, Ended, Sweep
<1>5. OwnInHand'
    BY Names DEF Inv, TypeOK, OwnInHand, Ended, Sweep
<1>6. LaunchedFirst'
    BY Names DEF Inv, TypeOK, LaunchedFirst, OwnInHand, Owned, Ended, Sweep
<1>7. KeysAgree'
    BY Names DEF Inv, TypeOK, KeysAgree, LaunchedFirst, OwnInHand, Owned,
       Ended, Sweep
<1>8. SweepCovers'
    BY Names DEF Inv, TypeOK, SweepCovers, NoneAbandoned, Owned, OwnInHand,
       Alive, Underway, Registered, InHand, Ended, Sweep
<1> QED
    BY <1>1, <1>2, <1>3, <1>4, <1>5, <1>6, <1>7, <1>8 DEF Inv

\* A server that ended needs nobody.
LEMMA CrashKeeps ==
    ASSUME Inv, NEW s \in Starts, Crash(s)
    PROVE  Inv'
<1>1. TypeOK'
    BY Names, PointsListed DEF Inv, TypeOK, closing, Crash
<1>2. OneOwner'
    BY Names DEF Inv, TypeOK, OneOwner, OwnInHand, LaunchedFirst, Owned,
       closing, Crash
<1>3. NoneAbandoned'
    BY Names, PointsListed DEF Inv, TypeOK, NoneAbandoned, Owned,
       OwnInHand, closing, Crash
<1>4. ReplyIsOfKey'
    BY Names DEF Inv, TypeOK, ReplyIsOfKey, KeysAgree, closing, Crash
<1>5. OwnInHand'
    BY Names DEF Inv, TypeOK, OwnInHand, closing, Crash
<1>6. LaunchedFirst'
    BY Names DEF Inv, TypeOK, LaunchedFirst, OwnInHand, Owned, closing,
       Crash
<1>7. KeysAgree'
    BY Names DEF Inv, TypeOK, KeysAgree, LaunchedFirst, OwnInHand, Owned,
       closing, Crash
<1>8. SweepCovers'
    BY Names DEF Inv, TypeOK, SweepCovers, NoneAbandoned, Owned, OwnInHand,
       Alive, Underway, Registered, InHand, closing, Crash
<1> QED
    BY <1>1, <1>2, <1>3, <1>4, <1>5, <1>6, <1>7, <1>8 DEF Inv

\* A server that hung up is still its owner's to stop.
LEMMA HangUpKeeps ==
    ASSUME Inv, NEW s \in Starts, HangUp(s)
    PROVE  Inv'
<1>1. TypeOK'
    BY Names, PointsListed DEF Inv, TypeOK, closing, HangUp
<1>2. OneOwner'
    BY Names DEF Inv, TypeOK, OneOwner, OwnInHand, LaunchedFirst, Owned,
       closing, HangUp
<1>3. NoneAbandoned'
    BY Names, PointsListed DEF Inv, TypeOK, NoneAbandoned, Owned,
       OwnInHand, closing, HangUp
<1>4. ReplyIsOfKey'
    BY Names DEF Inv, TypeOK, ReplyIsOfKey, KeysAgree, closing, HangUp
<1>5. OwnInHand'
    BY Names DEF Inv, TypeOK, OwnInHand, closing, HangUp
<1>6. LaunchedFirst'
    BY Names DEF Inv, TypeOK, LaunchedFirst, OwnInHand, Owned, closing,
       HangUp
<1>7. KeysAgree'
    BY Names DEF Inv, TypeOK, KeysAgree, LaunchedFirst, OwnInHand, Owned,
       closing, HangUp
<1>8. SweepCovers'
    BY Names DEF Inv, TypeOK, SweepCovers, NoneAbandoned, Owned, OwnInHand,
       Alive, Underway, Registered, InHand, closing, HangUp
<1> QED
    BY <1>1, <1>2, <1>3, <1>4, <1>5, <1>6, <1>7, <1>8 DEF Inv

\* What was in the map is in the sweep.
LEMMA DrainKeeps ==
    ASSUME Inv, Drain
    PROVE  Inv'
<1>1. TypeOK'
    BY Names, PointsListed DEF Inv, TypeOK, servers, Registered, Underway,
       InHand, Drain
<1>2. OneOwner'
    BY Names DEF Inv, TypeOK, OneOwner, OwnInHand, LaunchedFirst, Owned,
       servers, Registered, Underway, InHand, Drain
<1>3. NoneAbandoned'
    <2> SUFFICES ASSUME NEW s \in Starts, process'[s] = "alive"
                 PROVE  Owned(s)'
        BY DEF NoneAbandoned
    <2>1. Owned(s) /\ s \notin sweep
        BY DEF Inv, NoneAbandoned, SweepCovers, Drain, servers
    <2>2. CASE \E k \in Keys : running[k] = s
        <3>1. s \in Registered
            BY <2>2, Names DEF Registered
        <3> QED
            BY <3>1 DEF Drain, Owned
    <2>3. CASE \E c \in Commands : hand[c] = s
        BY <2>3 DEF Drain, Owned
    <2> QED
        BY <2>1, <2>2, <2>3 DEF Owned
<1>4. ReplyIsOfKey'
    BY Names DEF Inv, TypeOK, ReplyIsOfKey, KeysAgree, servers, Registered,
       Underway, InHand, Drain
<1>5. OwnInHand'
    BY Names DEF Inv, TypeOK, OwnInHand, servers, Registered, Underway,
       InHand, Drain
<1>6. LaunchedFirst'
    BY Names DEF Inv, TypeOK, LaunchedFirst, OwnInHand, Owned, servers,
       Registered, Underway, InHand, Drain
<1>7. KeysAgree'
    BY Names DEF Inv, TypeOK, KeysAgree, LaunchedFirst, OwnInHand, Owned,
       servers, Registered, Underway, InHand, Drain
<1>8. SweepCovers'
    BY Names DEF Inv, TypeOK, SweepCovers, NoneAbandoned, Owned, OwnInHand,
       Alive, Underway, Registered, InHand, servers, Drain
<1> QED
    BY <1>1, <1>2, <1>3, <1>4, <1>5, <1>6, <1>7, <1>8 DEF Inv

\* The app exits when the sweep is over.
LEMMA ExitKeeps ==
    ASSUME Inv, Exit
    PROVE  Inv'
<1>1. TypeOK'
    BY Names, PointsListed DEF Inv, TypeOK, servers, Exit
<1>2. OneOwner'
    BY Names DEF Inv, TypeOK, OneOwner, OwnInHand, LaunchedFirst, Owned,
       servers, Exit
<1>3. NoneAbandoned'
    BY Names, PointsListed DEF Inv, TypeOK, NoneAbandoned, Owned,
       OwnInHand, servers, Exit
<1>4. ReplyIsOfKey'
    BY Names DEF Inv, TypeOK, ReplyIsOfKey, KeysAgree, servers, Exit
<1>5. OwnInHand'
    BY Names DEF Inv, TypeOK, OwnInHand, servers, Exit
<1>6. LaunchedFirst'
    BY Names DEF Inv, TypeOK, LaunchedFirst, OwnInHand, Owned, servers,
       Exit
<1>7. KeysAgree'
    BY Names DEF Inv, TypeOK, KeysAgree, LaunchedFirst, OwnInHand, Owned,
       servers, Exit
<1>8. SweepCovers'
    BY Names DEF Inv, TypeOK, SweepCovers, NoneAbandoned, Owned, OwnInHand,
       Alive, Underway, Registered, InHand, servers, Exit
<1> QED
    BY <1>1, <1>2, <1>3, <1>4, <1>5, <1>6, <1>7, <1>8 DEF Inv

-----------------------------------------------------------------------------
(* The theorems.                                                           *)

\* Every step of the specification keeps the invariant.
LEMMA NextKeeps == Inv /\ [Next]_vars => Inv'
<1> SUFFICES ASSUME Inv, [Next]_vars PROVE Inv'
    OBVIOUS
<1>1. CASE \E t \in Starts : Reuse(t) \/ Miss(t) \/ Refuse(t)
    BY <1>1, ReuseKeeps, MissKeeps, RefuseKeeps
<1>2. CASE \E c \in Stops : Remove(c)
    BY <1>2, RemoveKeeps
<1>3. CASE \E c \in Commands : Proceed(c)
    BY <1>3, LaunchKeeps, InitializedKeeps, InitializeFailsKeeps, InsertKeeps,
       ShutDownKeeps DEF Proceed
<1>4. CASE \E s \in Starts : Sweep(s) \/ Crash(s) \/ HangUp(s)
    BY <1>4, SweepKeeps, CrashKeeps, HangUpKeeps
<1>5. CASE Drain \/ Exit
    BY <1>5, DrainKeeps, ExitKeeps
<1>6. CASE Finished \/ UNCHANGED vars
    BY <1>6 DEF Finished, vars, Inv, TypeOK, OneOwner, NoneAbandoned,
       ReplyIsOfKey, OwnInHand, LaunchedFirst, KeysAgree, SweepCovers, Owned,
       Alive
<1> QED
    BY <1>1, <1>2, <1>3, <1>4, <1>5, <1>6 DEF Next

\* The inductive invariant holds of every behaviour of the registry.
THEOREM InvHolds == Spec => []Inv
<1>1. Init => Inv
    BY InitInv
<1>2. Inv /\ [Next]_vars => Inv'
    BY NextKeeps
<1> QED
    BY <1>1, <1>2, PTL DEF Spec

\* The registry's variables keep their types, and a command has a server in
\* hand exactly where the code holds one in a local variable.
THEOREM TypeCorrect == Spec => []TypeOK
<1>1. Inv => TypeOK
    BY DEF Inv
<1> QED
    BY <1>1, InvHolds, PTL

\* No server is ever in the charge of two (the map, a command, stop_all).
THEOREM OneOwnerHolds == Spec => []OneOwner
<1>1. Inv => OneOwner
    BY DEF Inv
<1> QED
    BY <1>1, InvHolds, PTL

\* No server that runs is ever in the charge of nobody.
THEOREM NoneAbandonedHolds == Spec => []NoneAbandoned
<1>1. Inv => NoneAbandoned
    BY DEF Inv
<1> QED
    BY <1>1, InvHolds, PTL

\* After stop_all nothing runs but what a command had under way.
THEOREM OnlyUnderwayLeftHolds == Spec => []OnlyUnderwayLeft
<1>1. Inv => OnlyUnderwayLeft
    BY DEF Inv, OnlyUnderwayLeft, SweepCovers
<1> QED
    BY <1>1, InvHolds, PTL

\* A start resolves with a server of the key it was called with.
THEOREM ReplyIsOfKeyHolds == Spec => []ReplyIsOfKey
<1>1. Inv => ReplyIsOfKey
    BY DEF Inv
<1> QED
    BY <1>1, InvHolds, PTL

=============================================================================
