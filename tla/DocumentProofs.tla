---------------------------- MODULE DocumentProofs ----------------------------
(* Proofs about what is edited, the keys that edit it and taking it back.      *)
(*  - One document of a language server: however many editors show it one     *)
(*    after the other, the server's copy is the text on screen once nothing   *)
(*    is left to send; and when each editor is opened after the one before    *)
(*    was sent to its end, no request is answered from an older text.         *)
(*  - The keys: a chord runs on the strokes of its two steps with nothing in  *)
(*    between, and a menu shows a shortcut that runs its command, for every   *)
(*    set of bindings, user keymap and keyboard layout.                       *)
(*  - Undo: everything undone is the document as its history began, and a     *)
(*    step undone and redone is the document before, for any number of        *)
(*    changes, however they merged, were grouped, undone or given up.         *)
EXTENDS LspDocuments, Keybindings, DocumentHistory, SequenceTheorems, WellFoundedInduction, TLAPS

------------------------------------------------------------------------------
(* One document of a language server (LspDocuments).                          *)

(* The newest notification of a queue, which is sent last. *)
Latest(v) == queue[v][Len(queue[v])]

(* A queue ends in what its editor did last: an editor on screen with no      *)
(* change waiting for a pause has its text there, one that is gone its close. *)
QueueEndsWell(v) ==
    /\ mounted[v] = "no" => queue[v] = <<>>
    /\ v \in timer => mounted[v] = "open"
    /\ mounted[v] = "open" /\ queue[v] # <<>> =>
           Latest(v).what # "close" /\ (v \notin timer => Latest(v).text = text)
    /\ mounted[v] = "destroyed" /\ queue[v] # <<>> => Latest(v).what = "close"

OneOnScreen == \A v, w \in Views : mounted[v] = "open" /\ mounted[w] = "open" => v = w
CopyNeedsServer == copy # NotOpen => server = "up"
CopyFollows == \A v \in OnScreen :
    v \notin timer /\ (\A w \in Views : queue[w] = <<>>) /\ copy # NotOpen => copy = text

LspInv == /\ LspTypeOK
          /\ \A v \in Views : QueueEndsWell(v)
          /\ OneOnScreen /\ CopyNeedsServer /\ CopyFollows

-----------------------------------------------------------------------------
(* The newest element of a queue stays where it is when one is sent, and is   *)
(* the one that joined last.                                                  *)
LEMMA NewestStays ==
    ASSUME NEW S, NEW q \in Seq(S), q # <<>>
    PROVE  /\ Tail(q) \in Seq(S) /\ Head(q) \in S /\ q[Len(q)] \in S
           /\ Tail(q) # <<>> => Tail(q)[Len(Tail(q))] = q[Len(q)]
           /\ Tail(q) = <<>> => Head(q) = q[Len(q)]
<1>1. Len(q) \in Nat /\ Len(q) > 0
  OBVIOUS
<1>2. /\ Tail(q) \in Seq(S) /\ Len(Tail(q)) = Len(q) - 1 /\ Head(q) = q[1]
      /\ q[1] \in S /\ q[Len(q)] \in S
      /\ \A i \in 1..Len(Tail(q)) : Tail(q)[i] = q[i + 1]
  BY <1>1, HeadTailProperties
<1>3. CASE Tail(q) = <<>>
  <2>1. Len(q) = 1
    BY <1>1, <1>2, <1>3
  <2>. QED
    BY <1>2, <1>3, <2>1
<1>4. CASE Tail(q) # <<>>
  <2>1. Len(Tail(q)) > 0
    BY <1>2, <1>4, EmptySeq
  <2>2. Len(Tail(q)) \in 1..Len(Tail(q))
    BY <1>1, <1>2, <2>1
  <2>3. Tail(q)[Len(Tail(q))] = q[Len(Tail(q)) + 1]
    BY <1>2, <2>2
  <2>4. Len(Tail(q)) + 1 = Len(q)
    BY <1>1, <1>2
  <2>. QED
    BY <1>2, <1>4, <2>3, <2>4
<1>. QED
  BY <1>3, <1>4

LEMMA NewestJoins ==
    ASSUME NEW S, NEW q \in Seq(S), NEW e \in S
    PROVE  /\ Append(q, e) \in Seq(S) /\ Append(q, e) # <<>>
           /\ Append(q, e)[Len(Append(q, e))] = e
OBVIOUS

(* What a flush leaves in the queue is the text on screen.                    *)
LEMMA FlushedEndsWell ==
    ASSUME LspInv, NEW v \in Views, mounted[v] = "open"
    PROVE  /\ Flushed(v) \in Seq(Notes)
           /\ Flushed(v) # <<>> => /\ Flushed(v)[Len(Flushed(v))].what # "close"
                                   /\ Flushed(v)[Len(Flushed(v))].text = text
           /\ Flushed(v) = <<>> => queue[v] = <<>> /\ v \notin timer
<1>1. Note("change", text) \in Notes /\ queue[v] \in Seq(Notes)
  BY DEF LspInv, LspTypeOK, Notes, Note
<1>2. CASE v \in timer
  <2>1. Flushed(v) = Append(queue[v], Note("change", text))
    BY <1>2 DEF Flushed
  <2>2. Note("change", text).what = "change" /\ Note("change", text).text = text
    BY DEF Note
  <2>. QED
    BY <1>1, <2>1, <2>2, NewestJoins
<1>3. CASE v \notin timer
  BY <1>1, <1>3 DEF Flushed, LspInv, QueueEndsWell, Latest
<1>. QED
  BY <1>2, <1>3

-----------------------------------------------------------------------------
(* The editors' steps *)

LEMMA OpenKeeps == ASSUME LspInv, NEW v \in Views, Open(v) PROVE LspInv'
<1>1. /\ mounted' = [mounted EXCEPT ![v] = "open"] /\ mounted[v] = "no"
      /\ queue' = [queue EXCEPT ![v] = <<Note("open", text)>>]
      /\ \A w \in Views : mounted[w] # "open"
      /\ UNCHANGED <<text, timer, started, server, copy, request, about, diagnostics, stopping>>
  BY DEF Open, OnScreen
<1>2. /\ <<Note("open", text)>> \in Seq(Notes) /\ <<Note("open", text)>> # <<>>
      /\ Len(<<Note("open", text)>>) = 1
      /\ Note("open", text).what = "open" /\ Note("open", text).text = text
  BY DEF LspInv, LspTypeOK, Notes, Note
<1>3. LspTypeOK'
  BY <1>1, <1>2 DEF LspInv, LspTypeOK
<1>4. ASSUME NEW w \in Views
      PROVE  QueueEndsWell(w)'
  BY <1>1, <1>2 DEF LspInv, LspTypeOK, QueueEndsWell, Latest
<1>5. OneOnScreen' /\ CopyNeedsServer' /\ CopyFollows'
  BY <1>1, <1>2 DEF LspInv, LspTypeOK, OneOnScreen, CopyNeedsServer, CopyFollows, OnScreen
<1>. QED
  BY <1>3, <1>4, <1>5 DEF LspInv

LEMMA TypeKeeps == ASSUME LspInv, NEW v \in Views, Type(v) PROVE LspInv'
<1>1. /\ mounted[v] = "open" /\ text' = text + 1 /\ timer' = timer \cup {v}
      /\ UNCHANGED <<mounted, queue, started, server, copy, request, about, diagnostics, stopping>>
  BY DEF Type, OnScreen
<1>2. LspTypeOK'
  BY <1>1 DEF LspInv, LspTypeOK
<1>3. ASSUME NEW w \in Views
      PROVE  QueueEndsWell(w)'
  BY <1>1 DEF LspInv, OneOnScreen, QueueEndsWell, Latest
<1>4. OneOnScreen' /\ CopyNeedsServer' /\ CopyFollows'
  BY <1>1 DEF LspInv, OneOnScreen, CopyNeedsServer, CopyFollows, OnScreen
<1>. QED
  BY <1>2, <1>3, <1>4 DEF LspInv

(* The pause in typing is over, or a request goes out: nothing waits then.    *)
LEMMA FlushKeeps ==
    ASSUME LspInv, NEW v \in Views, mounted[v] = "open", timer' = timer \ {v},
           queue' = [queue EXCEPT ![v] = Flushed(v)], request' \in Nat \cup {NoRequest},
           UNCHANGED <<text, mounted, started, server, copy, about, diagnostics, stopping>>
    PROVE  LspInv'
<1>1. /\ Flushed(v) \in Seq(Notes)
      /\ Flushed(v) # <<>> => /\ Flushed(v)[Len(Flushed(v))].what # "close"
                              /\ Flushed(v)[Len(Flushed(v))].text = text
      /\ Flushed(v) = <<>> => queue[v] = <<>> /\ v \notin timer
  BY FlushedEndsWell
<1>2. LspTypeOK'
  BY <1>1 DEF LspInv, LspTypeOK
<1>3. queue'[v] = Flushed(v) /\ \A w \in Views \ {v} : queue'[w] = queue[w]
  BY DEF LspInv, LspTypeOK
<1>4. ASSUME NEW w \in Views
      PROVE  QueueEndsWell(w)'
  <2>1. CASE w = v
    BY <1>1, <1>3, <2>1 DEF QueueEndsWell, Latest
  <2>2. CASE w # v
    BY <1>3, <2>2 DEF LspInv, QueueEndsWell, Latest
  <2>. QED
    BY <2>1, <2>2
<1>5. OneOnScreen' /\ CopyNeedsServer'
  BY DEF LspInv, OneOnScreen, CopyNeedsServer
<1>6. CopyFollows'
  BY <1>1, <1>3 DEF LspInv, OneOnScreen, CopyFollows, OnScreen
<1>. QED
  BY <1>2, <1>4, <1>5, <1>6 DEF LspInv

LEMMA DestroyKeeps == ASSUME LspInv, NEW v \in Views, Destroy(v) PROVE LspInv'
<1>. DEFINE rest == Append(Flushed(v), Note("close", text))
<1>1. /\ mounted[v] = "open" /\ mounted' = [mounted EXCEPT ![v] = "destroyed"]
      /\ timer' = timer \ {v} /\ queue' = [queue EXCEPT ![v] = rest]
      /\ UNCHANGED <<text, started, server, copy, request, about, diagnostics, stopping>>
  BY DEF Destroy, OnScreen
<1>2. /\ Note("close", text) \in Notes /\ Note("close", text).what = "close"
      /\ Flushed(v) \in Seq(Notes)
  BY <1>1, FlushedEndsWell DEF LspInv, LspTypeOK, Notes, Note
<1>3. rest \in Seq(Notes) /\ rest # <<>> /\ rest[Len(rest)].what = "close"
  BY <1>2, NewestJoins
<1>4. LspTypeOK'
  BY <1>1, <1>3 DEF LspInv, LspTypeOK
<1>5. /\ queue'[v] = rest /\ \A w \in Views \ {v} : queue'[w] = queue[w]
      /\ mounted'[v] = "destroyed" /\ \A w \in Views \ {v} : mounted'[w] = mounted[w]
  BY <1>1 DEF LspInv, LspTypeOK
<1>6. ASSUME NEW w \in Views
      PROVE  QueueEndsWell(w)'
  <2>1. CASE w = v
    BY <1>1, <1>3, <1>5, <2>1 DEF QueueEndsWell, Latest
  <2>2. CASE w # v
    BY <1>1, <1>5, <2>2 DEF LspInv, QueueEndsWell, Latest
  <2>. QED
    BY <2>1, <2>2
<1>7. OneOnScreen' /\ CopyNeedsServer'
  BY <1>1, <1>5 DEF LspInv, OneOnScreen, CopyNeedsServer
<1>8. CopyFollows'
  BY <1>1, <1>3, <1>5 DEF CopyFollows, OnScreen
<1>. QED
  BY <1>4, <1>6, <1>7, <1>8 DEF LspInv

(* The last one sent is the text on screen or a close, so the copy of a       *)
(* server that has heard everything is the text or none.                      *)
LEMMA SendKeeps == ASSUME LspInv, NEW v \in Views, Send(v) PROVE LspInv'
<1>1. /\ queue[v] # <<>> /\ queue' = [queue EXCEPT ![v] = Tail(@)]
      /\ copy' = IF server = "up" THEN Taken(Head1(v)) ELSE copy
      /\ UNCHANGED <<text, mounted, timer, started, server, request, about, diagnostics, stopping>>
  BY DEF Send
<1>2. /\ Tail(queue[v]) \in Seq(Notes) /\ Head1(v) \in Notes
      /\ Tail(queue[v]) # <<>> => Tail(queue[v])[Len(Tail(queue[v]))] = Latest(v)
      /\ Tail(queue[v]) = <<>> => Head1(v) = Latest(v)
  BY <1>1, NewestStays DEF LspInv, LspTypeOK, Head1, Latest
<1>3. /\ queue'[v] = Tail(queue[v]) /\ \A w \in Views \ {v} : queue'[w] = queue[w]
  BY <1>1 DEF LspInv, LspTypeOK
<1>4. copy' \in Nat \cup {NotOpen}
  BY <1>1, <1>2 DEF Taken, Notes, LspInv, LspTypeOK
<1>5. LspTypeOK'
  BY <1>1, <1>2, <1>4 DEF LspInv, LspTypeOK
<1>6. ASSUME NEW w \in Views
      PROVE  QueueEndsWell(w)'
  <2>1. CASE w = v
    BY <1>1, <1>2, <1>3, <2>1 DEF LspInv, QueueEndsWell, Latest
  <2>2. CASE w # v
    BY <1>1, <1>3, <2>2 DEF LspInv, QueueEndsWell, Latest
  <2>. QED
    BY <2>1, <2>2
<1>7. OneOnScreen' /\ CopyNeedsServer'
  BY <1>1 DEF LspInv, OneOnScreen, CopyNeedsServer
<1>8. CopyFollows'
  <2>. SUFFICES ASSUME NEW w \in Views, mounted[w] = "open", w \notin timer,
                       \A u \in Views : queue'[u] = <<>>, copy' # NotOpen
                PROVE  copy' = text
    BY <1>1 DEF CopyFollows, OnScreen
  <2>1. server = "up" /\ copy' = Taken(Latest(v))
    BY <1>1, <1>2, <1>3 DEF LspInv, CopyNeedsServer
  <2>2. Latest(v).what # "close"
    BY <2>1 DEF Taken
  <2>3. v = w
    BY <1>1, <2>2 DEF LspInv, QueueEndsWell, OneOnScreen, LspTypeOK
  <2>4. Latest(v).text = text
    BY <1>1, <2>3 DEF LspInv, QueueEndsWell
  <2>. QED
    BY <2>1, <2>4 DEF Taken
<1>. QED
  BY <1>5, <1>6, <1>7, <1>8 DEF LspInv

-----------------------------------------------------------------------------
(* The session's and the server's steps *)

LEMMA StartFailedKeeps == ASSUME LspInv, StartFailed PROVE LspInv'
<1>1. /\ server # "up" /\ copy = NotOpen /\ request' = NoRequest /\ started' = "no"
      /\ queue' = [v \in Views |-> IF Waits(v) THEN Tail(queue[v]) ELSE queue[v]]
      /\ UNCHANGED <<text, mounted, timer, server, copy, about, diagnostics, stopping>>
  BY DEF StartFailed, LspInv, CopyNeedsServer
<1>2. ASSUME NEW v \in Views
      PROVE  /\ queue'[v] \in Seq(Notes)
             /\ queue'[v] # <<>> =>
                    queue[v] # <<>> /\ queue'[v][Len(queue'[v])] = Latest(v)
  <2>1. CASE Waits(v)
    BY <1>1, <2>1, NewestStays DEF LspInv, LspTypeOK, Waits, Latest
  <2>2. CASE ~Waits(v)
    BY <1>1, <2>2 DEF LspInv, LspTypeOK, Latest
  <2>. QED
    BY <2>1, <2>2
<1>3. LspTypeOK'
  BY <1>1, <1>2 DEF LspInv, LspTypeOK
<1>4. ASSUME NEW v \in Views
      PROVE  QueueEndsWell(v)'
  BY <1>1, <1>2 DEF LspInv, QueueEndsWell, Latest
<1>5. OneOnScreen' /\ CopyNeedsServer' /\ CopyFollows'
  BY <1>1 DEF LspInv, OneOnScreen, CopyNeedsServer, CopyFollows, OnScreen
<1>. QED
  BY <1>3, <1>4, <1>5 DEF LspInv

(* None of the others touches the text, the editors or their queues.          *)
LEMMA SessionKeeps ==
    ASSUME LspInv, StartServer \/ Started \/ HangsUp \/ Stop \/ Stopped \/ Publish \/ Answer
                \/ UNCHANGED lspVars
    PROVE  LspInv'
<1>1. /\ UNCHANGED <<text, mounted, timer, queue>>
      /\ copy' = copy \/ copy' = NotOpen
      /\ copy' # NotOpen => server' = "up"
  BY DEF LspInv, CopyNeedsServer, StartServer, Started, HangsUp, Stop, Stopped, Publish, Answer,
     lspVars
<1>2. LspTypeOK'
  <2>1. about' \in (Nat \cup {NoRequest}) \X (Nat \cup {NotOpen})
    BY DEF LspInv, LspTypeOK, StartServer, Started, HangsUp, Stop, Stopped, Publish, Answer, lspVars
  <2>2. /\ started' \in {"no", "pending", "ok"} /\ server' \in {"none", "up", "gone"}
        /\ request' \in Nat \cup {NoRequest} /\ diagnostics' \in Nat \cup {NoneListed}
        /\ stopping' \in {"no", "called", "done"}
    BY DEF LspInv, LspTypeOK, StartServer, Started, HangsUp, Stop, Stopped, Publish, Answer,
       lspVars, NoRequest, NoneListed, NotOpen
  <2>. QED
    BY <1>1, <2>1, <2>2 DEF LspInv, LspTypeOK
<1>3. ASSUME NEW v \in Views
      PROVE  QueueEndsWell(v)'
  BY <1>1 DEF LspInv, QueueEndsWell, Latest
<1>4. OneOnScreen' /\ CopyNeedsServer' /\ CopyFollows'
  BY <1>1 DEF LspInv, OneOnScreen, CopyNeedsServer, CopyFollows, OnScreen
<1>. QED
  BY <1>2, <1>3, <1>4 DEF LspInv

LEMMA LspInitially == ASSUME LspInit PROVE LspInv
<1>1. LspTypeOK
  BY DEF LspInit, LspTypeOK, NoRequest, NotOpen, NoneListed
<1>. QED
  BY <1>1 DEF LspInit, LspInv, QueueEndsWell, OneOnScreen, CopyNeedsServer, CopyFollows, OnScreen

LEMMA LspStepKeeps == ASSUME LspInv, [LspNext]_lspVars PROVE LspInv'
<1>1. ASSUME NEW v \in Views, Flush(v) \/ Ask(v)
      PROVE  LspInv'
  <2>1. /\ mounted[v] = "open" /\ timer' = timer \ {v}
        /\ queue' = [queue EXCEPT ![v] = Flushed(v)] /\ request' \in Nat \cup {NoRequest}
        /\ UNCHANGED <<text, mounted, started, server, copy, about, diagnostics, stopping>>
    BY <1>1 DEF Flush, Ask, OnScreen, LspInv, LspTypeOK
  <2>. QED
    BY <2>1, FlushKeeps
<1>2. ASSUME NEW v \in Views, Open(v) \/ Type(v) \/ Destroy(v) \/ Send(v)
      PROVE  LspInv'
  BY <1>2, OpenKeeps, TypeKeeps, DestroyKeeps, SendKeeps
<1>. QED
  BY <1>1, <1>2, StartFailedKeeps, SessionKeeps DEF LspNext

(* Once nothing is left to send, a document the server has open has the text  *)
(* of the editor, whatever editors showed it and however often the server was *)
(* started, lost and stopped (lspExtension.ts, DocumentSync).                 *)
THEOREM CopyIsScreenHolds == LspSpec => []CopyIsScreen
<1>1. LspInit => LspInv
  BY LspInitially
<1>2. LspInv /\ [LspNext]_lspVars => LspInv'
  BY LspStepKeeps
<1>3. LspInv => CopyIsScreen
  BY DEF LspInv, CopyFollows, CopyIsScreen, Quiet, OnScreen
<1>. QED
  BY <1>1, <1>2, <1>3, PTL DEF LspSpec

-----------------------------------------------------------------------------
(* Requests.  When each editor is opened after everything of the one before   *)
(* was sent, the queue of the editor on screen is the only one that moves the *)
(* copy, and what it ends in is at least as new as the request behind it.     *)
OthersAreSent == \A v \in OnScreen : \A w \in Views \ {v} : queue[w] = <<>>

IsReached(v) ==
    IF queue[v] = <<>> THEN copy # NotOpen => copy >= request
                       ELSE Latest(v).text >= request

RequestGoesBehind == request # NoRequest => /\ request <= text
                                            /\ \A v \in OnScreen : IsReached(v)

AskInv == LspInv /\ OthersAreSent /\ RequestGoesBehind /\ AnswersAreCurrent

LEMMA EditorsAsk ==
    ASSUME AskInv, NEW v \in Views, LspInv',
           (Open(v) /\ OpensApart) \/ Type(v) \/ Destroy(v)
    PROVE  AskInv'
<1>1. CASE Open(v) /\ OpensApart
  <2>1. /\ \A w \in Views : queue[w] = <<>> /\ mounted[w] # "open"
        /\ mounted' = [mounted EXCEPT ![v] = "open"]
        /\ queue' = [queue EXCEPT ![v] = <<Note("open", text)>>]
        /\ UNCHANGED <<text, copy, request, about>>
    BY <1>1 DEF Open, OpensApart, OnScreen
  <2>2. /\ <<Note("open", text)>> # <<>> /\ Len(<<Note("open", text)>>) = 1
        /\ <<Note("open", text)>>[1].text = text
    BY DEF Note
  <2>3. /\ queue'[v] = <<Note("open", text)>> /\ \A w \in Views \ {v} : queue'[w] = <<>>
        /\ \A w \in Views \ {v} : mounted'[w] # "open"
    BY <2>1 DEF AskInv, LspInv, LspTypeOK
  <2>4. OthersAreSent' /\ AnswersAreCurrent'
    BY <2>1, <2>3 DEF AskInv, OthersAreSent, AnswersAreCurrent, OnScreen
  <2>5. RequestGoesBehind'
    BY <2>1, <2>2, <2>3 DEF AskInv, RequestGoesBehind, IsReached, Latest, OnScreen
  <2>. QED
    BY <2>4, <2>5 DEF AskInv
<1>2. CASE Type(v)
  BY <1>2 DEF Type, AskInv, LspInv, LspTypeOK, OthersAreSent, RequestGoesBehind, IsReached,
     Latest, AnswersAreCurrent, OnScreen
<1>3. CASE Destroy(v)
  <2>1. \A w \in Views : mounted'[w] # "open"
    BY <1>3 DEF Destroy, OnScreen, AskInv, LspInv, LspTypeOK, OneOnScreen
  <2>. QED
    BY <1>3, <2>1 DEF Destroy, AskInv, OthersAreSent, RequestGoesBehind, AnswersAreCurrent,
       OnScreen
<1>. QED
  BY <1>1, <1>2, <1>3

(* A flush leaves the newest text last, so it is as new as the request that   *)
(* waits and as the one that is made now.                                     *)
LEMMA FlushAsks ==
    ASSUME AskInv, NEW v \in Views, LspInv', mounted[v] = "open",
           queue' = [queue EXCEPT ![v] = Flushed(v)], request' \in {request, text},
           UNCHANGED <<text, mounted, copy, about>>
    PROVE  AskInv'
<1>1. /\ Flushed(v) # <<>> => Flushed(v)[Len(Flushed(v))].text = text
      /\ Flushed(v) = <<>> => queue[v] = <<>> /\ v \notin timer
  BY FlushedEndsWell DEF AskInv
<1>2. queue'[v] = Flushed(v) /\ \A w \in Views \ {v} : queue'[w] = queue[w]
  BY DEF AskInv, LspInv, LspTypeOK
<1>3. \A w \in Views : mounted[w] = "open" => w = v
  BY DEF AskInv, LspInv, OneOnScreen
<1>4. OthersAreSent' /\ AnswersAreCurrent'
  BY <1>2, <1>3 DEF AskInv, OthersAreSent, AnswersAreCurrent, OnScreen
<1>5. text \in Nat /\ request \in Nat \cup {NoRequest}
  BY DEF AskInv, LspInv, LspTypeOK
<1>6. RequestGoesBehind'
  <2>. SUFFICES ASSUME request' # NoRequest
                PROVE  request' <= text /\ IsReached(v)'
    BY <1>3 DEF RequestGoesBehind, OnScreen
  <2>1. request' <= text
    BY <1>5 DEF AskInv, RequestGoesBehind
  <2>2. CASE Flushed(v) # <<>>
    BY <1>1, <1>2, <2>1, <2>2 DEF IsReached, Latest
  <2>3. CASE Flushed(v) = <<>>
    <3>1. copy # NotOpen => copy = text
      BY <1>1, <2>3 DEF AskInv, OthersAreSent, LspInv, CopyFollows, OnScreen
    <3>. QED
      BY <1>2, <2>1, <2>3, <3>1 DEF IsReached
  <2>. QED
    BY <2>1, <2>2, <2>3
<1>. QED
  BY <1>4, <1>6 DEF AskInv

(* What is sent last was at least as new as the request.                      *)
LEMMA SendAsks == ASSUME AskInv, NEW v \in Views, LspInv', Send(v) PROVE AskInv'
<1>1. /\ queue[v] # <<>> /\ queue' = [queue EXCEPT ![v] = Tail(@)]
      /\ copy' = IF server = "up" THEN Taken(Head1(v)) ELSE copy
      /\ UNCHANGED <<text, mounted, request, about, server>>
  BY DEF Send
<1>2. /\ Tail(queue[v]) # <<>> => Tail(queue[v])[Len(Tail(queue[v]))] = Latest(v)
      /\ Tail(queue[v]) = <<>> => Head1(v) = Latest(v)
  BY <1>1, NewestStays DEF AskInv, LspInv, LspTypeOK, Head1, Latest
<1>3. /\ queue'[v] = Tail(queue[v]) /\ \A w \in Views \ {v} : queue'[w] = queue[w]
  BY <1>1 DEF AskInv, LspInv, LspTypeOK
<1>4. \A w \in OnScreen : w = v
  BY <1>1 DEF AskInv, OthersAreSent
<1>5. OthersAreSent' /\ AnswersAreCurrent'
  BY <1>1, <1>3 DEF AskInv, OthersAreSent, AnswersAreCurrent, OnScreen
<1>6. ASSUME request # NoRequest, v \in OnScreen
      PROVE  IsReached(v)'
  <2>1. Latest(v).text >= request
    BY <1>1, <1>6 DEF AskInv, RequestGoesBehind, IsReached
  <2>2. CASE Tail(queue[v]) # <<>>
    BY <1>1, <1>2, <1>3, <2>1, <2>2 DEF IsReached, Latest
  <2>3. CASE Tail(queue[v]) = <<>>
    <3>1. copy' # NotOpen => copy' = Latest(v).text
      BY <1>1, <1>2, <2>3 DEF Taken, AskInv, LspInv, CopyNeedsServer
    <3>. QED
      BY <1>1, <1>3, <2>1, <2>3, <3>1 DEF IsReached
  <2>. QED
    BY <2>2, <2>3
<1>7. RequestGoesBehind'
  BY <1>1, <1>4, <1>6 DEF AskInv, RequestGoesBehind, OnScreen
<1>. QED
  BY <1>5, <1>7 DEF AskInv

LEMMA AnswerAsks == ASSUME AskInv, LspInv', Answer PROVE AskInv'
<1>1. PICK v \in OnScreen : queue[v] = <<>>
  BY DEF Answer
<1>2. copy # NotOpen => copy >= request
  BY <1>1 DEF Answer, AskInv, RequestGoesBehind, IsReached
<1>3. about' = <<request, copy>> \/ about' = about
  BY DEF Answer
<1>4. AnswersAreCurrent'
  BY <1>2, <1>3 DEF AskInv, AnswersAreCurrent
<1>. QED
  BY <1>4 DEF Answer, AskInv, OthersAreSent, RequestGoesBehind, OnScreen

(* The rest moves no queue of an editor, and the copy only when it goes.      *)
LEMMA SessionAsks ==
    ASSUME AskInv, LspInv', StartServer \/ Started \/ StartFailed \/ HangsUp \/ Stop \/ Stopped
                         \/ Publish \/ UNCHANGED lspVars
    PROVE  AskInv'
<1>1. CASE StartFailed
  <2>1. \A w \in Views : queue[w] = <<>> => queue'[w] = <<>>
    BY <1>1 DEF StartFailed, Waits
  <2>. QED
    BY <1>1, <2>1 DEF StartFailed, AskInv, OthersAreSent, RequestGoesBehind, AnswersAreCurrent,
       OnScreen
<1>2. CASE StartServer \/ Started \/ HangsUp \/ Stop \/ Stopped \/ Publish \/ UNCHANGED lspVars
  <2>1. /\ UNCHANGED <<text, mounted, queue, request, about>>
        /\ copy' = copy \/ copy' = NotOpen
    BY <1>2 DEF StartServer, Started, HangsUp, Stop, Stopped, Publish, lspVars
  <2>. QED
    BY <2>1 DEF AskInv, OthersAreSent, RequestGoesBehind, IsReached, Latest, AnswersAreCurrent,
       OnScreen
<1>. QED
  BY <1>1, <1>2

LEMMA AskStepKeeps ==
    ASSUME AskInv, [LspNext /\ OpensApart]_lspVars
    PROVE  AskInv'
<1>1. LspInv'
  BY LspStepKeeps DEF AskInv
<1>2. ASSUME NEW v \in Views, Flush(v) \/ Ask(v)
      PROVE  AskInv'
  <2>1. /\ mounted[v] = "open" /\ queue' = [queue EXCEPT ![v] = Flushed(v)]
        /\ request' \in {request, text} /\ UNCHANGED <<text, mounted, copy, about>>
    BY <1>2 DEF Flush, Ask, OnScreen
  <2>. QED
    BY <1>1, <2>1, FlushAsks
<1>3. ASSUME NEW v \in Views, (Open(v) /\ OpensApart) \/ Type(v) \/ Destroy(v) \/ Send(v)
      PROVE  AskInv'
  BY <1>1, <1>3, EditorsAsk, SendAsks
<1>. QED
  BY <1>1, <1>2, <1>3, AnswerAsks, SessionAsks DEF LspNext

LEMMA InitiallyAsk == ASSUME LspInit PROVE AskInv
<1>1. LspInv
  BY LspInitially
<1>. QED
  BY <1>1 DEF LspInit, AskInv, OthersAreSent, RequestGoesBehind, AnswersAreCurrent, OnScreen,
     NoRequest, NotOpen

(* As long as each editor is opened when everything of the one before it was  *)
(* sent, the server sees what is on screen: its copy is the text once nothing *)
(* is left to send, and completion, hover and Go To Definition are never      *)
(* answered from a text older than the one they were asked about              *)
(* (lspExtension.ts:23, "so the server answers about what's on screen").      *)
THEOREM ServerSeesTheTextHolds ==
    LspSpec /\ [][OpensApart]_lspVars => []ServerSeesTheText
<1>1. LspInit => AskInv
  BY InitiallyAsk
<1>2. AskInv /\ [LspNext]_lspVars /\ [OpensApart]_lspVars => AskInv'
  BY AskStepKeeps
<1>3. AskInv => ServerSeesTheText
  BY DEF AskInv, LspInv, CopyFollows, CopyIsScreen, Quiet, OnScreen, ServerSeesTheText
<1>. QED
  BY <1>1, <1>2, <1>3, PTL DEF LspSpec

(* One editor has none before it.                                             *)
THEOREM OneEditorIsSeen ==
    ASSUME \A v, w \in Views : v = w
    PROVE  LspSpec => []ServerSeesTheText
<1>1. LspInit => AskInv
  BY InitiallyAsk
<1>2. AskInv /\ [LspNext]_lspVars => AskInv'
  <2>. SUFFICES ASSUME AskInv, [LspNext]_lspVars
                PROVE  AskInv'
    OBVIOUS
  <2>1. OpensApart
    BY DEF OpensApart, Open, AskInv, LspInv, QueueEndsWell
  <2>. QED
    BY <2>1, AskStepKeeps
<1>3. AskInv => ServerSeesTheText
  BY DEF AskInv, LspInv, CopyFollows, CopyIsScreen, Quiet, OnScreen, ServerSeesTheText
<1>. QED
  BY <1>1, <1>2, <1>3, PTL DEF LspSpec

------------------------------------------------------------------------------
(* The window's keys (Keybindings).                                           *)

(* What is registered has the shortcuts the keymap gives its command, and a   *)
(* chord that waits is one of the very last key press.                        *)
NoKeymap == [id \in {} |-> <<>>]
RegisteredAs(map) == {[binding |-> b, steps |-> StepsOf(b, map)] : b \in Bindings}
KeysInv ==
    /\ overrides \in Keymaps \cup {NoKeymap}
    /\ registered \in Seq(RegisteredAs(overrides))
    /\ recent => pending = lastTaken
    /\ ChordsAreTyped /\ PastesWhereAsked

(* One of some numbers is the least of them.                                  *)
LEMMA LeastIndex ==
    ASSUME NEW S \in SUBSET Nat, S # {}
    PROVE  \E n \in S : \A m \in S : ~(m < n)
<1>1. PICK n \in S : \A m \in S : ~(<<m, n>> \in OpToRel(<, Nat))
  BY NatLessThanWellFounded, WFMin
<1> QED
  BY <1>1 DEF OpToRel

LEMMA RemovedIsOf ==
    ASSUME NEW S, NEW s \in Seq(S), NEW i \in DOMAIN s
    PROVE  RemoveAt(s, i) \in Seq(S)
<1>1. i \in 1..Len(s) /\ Len(s) \in Nat
  OBVIOUS
<1>2. SubSeq(s, 1, i - 1) \in Seq(S)
  BY <1>1
<1>3. SubSeq(s, i + 1, Len(s)) \in Seq(S)
  BY <1>1
<1> QED
  BY <1>2, <1>3 DEF RemoveAt

LEMMA RegisteredEntry ==
    ASSUME KeysInv, NEW i \in DOMAIN registered
    PROVE  /\ registered[i].binding \in Bindings
           /\ registered[i].steps = StepsOf(registered[i].binding, overrides)
           /\ Written(registered[i].steps)
<1>1. registered[i] \in RegisteredAs(overrides)
  BY DEF KeysInv
<1>2. PICK b \in Bindings : registered[i] = [binding |-> b, steps |-> StepsOf(b, overrides)]
  BY <1>1 DEF RegisteredAs
<1>3. registered[i].binding = b /\ registered[i].steps = StepsOf(b, overrides)
  BY <1>2
<1>4. Written(StepsOf(b, overrides))
  BY KeysAssumption DEF KeysInv, StepsOf, NoKeymap
<1> QED
  BY <1>3, <1>4

(* The first registered of a command has the command's shortcuts.             *)
LEMMA FirstOfCommand ==
    ASSUME KeysInv, NEW id, NEW i \in DOMAIN registered, registered[i].binding.id = id, NEW f,
           f = CHOOSE k \in DOMAIN registered :
                    registered[k].binding.id = id /\ \A j \in 1..(k - 1) : registered[j].binding.id # id
    PROVE  registered[f].binding.keys = registered[i].binding.keys
<1> DEFINE first(k) == registered[k].binding.id = id /\ \A j \in 1..(k - 1) : registered[j].binding.id # id
           S == {k \in DOMAIN registered : registered[k].binding.id = id}
<1>1. DOMAIN registered = 1..Len(registered) /\ Len(registered) \in Nat
  BY DEF KeysInv
<1>2. S \in SUBSET Nat /\ S # {}
  BY <1>1
<1>3. PICK n \in S : \A m \in S : ~(m < n)
  BY <1>2, LeastIndex
<1>4. n \in DOMAIN registered /\ registered[n].binding.id = id
  BY <1>3
<1>5. ASSUME NEW j \in 1..(n - 1) PROVE registered[j].binding.id # id
  <2>1. j \in DOMAIN registered /\ j < n
    BY <1>1, <1>4
  <2> QED
    BY <1>3, <2>1
<1>6. first(n)
  BY <1>4, <1>5
<1>7. f \in DOMAIN registered /\ first(f)
  BY <1>4, <1>6
<1>8. registered[f].binding \in Bindings /\ registered[i].binding \in Bindings
      /\ registered[f].binding.id = registered[i].binding.id
  BY <1>7, RegisteredEntry
<1> QED
  BY <1>8, KeysAssumption

LEMMA MenuShowsWhatRuns == ASSUME KeysInv PROVE LabelRuns
<1> SUFFICES ASSUME NEW i \in DOMAIN registered
             PROVE  LET label == KeybindingLabel(registered[i].binding.id)
                    IN  IF label = <<>> THEN registered[i].steps = <<>>
                        ELSE \E n \in DOMAIN registered[i].steps : registered[i].steps[n] = label
  BY DEF LabelRuns
<1> DEFINE id == registered[i].binding.id
           steps == registered[i].steps
<1>1. Written(steps) /\ steps = StepsOf(registered[i].binding, overrides)
  BY RegisteredEntry
<1>2. KeybindingLabel(id) = IF steps = <<>> THEN <<>> ELSE steps[1]
  <2>1. CASE id \in DOMAIN overrides
    BY <1>1, <2>1 DEF KeybindingLabel, StepsOf
  <2>2. CASE id \notin DOMAIN overrides
    <3>1. steps = registered[i].binding.keys
      BY <1>1, <2>2 DEF StepsOf
    <3> DEFINE f == CHOOSE k \in DOMAIN registered :
                      registered[k].binding.id = id /\ \A j \in 1..(k - 1) : registered[j].binding.id # id
               keys == registered[f].binding.keys
    <3>2. KeybindingLabel(id) = IF keys = <<>> THEN <<>> ELSE keys[1]
      <4>1. KeybindingLabel(id) = LET all == IF id \in DOMAIN overrides THEN overrides[id] ELSE keys
                                  IN  IF all = <<>> THEN <<>> ELSE all[1]
        BY DEF KeybindingLabel
      <4> HIDE DEF keys
      <4> QED
        BY <2>2, <4>1
    <3>3. f = CHOOSE k \in DOMAIN registered :
                registered[k].binding.id = id /\ \A j \in 1..(k - 1) : registered[j].binding.id # id
      OBVIOUS
    <3> HIDE DEF f
    <3>4. keys = steps
      BY <3>1, <3>3, FirstOfCommand
    <3> QED
      BY <3>2, <3>4
  <2> QED
    BY <2>1, <2>2
<1> HIDE DEF steps
<1>3. IF KeybindingLabel(id) = <<>> THEN steps = <<>>
      ELSE \E n \in DOMAIN steps : steps[n] = KeybindingLabel(id)
  BY <1>1, <1>2 DEF Written
<1> QED
  BY <1>3 DEF steps

LEMMA KeysInitially == ASSUME KeyInit PROVE KeysInv
<1>1. registered = <<>> /\ overrides = NoKeymap /\ recent = FALSE /\ ran.steps = <<>> /\ pasted = {}
  BY DEF KeyInit, NoKeymap, Nothing
<1>2. registered \in Seq(RegisteredAs(overrides))
  BY <1>1
<1>3. Len(ran.steps) # 2
  BY <1>1
<1> QED
  BY <1>1, <1>2, <1>3 DEF KeysInv, ChordsAreTyped, PastesWhereAsked

LEMMA NothingIsNoChord == Len(Nothing.steps) # 2
BY DEF Nothing

LEMMA RegistrationKeeps ==
    ASSUME KeysInv,
           \/ \E b \in Bindings : RegisterKeybinding(b)
           \/ \E i \in 1..Cardinality(Bindings) : Unregister(i)
           \/ \E map \in Keymaps : SetKeymapOverrides(map)
    PROVE  KeysInv'
<1>1. /\ ran' = Nothing /\ pasted' = pasted /\ gone' = gone
      /\ recent' = recent /\ pending' = pending /\ lastTaken' = lastTaken
  BY DEF RegisterKeybinding, Unregister, SetKeymapOverrides, FieldsStay
<1>2. overrides' \in Keymaps \cup {NoKeymap} /\ registered' \in Seq(RegisteredAs(overrides'))
  <2>1. ASSUME NEW b \in Bindings, RegisterKeybinding(b)
        PROVE  registered' \in Seq(RegisteredAs(overrides')) /\ overrides' = overrides
    <3>1. [binding |-> b, steps |-> StepsOf(b, overrides)] \in RegisteredAs(overrides)
      BY DEF RegisteredAs
    <3> QED
      BY <2>1, <3>1 DEF RegisterKeybinding, KeysInv
  <2>2. ASSUME NEW i, Unregister(i)
        PROVE  registered' \in Seq(RegisteredAs(overrides')) /\ overrides' = overrides
    BY <2>2, RemovedIsOf DEF Unregister, KeysInv
  <2>3. ASSUME NEW map \in Keymaps, SetKeymapOverrides(map)
        PROVE  registered' \in Seq(RegisteredAs(overrides')) /\ overrides' = map
    <3>1. /\ overrides' = map
          /\ registered' = [i \in DOMAIN registered |->
                              [registered[i] EXCEPT !.steps = StepsOf(registered[i].binding, map)]]
      BY <2>3 DEF SetKeymapOverrides
    <3>2. DOMAIN registered = 1..Len(registered) /\ Len(registered) \in Nat
      BY DEF KeysInv
    <3>3. ASSUME NEW i \in DOMAIN registered
          PROVE  [registered[i] EXCEPT !.steps = StepsOf(registered[i].binding, map)] \in RegisteredAs(map)
      <4>1. PICK b \in Bindings : registered[i] = [binding |-> b, steps |-> StepsOf(b, overrides)]
        BY <3>2 DEF KeysInv, RegisteredAs
      <4>2. [registered[i] EXCEPT !.steps = StepsOf(registered[i].binding, map)]
            = [binding |-> b, steps |-> StepsOf(b, map)]
        BY <4>1
      <4> QED
        BY <4>2 DEF RegisteredAs
    <3> QED
      BY <3>1, <3>2, <3>3
  <2> QED
    BY <2>1, <2>2, <2>3 DEF KeysInv
<1>3. ChordsAreTyped'
  BY <1>1, NothingIsNoChord DEF ChordsAreTyped
<1> QED
  BY <1>1, <1>2, <1>3 DEF KeysInv, PastesWhereAsked

(* A key press the listener takes: a chord runs after the stroke it waited    *)
(* for, and what waits is this press.                                         *)
LEMMA PressKeeps ==
    ASSUME KeysInv, NEW layout, NEW code, NEW ctrl, NEW native, NEW active, NEW willing,
           Press(layout, code, ctrl, native, active, willing)
    PROVE  KeysInv'
<1> DEFINE step == EventShortcut(layout, code, ctrl)
<1>1. OnKeyDown(step, native, active, willing) /\ gone' = gone /\ pasted' = pasted
  BY DEF Press
<1> HIDE DEF step
<1>2. /\ registered' = registered /\ overrides' = overrides /\ lastTaken' = step
      /\ ran' = Runs(step, native, active, willing) /\ recent' = (pending' # NoStep)
      /\ (pending' = NoStep \/ pending' = Waiting(step, active))
  BY <1>1 DEF OnKeyDown
<1>3. recent' => pending' = lastTaken'
  BY <1>2 DEF Waiting
<1>4. ChordsAreTyped'
  <2>1. CASE ran' = Nothing
    BY <2>1, NothingIsNoChord DEF ChordsAreTyped
  <2>2. CASE ran' = [steps |-> <<step>>, after |-> lastTaken]
    <3>1. ran'.steps = <<step>>
      BY <2>2
    <3>2. Len(<<step>>) = 1
      OBVIOUS
    <3> QED
      BY <3>1, <3>2 DEF ChordsAreTyped
  <2>3. CASE Prefix # NoStep /\ ran' = [steps |-> <<Prefix, step>>, after |-> lastTaken]
    <3>1. Prefix = lastTaken
      BY <2>3 DEF Prefix, KeysInv
    <3>2. ran'.steps = <<Prefix, step>> /\ ran'.after = lastTaken
      BY <2>3
    <3>3. ran'.steps[1] = Prefix
      BY <3>2
    <3> QED
      BY <3>1, <3>2, <3>3 DEF ChordsAreTyped
  <2> QED
    BY <1>2, <2>1, <2>2, <2>3 DEF Runs
<1> QED
  BY <1>1, <1>2, <1>3, <1>4 DEF KeysInv, PastesWhereAsked

LEMMA FieldsKeep ==
    ASSUME KeysInv,
           \/ ChordTimesOut \/ ModalToggles \/ PasteArrives \/ PasteRefused
           \/ \E f \in Fields : Focus(f) \/ FieldGoes(f)
    PROVE  KeysInv'
<1>1. /\ registered' = registered /\ overrides' = overrides /\ ran' = Nothing
      /\ pending' = pending /\ lastTaken' = lastTaken /\ (recent' => recent)
  BY DEF ChordTimesOut, ModalToggles, PasteArrives, PasteRefused, Focus, FieldGoes
<1>2. PastesWhereAsked'
  <2>1. CASE PasteArrives
    <3>1. pasted' = pasted \union {<<reading, focus'>>} /\ gone' = gone
          /\ (focus' = reading \/ reading \in gone)
      BY <2>1 DEF PasteArrives
    <3>2. ASSUME NEW p \in pasted' PROVE p[1] = p[2] \/ p[1] \in gone'
      <4>1. CASE p \in pasted
        BY <3>1, <4>1 DEF KeysInv, PastesWhereAsked
      <4>2. CASE p = <<reading, focus'>>
        <5>1. p[1] = reading /\ p[2] = focus'
          BY <4>2
        <5> QED
          BY <5>1, <3>1
      <4> QED
        BY <3>1, <4>1, <4>2
    <3> QED
      BY <3>2 DEF PastesWhereAsked
  <2>2. CASE ~PasteArrives
    <3>1. pasted' = pasted /\ gone \subseteq gone'
      BY <2>2 DEF ChordTimesOut, ModalToggles, PasteRefused, Focus, FieldGoes, FieldsStay
    <3> QED
      BY <3>1 DEF KeysInv, PastesWhereAsked
  <2> QED
    BY <2>1, <2>2
<1>3. ChordsAreTyped'
  BY <1>1, NothingIsNoChord DEF ChordsAreTyped
<1> QED
  BY <1>1, <1>2, <1>3 DEF KeysInv

LEMMA KeyStepKeeps == ASSUME KeysInv, [KeyNext]_keyVars PROVE KeysInv'
<1>1. CASE Presses
  BY <1>1, PressKeeps DEF Presses
<1>2. CASE UNCHANGED keyVars
  BY <1>2 DEF keyVars, KeysInv, ChordsAreTyped, PastesWhereAsked
<1> QED
  BY <1>1, <1>2, RegistrationKeeps, FieldsKeep DEF KeyNext

(* For any bindings, keymaps and layouts: a chord's command runs after both   *)
(* its strokes and nothing in between, the shortcut a menu shows runs its     *)
(* command, and a paste goes where it was asked for (infra/keys/keys.tsx).    *)
THEOREM KeysArriveAsTypedHolds == KeySpec => []KeysArriveAsTyped
<1>1. KeyInit => KeysInv
  BY KeysInitially
<1>2. KeysInv /\ [KeyNext]_keyVars => KeysInv'
  BY KeyStepKeeps
<1>3. KeysInv => KeysArriveAsTyped
  BY MenuShowsWhatRuns DEF KeysInv, KeysArriveAsTyped
<1> QED
  BY <1>1, <1>2, <1>3, PTL DEF KeySpec

------------------------------------------------------------------------------
(* Undo over a document (DocumentHistory).                                    *)

Docs == [DOMAIN Blank -> Nat]
Changes == [field : DOMAIN Blank, before : Nat, after : Nat]
Steps == Seq(Changes)

(* A step leads from one document to another and back.                        *)
Fits(d, step, e) == Undone(e, step) = d /\ Redone(d, step) = e

LEMMA FirstIs ==
    ASSUME NEW S \in SUBSET Nat, NEW m \in S, \A k \in S : m <= k
    PROVE  Min(S) = m
<1> DEFINE x == Min(S)
<1>1. x \in S /\ \A k \in S : x <= k
  BY DEF Min
<1> HIDE DEF x
<1>2. x \in Nat /\ m \in Nat /\ x <= m /\ m <= x
  BY <1>1
<1>3. x = m
  BY <1>2
<1>. QED
  BY <1>3 DEF x

LEMMA LastIs ==
    ASSUME NEW S \in SUBSET Nat, NEW m \in S, \A k \in S : k <= m
    PROVE  Max(S) = m
<1> DEFINE x == Max(S)
<1>1. x \in S /\ \A k \in S : x >= k
  BY DEF Max
<1> HIDE DEF x
<1>2. x \in Nat /\ m \in Nat /\ x >= m /\ m >= x
  BY <1>1
<1>3. x = m
  BY <1>2
<1>. QED
  BY <1>3 DEF x

LEMMA EndsOfField ==
    ASSUME NEW step \in Steps, NEW f, OfField(step, f) # {}
    PROVE  LET S == OfField(step, f) IN
           /\ S \subseteq 1..Len(step)
           /\ Min(S) \in S /\ \A k \in S : Min(S) <= k
           /\ Max(S) \in S /\ \A k \in S : k <= Max(S)
<1> DEFINE S == OfField(step, f)
           n == Len(step)
           R == {n - k : k \in S}
<1>1. n \in Nat /\ S \subseteq 1..n
  BY DEF OfField, Steps
<1>2. S \in SUBSET Nat /\ R \in SUBSET Nat /\ R # {}
  BY <1>1
<1>3. PICK m \in S : \A k \in S : ~(k < m)
  BY <1>2, LeastIndex
<1>4. PICK r \in R : \A q \in R : ~(q < r)
  <2> HIDE DEF R
  <2>. QED
    BY <1>2, LeastIndex
<1>5. PICK l \in S : r = n - l
  OBVIOUS
<1>6. \A k \in S : n - k \in R /\ k \in Nat
  BY <1>1
<1>7. \A k \in S : k <= l
  <2> HIDE DEF R, S
  <2>. QED
    BY <1>1, <1>4, <1>5, <1>6
<1> HIDE DEF S, n
<1>8. \A k \in S : m <= k
  BY <1>2, <1>3
<1>9. Min(S) = m /\ Max(S) = l
  BY <1>2, <1>7, <1>8, FirstIs, LastIs
<1>. QED
  BY <1>1, <1>7, <1>8, <1>9 DEF S, n

(* What a step does to one field of a document.                               *)
LEMMA UndoneField ==
    ASSUME NEW d \in Docs, NEW step \in Steps, NEW f \in DOMAIN Blank
    PROVE  /\ Undone(d, step) \in Docs /\ Redone(d, step) \in Docs
           /\ Undone(d, step)[f] = IF OfField(step, f) = {} THEN d[f]
                                   ELSE step[Min(OfField(step, f))].before
           /\ Redone(d, step)[f] = IF OfField(step, f) = {} THEN d[f]
                                   ELSE step[Max(OfField(step, f))].after
<1>1. DOMAIN d = DOMAIN Blank
  BY DEF Docs
<1>2. \A g \in DOMAIN Blank : OfField(step, g) # {} =>
         step[Min(OfField(step, g))].before \in Nat /\ step[Max(OfField(step, g))].after \in Nat
  <2> SUFFICES ASSUME NEW g \in DOMAIN Blank, OfField(step, g) # {}
               PROVE  step[Min(OfField(step, g))].before \in Nat /\ step[Max(OfField(step, g))].after \in Nat
    OBVIOUS
  <2>1. Min(OfField(step, g)) \in 1..Len(step) /\ Max(OfField(step, g)) \in 1..Len(step)
    BY EndsOfField
  <2>2. \A k \in 1..Len(step) : step[k] \in Changes
    BY DEF Steps
  <2>. QED
    BY <2>1, <2>2 DEF Changes
<1>. QED
  BY <1>1, <1>2 DEF Undone, Redone, Docs

LEMMA NothingFits ==
    ASSUME NEW d \in Docs
    PROVE  /\ <<>> \in Steps /\ Fits(d, <<>>, d)
           /\ \A e \in Docs : Fits(d, <<>>, e) => e = d
<1>1. \A f : OfField(<<>>, f) = {}
  BY DEF OfField
<1>2. \A e \in Docs : Undone(e, <<>>) = e /\ Redone(e, <<>>) = e
  BY <1>1 DEF Undone, Redone, Docs
<1>. QED
  BY <1>2 DEF Fits, Steps

(* A change joins a step.                                                     *)
LEMMA ChangeJoins ==
    ASSUME NEW d \in Docs, NEW e \in Docs, NEW step \in Steps, Fits(d, step, e),
           NEW f \in DOMAIN Blank, NEW v \in Nat
    PROVE  /\ [e EXCEPT ![f] = v] \in Docs
           /\ Append(step, Change(f, e[f], v)) \in Steps
           /\ Fits(d, Append(step, Change(f, e[f], v)), [e EXCEPT ![f] = v])
<1> DEFINE c == Change(f, e[f], v)
           new == Append(step, c)
           n == Len(step)
           next == [e EXCEPT ![f] = v]
<1>1. /\ c \in Changes /\ c.field = f /\ c.before = e[f] /\ c.after = v
      /\ next \in Docs /\ next[f] = v /\ \A g \in DOMAIN Blank : g # f => next[g] = e[g]
  BY DEF Change, Changes, Docs
<1> HIDE DEF c
<1>2. /\ new \in Steps /\ n \in Nat /\ Len(new) = n + 1 /\ DOMAIN step = 1..n /\ DOMAIN new = 1..n + 1
      /\ new[n + 1] = c /\ \A k \in 1..n : new[k] = step[k]
  BY <1>1 DEF Steps
<1> HIDE DEF new, n, next
<1>3. \A g : g # f => OfField(new, g) = OfField(step, g)
  BY <1>1, <1>2 DEF OfField
<1>4. OfField(new, f) = OfField(step, f) \cup {n + 1}
  BY <1>1, <1>2 DEF OfField
<1>5. \A g : OfField(step, g) \subseteq 1..n
  BY <1>2 DEF OfField
<1>6. \A g \in DOMAIN Blank : Undone(next, new)[g] = d[g]
  <2> SUFFICES ASSUME NEW g \in DOMAIN Blank PROVE Undone(next, new)[g] = d[g]
    OBVIOUS
  <2>1. Undone(next, new)[g] = IF OfField(new, g) = {} THEN next[g] ELSE new[Min(OfField(new, g))].before
    BY <1>1, <1>2, UndoneField
  <2>2. d[g] = IF OfField(step, g) = {} THEN e[g] ELSE step[Min(OfField(step, g))].before
    BY UndoneField DEF Fits
  <2>3. OfField(step, g) # {} => Min(OfField(step, g)) \in OfField(step, g)
                                 /\ \A k \in OfField(step, g) : Min(OfField(step, g)) <= k
    BY EndsOfField
  <2>4. CASE g # f
    BY <1>1, <1>2, <1>3, <1>5, <2>1, <2>2, <2>3, <2>4
  <2>5. CASE g = f /\ OfField(step, f) = {}
    <3>1. Min({n + 1}) = n + 1
      BY <1>2, FirstIs
    <3>2. OfField(new, g) = {n + 1}
      BY <1>4, <2>5
    <3>3. Undone(next, new)[g] = new[n + 1].before
      BY <2>1, <3>1, <3>2
    <3>. QED
      BY <1>1, <1>2, <2>2, <2>5, <3>3
  <2>6. CASE g = f /\ OfField(step, f) # {}
    <3> DEFINE m == Min(OfField(step, f))
    <3>1. m \in OfField(step, f) /\ m \in 1..n /\ m \in OfField(new, f)
      BY <1>4, <1>5, <2>3, <2>6
    <3>2. \A k \in OfField(new, f) : m <= k
      <4> HIDE DEF m
      <4>1. \A k \in OfField(step, f) : m <= k
        BY <2>3, <2>6 DEF m
      <4>. QED
        BY <1>2, <1>4, <3>1, <4>1
    <3>3. OfField(new, f) \in SUBSET Nat
      BY <1>2, <1>4, <1>5
    <3>4. Min(OfField(new, f)) = m
      <4> HIDE DEF m
      <4>. QED
        BY <3>1, <3>2, <3>3, FirstIs
    <3>. QED
      BY <1>2, <2>1, <2>2, <2>6, <3>1, <3>4
  <2>. QED
    BY <2>4, <2>5, <2>6
<1>7. \A g \in DOMAIN Blank : Redone(d, new)[g] = next[g]
  <2> SUFFICES ASSUME NEW g \in DOMAIN Blank PROVE Redone(d, new)[g] = next[g]
    OBVIOUS
  <2>1. Redone(d, new)[g] = IF OfField(new, g) = {} THEN d[g] ELSE new[Max(OfField(new, g))].after
    BY <1>1, <1>2, UndoneField
  <2>2. e[g] = IF OfField(step, g) = {} THEN d[g] ELSE step[Max(OfField(step, g))].after
    BY UndoneField DEF Fits
  <2>3. CASE g # f
    <3>1. OfField(step, g) # {} => Max(OfField(step, g)) \in OfField(step, g)
      BY EndsOfField
    <3>. QED
      BY <1>1, <1>2, <1>3, <1>5, <2>1, <2>2, <2>3, <3>1
  <2>4. CASE g = f
    <3>1. OfField(new, f) \in SUBSET Nat /\ n + 1 \in OfField(new, f)
          /\ \A k \in OfField(new, f) : k <= n + 1
      BY <1>2, <1>4, <1>5
    <3>2. Max(OfField(new, f)) = n + 1
      BY <3>1, LastIs
    <3>. QED
      BY <1>1, <1>2, <2>1, <2>4, <3>1, <3>2
  <2>. QED
    BY <2>3, <2>4
<1>8. Undone(next, new) \in Docs /\ Redone(d, new) \in Docs
  BY <1>1, <1>2, UndoneField DEF Blank
<1>9. Undone(next, new) = d /\ Redone(d, new) = next
  BY <1>1, <1>6, <1>7, <1>8 DEF Docs
<1>. QED
  BY <1>1, <1>2, <1>9 DEF Fits, new, next, c

(* A step's last change goes on.                                              *)
LEMMA ChangeGoesOn ==
    ASSUME NEW d \in Docs, NEW e \in Docs, NEW step \in Steps, Fits(d, step, e), step # <<>>,
           NEW v \in Nat
    PROVE  LET f == step[Len(step)].field
               new == [step EXCEPT ![Len(step)].after = v]
           IN  /\ f \in DOMAIN Blank /\ [e EXCEPT ![f] = v] \in Docs
               /\ new \in Steps /\ Len(new) = Len(step) /\ Fits(d, new, [e EXCEPT ![f] = v])
<1> DEFINE n == Len(step)
           f == step[n].field
           new == [step EXCEPT ![n].after = v]
           next == [e EXCEPT ![f] = v]
<1>1. n \in Nat /\ n \in 1..n /\ DOMAIN step = 1..n /\ \A k \in 1..n : step[k] \in Changes
  BY DEF Steps
<1>2. f \in DOMAIN Blank
  BY <1>1 DEF Changes
<1>3. next \in Docs /\ next[f] = v /\ \A g \in DOMAIN Blank : g # f => next[g] = e[g]
  BY <1>2 DEF Docs
<1>4. \A c \in Changes : LET b == [c EXCEPT !.after = v] IN
          b \in Changes /\ b.field = c.field /\ b.before = c.before /\ b.after = v
  BY DEF Changes
<1>5. /\ DOMAIN new = 1..n
      /\ \A k \in 1..n : k # n => new[k] = step[k]
      /\ new[n] = [step[n] EXCEPT !.after = v]
  BY <1>1
<1> HIDE DEF new
<1>6. new[n] \in Changes /\ new[n].field = f /\ new[n].before = step[n].before /\ new[n].after = v
  BY <1>1, <1>4, <1>5
<1>7. \A k \in 1..n : new[k] \in Changes /\ new[k].field = step[k].field /\ new[k].before = step[k].before
  BY <1>1, <1>5, <1>6
<1>8. new \in Steps /\ Len(new) = n
  <2>1. new = [k \in 1..n |-> new[k]]
    BY <1>1 DEF new
  <2> HIDE DEF n
  <2>. QED
    BY <1>1, <1>7, <2>1 DEF Steps
<1> HIDE DEF n, next, f
<1>9. \A g : OfField(new, g) = OfField(step, g)
  BY <1>1, <1>5, <1>7 DEF OfField
<1>10. \A g : OfField(step, g) # {} => /\ Min(OfField(step, g)) \in OfField(step, g)
                                       /\ Max(OfField(step, g)) \in OfField(step, g)
                                       /\ \A k \in OfField(step, g) : k <= Max(OfField(step, g))
  BY EndsOfField
<1>11. n \in OfField(step, f) /\ \A g : OfField(step, g) \subseteq 1..n
  BY <1>1 DEF OfField, f
<1>12. \A g \in DOMAIN Blank : Undone(next, new)[g] = d[g]
  <2> SUFFICES ASSUME NEW g \in DOMAIN Blank PROVE Undone(next, new)[g] = d[g]
    OBVIOUS
  <2>1. Undone(next, new)[g] = IF OfField(new, g) = {} THEN next[g] ELSE new[Min(OfField(new, g))].before
    BY <1>3, <1>8, UndoneField
  <2>2. d[g] = IF OfField(step, g) = {} THEN e[g] ELSE step[Min(OfField(step, g))].before
    BY UndoneField DEF Fits
  <2>. QED
    BY <1>3, <1>7, <1>9, <1>10, <1>11, <2>1, <2>2
<1>13. \A g \in DOMAIN Blank : Redone(d, new)[g] = next[g]
  <2> SUFFICES ASSUME NEW g \in DOMAIN Blank PROVE Redone(d, new)[g] = next[g]
    OBVIOUS
  <2>1. Redone(d, new)[g] = IF OfField(new, g) = {} THEN d[g] ELSE new[Max(OfField(new, g))].after
    BY <1>3, <1>8, UndoneField
  <2>2. e[g] = IF OfField(step, g) = {} THEN d[g] ELSE step[Max(OfField(step, g))].after
    BY UndoneField DEF Fits
  <2>3. CASE g = f
    <3>1. Max(OfField(step, f)) = n
      BY <1>1, <1>10, <1>11
    <3>. QED
      BY <1>3, <1>6, <1>9, <1>11, <2>1, <2>3, <3>1
  <2>4. CASE g # f
    <3>1. OfField(step, g) # {} => Max(OfField(step, g)) \in 1..n /\ Max(OfField(step, g)) # n
      BY <1>10, <1>11, <2>4 DEF OfField, f
    <3>. QED
      BY <1>3, <1>5, <1>9, <2>1, <2>2, <2>4, <3>1
  <2>. QED
    BY <2>3, <2>4
<1>14. Undone(next, new) \in Docs /\ Redone(d, new) \in Docs
  BY <1>2, <1>3, <1>8, UndoneField
<1>15. Undone(next, new) = d /\ Redone(d, new) = next
  BY <1>3, <1>12, <1>13, <1>14 DEF Docs
<1>. QED
  BY <1>2, <1>3, <1>8, <1>15 DEF Fits, f, n, new, next

(* Steps that lead from one document to another; `back` when they lead back.  *)
Link(back, d, step, e) == IF back THEN Fits(e, step, d) ELSE Fits(d, step, e)
Path(back, steps, at) ==
    /\ at \in [1..Len(steps) + 1 -> Docs]
    /\ \A i \in 1..Len(steps) : Link(back, at[i], steps[i], at[i + 1])
Leads(back, steps, from, to) ==
    \E at : Path(back, steps, at) /\ at[1] = from /\ at[Len(steps) + 1] = to

LEMMA NoStepsLead ==
    ASSUME NEW back \in BOOLEAN, NEW d \in Docs
    PROVE  Leads(back, <<>>, d, d)
<1> DEFINE at == [i \in 1..1 |-> d]
<1>1. at \in [1..1 -> Docs] /\ at[1] = d
  OBVIOUS
<1> HIDE DEF at
<1>2. Len(<<>>) = 0
  OBVIOUS
<1>3. Path(back, <<>>, at) /\ at[Len(<<>>) + 1] = d
  BY <1>1, <1>2 DEF Path
<1>. QED
  BY <1>1, <1>3 DEF Leads

LEMMA OneMoreLeads ==
    ASSUME NEW back \in BOOLEAN, NEW steps \in Seq(Steps), NEW step \in Steps, NEW from \in Docs,
           NEW d \in Docs, NEW e \in Docs, Leads(back, steps, from, d), Link(back, d, step, e)
    PROVE  Leads(back, Append(steps, step), from, e)
<1>1. PICK at : Path(back, steps, at) /\ at[1] = from /\ at[Len(steps) + 1] = d
  BY DEF Leads
<1> DEFINE n == Len(steps)
           new == Append(steps, step)
           on == [i \in 1..n + 2 |-> IF i = n + 2 THEN e ELSE at[i]]
<1>2. n \in Nat /\ Len(new) = n + 1 /\ new[n + 1] = step /\ \A i \in 1..n : new[i] = steps[i]
  OBVIOUS
<1>3. at \in [1..n + 1 -> Docs] /\ \A i \in 1..n : Link(back, at[i], steps[i], at[i + 1])
  BY <1>1 DEF Path
<1> HIDE DEF n, new
<1>4. on \in [1..n + 2 -> Docs] /\ on[n + 2] = e /\ \A i \in 1..n + 1 : on[i] = at[i]
  BY <1>2, <1>3
<1> HIDE DEF on
<1>5. \A i \in 1..n + 1 : Link(back, on[i], new[i], on[i + 1])
  <2> SUFFICES ASSUME NEW i \in 1..n + 1 PROVE Link(back, on[i], new[i], on[i + 1])
    OBVIOUS
  <2>1. CASE i = n + 1
    <3>1. on[i] = d /\ new[i] = step /\ on[i + 1] = e
      BY <1>1, <1>2, <1>4, <2>1 DEF n
    <3>. QED
      BY <3>1
  <2>2. CASE i # n + 1
    <3>1. i \in 1..n /\ i + 1 \in 1..n + 1
      BY <1>2, <2>2
    <3>. QED
      BY <1>2, <1>3, <1>4, <3>1
  <2>. QED
    BY <2>1, <2>2
<1>6. on[1] = from /\ Len(new) + 1 = n + 2
  BY <1>1, <1>2, <1>4
<1>7. Path(back, new, on)
  BY <1>2, <1>4, <1>5, <1>6 DEF Path
<1>. QED
  BY <1>4, <1>6, <1>7 DEF Leads, new

(* The last of some steps, and the others.                                    *)
LEMMA LastAndFront ==
    ASSUME NEW S, NEW steps \in Seq(S), steps # <<>>
    PROVE  /\ Front(steps) \in Seq(S) /\ Last(steps) \in S
           /\ Len(Front(steps)) = Len(steps) - 1 /\ Len(steps) \in Nat \ {0}
           /\ \A i \in 1..Len(steps) - 1 : Front(steps)[i] = steps[i]
           /\ Last(steps) = steps[Len(steps)]
<1>1. Len(steps) \in Nat \ {0}
  BY EmptySeq
<1>2. Len(steps) - 1 \in Int /\ \A i \in 1..Len(steps) : steps[i] \in S
  BY <1>1
<1>3. /\ Front(steps) \in Seq(S)
      /\ Len(Front(steps)) = IF 1 <= Len(steps) - 1 THEN Len(steps) - 1 - 1 + 1 ELSE 0
      /\ \A i \in 1..Len(steps) - 1 - 1 + 1 : Front(steps)[i] = steps[1 + i - 1]
  BY <1>1, <1>2, SubSeqProperties DEF Front
<1>4. \A n \in Nat \ {0} : /\ (IF 1 <= n - 1 THEN n - 1 - 1 + 1 ELSE 0) = n - 1
                            /\ \A i \in 1..n - 1 : i \in 1..n - 1 - 1 + 1 /\ 1 + i - 1 = i
  OBVIOUS
<1>5. Len(Front(steps)) = Len(steps) - 1
  BY <1>1, <1>3, <1>4
<1>6. \A i \in 1..Len(steps) - 1 : Front(steps)[i] = steps[i]
  BY <1>1, <1>3, <1>4
<1>. QED
  BY <1>1, <1>2, <1>3, <1>5, <1>6 DEF Last

LEMMA LastLeads ==
    ASSUME NEW back \in BOOLEAN, NEW steps \in Seq(Steps), steps # <<>>, NEW from \in Docs,
           NEW e \in Docs, Leads(back, steps, from, e)
    PROVE  \E d \in Docs : Leads(back, Front(steps), from, d) /\ Link(back, d, Last(steps), e)
<1>1. PICK at : Path(back, steps, at) /\ at[1] = from /\ at[Len(steps) + 1] = e
  BY DEF Leads
<1> DEFINE n == Len(steps)
           most == Front(steps)
           on == [i \in 1..n |-> at[i]]
<1>2. /\ most \in Seq(Steps) /\ Len(most) = n - 1 /\ n \in Nat \ {0}
      /\ \A i \in 1..n - 1 : most[i] = steps[i]
      /\ Last(steps) = steps[n]
  BY LastAndFront
<1>3. at \in [1..n + 1 -> Docs] /\ \A i \in 1..n : Link(back, at[i], steps[i], at[i + 1])
  BY <1>1 DEF Path
<1> HIDE DEF n, most
<1>4. on \in [1..n -> Docs] /\ \A i \in 1..n : on[i] = at[i]
  BY <1>2, <1>3
<1> HIDE DEF on
<1>5. \A i \in 1..n - 1 : Link(back, on[i], most[i], on[i + 1])
  <2> SUFFICES ASSUME NEW i \in 1..n - 1 PROVE Link(back, on[i], most[i], on[i + 1])
    OBVIOUS
  <2>1. i \in 1..n /\ i + 1 \in 1..n
    BY <1>2
  <2>. QED
    BY <1>2, <1>3, <1>4, <2>1
<1>6. Len(most) + 1 = n
  BY <1>2
<1>7. Path(back, most, on)
  BY <1>2, <1>4, <1>5, <1>6 DEF Path
<1>8. on[1] = from /\ on[n] \in Docs /\ Link(back, on[n], steps[n], at[n + 1])
  BY <1>1, <1>2, <1>3, <1>4
<1>9. Leads(back, most, from, on[n])
  BY <1>6, <1>7, <1>8 DEF Leads
<1>. QED
  BY <1>1, <1>2, <1>8, <1>9 DEF n, most

(* The last step alone is replaced by one that leads elsewhere.               *)
LEMMA LastReplaced ==
    ASSUME NEW steps \in Seq(Steps), steps # <<>>, NEW step \in Steps
    PROVE  [steps EXCEPT ![Len(steps)] = step] = Append(Front(steps), step)
<1> DEFINE n == Len(steps)
           most == Front(steps)
           new == Append(most, step)
           old == [steps EXCEPT ![n] = step]
<1>1. /\ most \in Seq(Steps) /\ Len(most) = n - 1 /\ n \in Nat \ {0}
      /\ \A i \in 1..n - 1 : most[i] = steps[i]
  BY LastAndFront
<1>2. /\ old \in Seq(Steps) /\ Len(old) = n /\ old[n] = step
      /\ \A i \in 1..n - 1 : old[i] = steps[i]
  BY <1>1
<1> HIDE DEF most
<1>3. new \in Seq(Steps) /\ Len(new) = n /\ new[n] = step /\ \A i \in 1..n - 1 : new[i] = steps[i]
  BY <1>1
<1> HIDE DEF old, new, n
<1>4. \A i \in 1..n : old[i] = new[i]
  BY <1>1, <1>2, <1>3
<1>5. old = new
  BY <1>2, <1>3, <1>4, SeqEqual
<1>. QED
  BY <1>5 DEF old, new, n, most

------------------------------------------------------------------------------
(* The steps of the past lead from the document as its history began to what  *)
(* it was before the action under way, the action's changes to what it is,    *)
(* and what can be redone on from there, once the action changed nothing.     *)
HistoryTypes ==
    /\ doc \in Docs /\ original \in Docs /\ rendered \in Nat /\ changes \in Nat
    /\ past \in Seq(Steps) /\ future \in Seq(Steps) /\ group \in Steps
    /\ acting \in BOOLEAN /\ mergeable \in BOOLEAN /\ lost \in BOOLEAN
    /\ ~acting => group = <<>>

Connected(base) ==
    /\ base \in Docs /\ Leads(FALSE, past, original, base) /\ Fits(base, group, doc)
    /\ group = <<>> => \E end \in Docs : Leads(TRUE, future, end, doc)

HistoryInv == HistoryTypes /\ (~lost => \E base : Connected(base))

LEMMA HistoryMeans == HistoryInv => HistoryComesBack
<1> SUFFICES ASSUME HistoryInv PROVE HistoryComesBack
  OBVIOUS
<1> SUFFICES ASSUME ~lost, ~acting PROVE HistoryComesBack
  BY DEF HistoryComesBack, UndoneIsOriginal, RedoIsBack
<1>1. HistoryTypes /\ group = <<>>
  BY DEF HistoryInv, HistoryTypes
<1>2. PICK base : Connected(base)
  BY DEF HistoryInv
<1>3. base = doc /\ doc \in Docs /\ original \in Docs
  BY <1>1, <1>2, NothingFits DEF Connected, HistoryTypes
<1>4. ASSUME past = <<>> PROVE doc = original
  <2>1. PICK at : Path(FALSE, past, at) /\ at[1] = original /\ at[Len(past) + 1] = doc
    BY <1>2, <1>3 DEF Connected, Leads
  <2>2. Len(past) = 0
    BY <1>4
  <2>. QED
    BY <2>1, <2>2
<1>5. ASSUME past # <<>> PROVE Redone(Undone(doc, Last(past)), Last(past)) = doc
  <2>1. PICK d \in Docs : Link(FALSE, d, Last(past), doc)
    BY <1>1, <1>2, <1>3, <1>5, LastLeads DEF Connected, HistoryTypes
  <2>. QED
    BY <2>1 DEF Link, Fits
<1>6. ASSUME future # <<>> PROVE Undone(Redone(doc, Last(future)), Last(future)) = doc
  <2>1. PICK end \in Docs : Leads(TRUE, future, end, doc)
    BY <1>1, <1>2 DEF Connected
  <2>2. PICK d \in Docs : Link(TRUE, d, Last(future), doc)
    BY <1>1, <1>3, <1>6, <2>1, LastLeads DEF HistoryTypes
  <2>. QED
    BY <2>2 DEF Link, Fits
<1>. QED
  BY <1>4, <1>5, <1>6 DEF HistoryComesBack, UndoneIsOriginal, RedoIsBack

LEMMA BlankIs ==
    /\ Blank \in Docs /\ "text" \in DOMAIN Blank /\ "pixels" \in DOMAIN Blank
    /\ Blank["text"] = Blank.text
  BY DEF Blank, Docs

LEMMA HistoryStarts == HistoryInit => HistoryInv
<1> SUFFICES ASSUME HistoryInit PROVE HistoryInv
  OBVIOUS
<1>1. /\ doc = Blank /\ original = Blank /\ rendered = 0 /\ changes = 0 /\ past = <<>>
      /\ future = <<>> /\ group = <<>> /\ acting = FALSE /\ mergeable = FALSE /\ lost = FALSE
  BY DEF HistoryInit
<1>2. Blank \in Docs /\ <<>> \in Steps /\ <<>> \in Seq(Steps)
  BY BlankIs, NothingFits
<1>3. HistoryTypes
  BY <1>1, <1>2 DEF HistoryTypes
<1>4. Connected(Blank)
  BY <1>1, <1>2, NothingFits, NoStepsLead DEF Connected
<1>. QED
  BY <1>3, <1>4 DEF HistoryInv

LEMMA ChangeIs ==
    ASSUME NEW f \in DOMAIN Blank, NEW before \in Nat, NEW after \in Nat
    PROVE  Change(f, before, after) \in Changes
  BY DEF Change, Changes

(* What holds of the values once nothing is under way.                        *)
LEMMA SettledTypes ==
    ASSUME HistoryTypes, doc' \in Docs, original' = original, rendered' \in Nat, changes' \in Nat,
           past' \in Seq(Steps), future' = <<>>, group' = <<>>, acting' = FALSE,
           mergeable' \in BOOLEAN, lost' \in BOOLEAN
    PROVE  HistoryTypes'
<1>1. future' \in Seq(Steps) /\ group' \in Steps /\ acting' \in BOOLEAN
  <2>1. <<>> \in Steps /\ <<>> \in Seq(Steps)
    BY EmptySeq DEF Steps
  <2>. QED
    BY <2>1
<1>2. original' \in Docs
  BY DEF HistoryTypes
<1>. QED
  BY <1>1, <1>2 DEF HistoryTypes

(* A step is pushed when nothing is under way; a future is given up.          *)
LEMMA StepPushed ==
    ASSUME HistoryInv, NEW step \in Steps, NEW now \in Docs,
           group' = <<>>, acting' = FALSE, mergeable' = TRUE, future' = <<>>, doc' = now,
           original' = original, rendered' \in Nat, changes' \in Nat,
           past' = IF Len(past) = MaxSteps THEN Append(Tail(past), step) ELSE Append(past, step),
           lost' \in BOOLEAN,
           ~lost' => /\ ~lost /\ Len(past) # MaxSteps
                     /\ \E base : Connected(base) /\ Fits(base, step, now)
    PROVE  HistoryInv'
<1>1. HistoryTypes
  BY DEF HistoryInv
<1>2. past' \in Seq(Steps)
  <2>1. CASE Len(past) = MaxSteps
    <3>1. past \in Seq(Steps) /\ past # <<>>
      BY <1>1, <2>1, HistoryAssumption DEF HistoryTypes
    <3>2. Tail(past) \in Seq(Steps)
      BY <3>1
    <3>. QED
      BY <2>1, <3>2
  <2>2. CASE Len(past) # MaxSteps
    BY <1>1, <2>2 DEF HistoryTypes
  <2>. QED
    BY <2>1, <2>2
<1>3. HistoryTypes'
  BY <1>1, <1>2, SettledTypes
<1>4. ASSUME ~lost' PROVE Connected(now)'
  <2>1. PICK base : Connected(base) /\ Fits(base, step, now)
    BY <1>4
  <2>2. Leads(FALSE, Append(past, step), original, now)
    BY <1>1, <2>1, OneMoreLeads DEF Connected, HistoryTypes, Link
  <2>3. past' = Append(past, step)
    BY <1>4
  <2>. QED
    BY <2>2, <2>3, NothingFits, NoStepsLead DEF Connected
<1>. QED
  BY <1>3, <1>4 DEF HistoryInv

(* The last step goes on when nothing is under way.                           *)
LEMMA StepGoesOn ==
    ASSUME HistoryInv, past # <<>>, Last(past) # <<>>, NEW v \in Nat, NEW now \in Docs,
           ~lost' => ~lost /\ \A base : Connected(base) =>
                                 now = [base EXCEPT ![Last(past)[Len(Last(past))].field] = v],
           group' = <<>>, acting' = FALSE, mergeable' = TRUE, future' = <<>>, doc' = now,
           original' = original, rendered' \in Nat, changes' \in Nat, lost' \in BOOLEAN,
           past' = [past EXCEPT ![Len(past)][Len(Last(past))].after = v]
    PROVE  HistoryInv'
<1> DEFINE step == Last(past)
           new == [step EXCEPT ![Len(step)].after = v]
<1>1. HistoryTypes
  BY DEF HistoryInv
<1>2. step \in Steps /\ step = past[Len(past)] /\ Front(past) \in Seq(Steps) /\ past \in Seq(Steps)
  BY <1>1, LastAndFront DEF HistoryTypes
<1>3. new \in Steps
  <2>1. PICK d \in Docs : TRUE
    BY <1>1 DEF HistoryTypes
  <2>2. Len(step) \in Nat /\ Len(step) \in 1..Len(step) /\ \A k \in 1..Len(step) : step[k] \in Changes
    BY <1>2 DEF Steps
  <2>3. \A c \in Changes : [c EXCEPT !.after = v] \in Changes
    BY DEF Changes
  <2>4. [step[Len(step)] EXCEPT !.after = v] \in Changes
    BY <2>2, <2>3
  <2>5. new = [step EXCEPT ![Len(step)] = [step[Len(step)] EXCEPT !.after = v]]
    BY <2>2
  <2>. QED
    BY <1>2, <2>4, <2>5 DEF Steps
<1>4. past' = [past EXCEPT ![Len(past)] = new]
  BY <1>2
<1> HIDE DEF step, new
<1>5. past' = Append(Front(past), new)
  BY <1>2, <1>3, <1>4, LastReplaced
<1>6. HistoryTypes'
  <2>1. past' \in Seq(Steps)
    BY <1>2, <1>3, <1>5, AppendProperties
  <2>. QED
    BY <1>1, <2>1, SettledTypes
<1>7. ASSUME ~lost' PROVE Connected(now)'
  <2>1. PICK base : Connected(base)
    BY <1>7 DEF HistoryInv
  <2>2. base \in Docs /\ Leads(FALSE, past, original, base) /\ original \in Docs
    BY <1>1, <2>1 DEF Connected, HistoryTypes
  <2>3. PICK d \in Docs : Leads(FALSE, Front(past), original, d) /\ Link(FALSE, d, step, base)
    BY <1>2, <2>2, LastLeads DEF step
  <2>4. now = [base EXCEPT ![step[Len(step)].field] = v]
    BY <1>7, <2>1 DEF step
  <2>5. Fits(d, step, base)
    BY <2>3 DEF Link
  <2>6. step # <<>>
    BY DEF step
  <2>7. Fits(d, new, now)
    BY <1>2, <2>2, <2>4, <2>5, <2>6, ChangeGoesOn DEF new
  <2>8. Leads(FALSE, Append(Front(past), new), original, now)
    BY <1>2, <1>3, <2>2, <2>3, <2>7, OneMoreLeads DEF Link
  <2>. QED
    BY <1>5, <2>8, NothingFits, NoStepsLead DEF Connected
<1>. QED
  BY <1>6, <1>7 DEF HistoryInv

(* A change is recorded when nothing is under way.                            *)
LEMMA ChangeRecorded ==
    ASSUME HistoryInv, ~acting, NEW f \in DOMAIN Blank, NEW before \in Nat, NEW v \in Nat,
           Record(f, before, v), doc' = [doc EXCEPT ![f] = v], acting' = acting,
           original' = original, rendered' = rendered, changes' \in Nat, lost' \in BOOLEAN,
           ~lost' => ~lost /\ before = doc[f] /\ ~Drops(f, before)
    PROVE  HistoryInv'
<1> DEFINE now == [doc EXCEPT ![f] = v]
           step == <<Change(f, before, v)>>
<1>1. HistoryTypes /\ acting = FALSE /\ group = <<>> /\ doc \in Docs /\ rendered \in Nat /\ past \in Seq(Steps)
  BY DEF HistoryInv, HistoryTypes
<1>2. now \in Docs
  BY <1>1 DEF Docs
<1>3. \A base : Connected(base) => base = doc
  BY <1>1, NothingFits DEF Connected
<1>4. CASE Continues(f, before)
  <2>1. /\ past # <<>> /\ Last(past) # <<>> /\ Len(Last(past)) = 1
        /\ Last(Last(past)).field = f
    BY <1>4 DEF Continues
  <2>2. Last(past)[Len(Last(past))].field = f
    BY <2>1 DEF Last
  <2>3. /\ past' = [past EXCEPT ![Len(past)][Len(Last(past))].after = v]
        /\ future' = <<>> /\ mergeable' = TRUE /\ group' = <<>>
    BY <1>1, <1>4, <2>1 DEF Record, Merge
  <2>4. \A base : Connected(base) => now = [base EXCEPT ![Last(past)[Len(Last(past))].field] = v]
    BY <1>3, <2>2
  <2>5. doc' = now /\ rendered' \in Nat /\ acting' = FALSE
    BY <1>1 DEF HistoryTypes
  <2>6. ~lost' => ~lost
    OBVIOUS
  <2> HIDE DEF now, step
  <2>. QED
    BY <1>2, <2>1, <2>3, <2>4, <2>5, <2>6, StepGoesOn
<1>5. CASE ~Continues(f, before)
  <2>1. /\ past' = IF Len(past) = MaxSteps THEN Append(Tail(past), step) ELSE Append(past, step)
        /\ future' = <<>> /\ mergeable' = TRUE /\ group' = <<>>
    BY <1>1, <1>5 DEF Record, Push
  <2>2. Change(f, before, v) \in Changes
    BY DEF Change, Changes
  <2>3. step \in Steps /\ step = Append(<<>>, Change(f, before, v))
    BY <2>2 DEF Steps
  <2>4. ASSUME ~lost' PROVE /\ ~lost /\ Len(past) # MaxSteps
                            /\ \E base : Connected(base) /\ Fits(base, step, now)
    <3>1. ~lost /\ before = doc[f] /\ Len(past) # MaxSteps
      BY <1>5, <2>4 DEF Drops
    <3>2. PICK base : Connected(base)
      BY <3>1 DEF HistoryInv
    <3>3. <<>> \in Steps /\ Fits(doc, <<>>, doc)
      BY <1>1, NothingFits
    <3>4. Fits(doc, Append(<<>>, Change(f, doc[f], v)), now)
      BY <1>1, <3>3, ChangeJoins
    <3>5. Fits(base, step, now)
      BY <1>3, <2>3, <3>1, <3>2, <3>4
    <3>. QED
      BY <3>1, <3>2, <3>5
  <2>5. doc' = now /\ rendered' \in Nat /\ acting' = FALSE
    BY <1>1 DEF HistoryTypes
  <2> HIDE DEF now, step
  <2>. QED
    BY <1>2, <2>1, <2>3, <2>4, <2>5, StepPushed
<1>. QED
  BY <1>4, <1>5

(* A change within an action: its own, or the last one going on.              *)
LEMMA ChangeInAction ==
    ASSUME HistoryInv, acting, NEW f \in DOMAIN Blank, NEW before \in Nat, NEW v \in Nat,
           \/ group' = Append(group, Change(f, before, v))
           \/ /\ group # <<>> /\ group[Len(group)].field = f
              /\ group' = [group EXCEPT ![Len(group)].after = v],
           doc' = [doc EXCEPT ![f] = v],
           UNCHANGED <<past, future, mergeable, acting, original, rendered>>,
           changes' \in Nat, lost' \in BOOLEAN, ~lost' => ~lost /\ before = doc[f]
    PROVE  HistoryInv'
<1> DEFINE now == [doc EXCEPT ![f] = v]
<1>1. HistoryTypes /\ doc \in Docs /\ group \in Steps
  BY DEF HistoryInv, HistoryTypes
<1>2. now \in Docs
  BY <1>1 DEF Docs
<1>3. group' \in Steps /\ group' # <<>>
  <2>1. CASE group' = Append(group, Change(f, before, v))
    <3>1. Change(f, before, v) \in Changes
      BY DEF Change, Changes
    <3>. QED
      BY <1>1, <2>1, <3>1 DEF Steps
  <2>2. CASE group # <<>> /\ group' = [group EXCEPT ![Len(group)].after = v]
    <3>2. Len(group) \in Nat /\ Len(group) # 0
      BY <1>1, <2>2, EmptySeq DEF Steps
    <3>3. \A c \in Changes : [c EXCEPT !.after = v] \in Changes
      BY DEF Changes
    <3>4. group' = [group EXCEPT ![Len(group)] = [group[Len(group)] EXCEPT !.after = v]]
          /\ group[Len(group)] \in Changes
      BY <1>1, <2>2, <3>2 DEF Steps
    <3>5. group' \in Steps /\ Len(group') = Len(group)
      BY <1>1, <3>2, <3>3, <3>4 DEF Steps
    <3>. QED
      BY <3>2, <3>5
  <2>. QED
    BY <2>1, <2>2
<1>4. HistoryTypes'
  BY <1>1, <1>2, <1>3 DEF HistoryTypes
<1>5. ASSUME ~lost' PROVE \E base : Connected(base)'
  <2>1. ~lost /\ before = doc[f]
    BY <1>5
  <2>2. PICK base : Connected(base)
    BY <2>1 DEF HistoryInv
  <2>3. base \in Docs /\ Fits(base, group, doc)
    BY <2>2 DEF Connected
  <2>4. Fits(base, group', now)
    <3>1. CASE group' = Append(group, Change(f, before, v))
      BY <1>1, <2>1, <2>3, <3>1, ChangeJoins
    <3>2. CASE /\ group # <<>> /\ group[Len(group)].field = f
               /\ group' = [group EXCEPT ![Len(group)].after = v]
      BY <1>1, <2>3, <3>2, ChangeGoesOn
    <3>. QED
      BY <3>1, <3>2
  <2>5. Connected(base)'
    BY <1>3, <2>2, <2>4 DEF Connected
  <2>. QED
    BY <2>5
<1>. QED
  BY <1>4, <1>5 DEF HistoryInv

LEMMA DesignerStep == HistoryInv /\ DesignerChanges => HistoryInv'
<1> SUFFICES ASSUME HistoryInv, DesignerChanges PROVE HistoryInv'
  OBVIOUS
<1> DEFINE v == changes + 1
<1>1. HistoryTypes /\ "text" \in DOMAIN Blank /\ v \in Nat /\ rendered \in Nat
  BY BlankIs DEF HistoryInv, HistoryTypes
<1>2. doc \in Docs /\ doc' = [doc EXCEPT !["text"] = v]
  BY <1>1 DEF HistoryTypes, DesignerChanges
<1>3. /\ Record("text", rendered, v) /\ UNCHANGED <<rendered, acting, original>> /\ changes' = v
      /\ lost' = (lost \/ rendered # doc["text"] \/ Drops("text", rendered))
  BY DEF DesignerChanges
<1>4. lost' \in BOOLEAN /\ changes' \in Nat
  BY <1>1, <1>3 DEF HistoryTypes
<1>5. ~lost' => ~lost /\ rendered = doc["text"] /\ ~Drops("text", rendered)
  BY <1>3
<1> HIDE DEF v
<1>6. CASE ~acting
  BY <1>1, <1>2, <1>3, <1>4, <1>5, <1>6, ChangeRecorded
<1>7. CASE acting
  <2>1. /\ UNCHANGED <<past, future, mergeable>>
        /\ \/ group' = group \o <<Change("text", rendered, v)>>
           \/ /\ group # <<>> /\ Last(group).field = "text"
              /\ group' = [group EXCEPT ![Len(group)].after = v]
    BY <1>3, <1>7 DEF Record, Push, Merge, Continues
  <2>2. group \o <<Change("text", rendered, v)>> = Append(group, Change("text", rendered, v))
    BY <1>1, ChangeIs, AppendIsConcat DEF HistoryTypes, Steps
  <2>. QED
    BY <1>1, <1>2, <1>3, <1>4, <1>5, <1>7, <2>1, <2>2, ChangeInAction DEF Last
<1>. QED
  BY <1>6, <1>7

LEMMA PixelsStep == HistoryInv /\ PixelsChange => HistoryInv'
<1> SUFFICES ASSUME HistoryInv, PixelsChange PROVE HistoryInv'
  OBVIOUS
<1> DEFINE v == changes + 1
           before == doc["pixels"]
<1>1. HistoryTypes /\ "pixels" \in DOMAIN Blank /\ v \in Nat /\ doc \in Docs
  BY BlankIs DEF HistoryInv, HistoryTypes
<1>2. before \in Nat /\ doc' = [doc EXCEPT !["pixels"] = v]
  BY <1>1 DEF Docs, PixelsChange
<1>3. /\ UNCHANGED <<rendered, acting, original>> /\ changes' = v
      /\ lost' = (lost \/ Drops("pixels", before))
      /\ IF acting THEN Push(<<Change("pixels", before, v)>>) ELSE Record("pixels", before, v)
  BY DEF PixelsChange
<1>4. lost' \in BOOLEAN /\ changes' \in Nat
  BY <1>1, <1>3 DEF HistoryTypes
<1>5. ~lost' => ~lost /\ before = doc["pixels"] /\ ~Drops("pixels", before)
  BY <1>3
<1> HIDE DEF v, before
<1>6. CASE ~acting
  BY <1>1, <1>2, <1>3, <1>4, <1>5, <1>6, ChangeRecorded
<1>7. CASE acting
  <2>1. /\ UNCHANGED <<past, future, mergeable>>
        /\ group' = group \o <<Change("pixels", before, v)>>
    BY <1>3, <1>7 DEF Push
  <2>2. group \o <<Change("pixels", before, v)>> = Append(group, Change("pixels", before, v))
    BY <1>1, <1>2, ChangeIs, AppendIsConcat DEF HistoryTypes, Steps
  <2>. QED
    BY <1>1, <1>2, <1>3, <1>4, <1>5, <1>7, <2>1, <2>2, ChangeInAction
<1>. QED
  BY <1>6, <1>7

(* What is recorded leads on as long as no document changed.                  *)
LEMMA NothingRecorded ==
    ASSUME HistoryInv, UNCHANGED <<doc, past, future, group, lost, original, changes>>,
           rendered' \in Nat, mergeable' \in BOOLEAN, acting' \in BOOLEAN,
           ~acting' => group = <<>>
    PROVE  HistoryInv'
<1>1. HistoryTypes'
  BY DEF HistoryInv, HistoryTypes
<1>2. \A base : Connected(base) => Connected(base)'
  BY DEF Connected
<1>. QED
  BY <1>1, <1>2 DEF HistoryInv

LEMMA TextViewStep == HistoryInv /\ TextViewChanges => HistoryInv'
<1> SUFFICES ASSUME HistoryInv, TextViewChanges PROVE HistoryInv'
  OBVIOUS
<1>1. HistoryTypes
  BY DEF HistoryInv
<1>2. doc' = [doc EXCEPT !["text"] = changes + 1] /\ changes + 1 \in Nat
  BY <1>1 DEF TextViewChanges, HistoryTypes
<1>3. doc' \in Docs
  BY <1>1, <1>2, BlankIs DEF HistoryTypes, Docs
<1>4. HistoryTypes'
  BY <1>1, <1>2, <1>3 DEF TextViewChanges, HistoryTypes
<1>5. lost' = TRUE
  BY DEF TextViewChanges
<1>. QED
  BY <1>4, <1>5 DEF HistoryInv

LEMMA QuietSteps == HistoryInv /\ (Render \/ Pause \/ BeginAction) => HistoryInv'
<1> SUFFICES ASSUME HistoryInv, Render \/ Pause \/ BeginAction PROVE HistoryInv'
  OBVIOUS
<1>1. HistoryTypes
  BY DEF HistoryInv
<1>2. doc.text \in Nat
  BY <1>1, BlankIs DEF HistoryTypes, Docs
<1>3. CASE Render
  BY <1>1, <1>2, <1>3, NothingRecorded DEF Render, HistoryTypes
<1>4. CASE Pause
  BY <1>1, <1>4, NothingRecorded DEF Pause, HistoryTypes
<1>5. CASE BeginAction
  BY <1>1, <1>5, NothingRecorded DEF BeginAction, HistoryTypes
<1>. QED
  BY <1>3, <1>4, <1>5

LEMMA EndStep == HistoryInv /\ EndAction => HistoryInv'
<1> SUFFICES ASSUME HistoryInv, EndAction PROVE HistoryInv'
  OBVIOUS
<1>1. /\ HistoryTypes /\ doc \in Docs /\ group \in Steps /\ past \in Seq(Steps)
      /\ rendered \in Nat /\ changes \in Nat /\ lost \in BOOLEAN
  BY DEF HistoryInv, HistoryTypes
<1>2. UNCHANGED <<doc, rendered, changes, original>> /\ acting' = FALSE /\ group' = <<>>
  BY DEF EndAction
<1>3. CASE group = <<>>
  <2>1. UNCHANGED <<past, future, mergeable, lost, group>>
    BY <1>2, <1>3 DEF EndAction
  <2>. QED
    BY <1>1, <1>2, <1>3, <2>1, NothingRecorded DEF HistoryTypes
<1>4. CASE group # <<>> /\ ~Joins
  <2>1. /\ past' = IF Len(past) = MaxSteps THEN Append(Tail(past), group) ELSE Append(past, group)
        /\ lost' = (lost \/ Len(past) = MaxSteps) /\ future' = <<>> /\ mergeable' = TRUE
    BY <1>4 DEF EndAction
  <2>2. ASSUME ~lost' PROVE \E base : Connected(base) /\ Fits(base, group, doc)
    BY <2>1, <2>2 DEF HistoryInv, Connected
  <2>. QED
    BY <1>1, <1>2, <2>1, <2>2, StepPushed
<1>5. CASE group # <<>> /\ Joins
  <2> DEFINE v == group[1].after
             f == group[1].field
  <2>1. /\ past # <<>> /\ Len(Last(past)) = 1 /\ Last(past)[1].field = f /\ Len(group) = 1
        /\ past' = [past EXCEPT ![Len(past)][1].after = v]
        /\ lost' = lost /\ future' = <<>> /\ mergeable' = TRUE
    BY <1>1, <1>5 DEF EndAction, Joins
  <2>2. Len(group) = 1 /\ DOMAIN group = {1} /\ group[1] \in Changes
    <3>1. Len(group) = 1
      BY <2>1
    <3>2. DOMAIN group = 1..Len(group) /\ \A k \in 1..Len(group) : group[k] \in Changes
      BY <1>1 DEF Steps
    <3>3. 1..1 = {1}
      OBVIOUS
    <3>. QED
      BY <3>1, <3>2, <3>3
  <2>3. v \in Nat /\ f \in DOMAIN Blank
    BY <2>2 DEF Changes
  <2>4. Last(past) # <<>>
    BY <2>1
  <2>5. ASSUME NEW base, Connected(base) PROVE doc = [base EXCEPT ![f] = v]
    <3>1. base \in Docs /\ Redone(base, group) = doc
      BY <2>5 DEF Connected, Fits
    <3>2. OfField(group, f) = {1} /\ \A g : g # f => OfField(group, g) = {}
      BY <2>2 DEF OfField
    <3>3. Max({1}) = 1
      BY LastIs
    <3>4. ASSUME NEW g \in DOMAIN Blank PROVE doc[g] = IF g = f THEN v ELSE base[g]
      <4>1. doc[g] = IF OfField(group, g) = {} THEN base[g] ELSE group[Max(OfField(group, g))].after
        BY <1>1, <3>1, UndoneField
      <4>. QED
        BY <3>2, <3>3, <4>1
    <3>. QED
      BY <1>1, <3>1, <3>4 DEF Docs
  <2> HIDE DEF v, f
  <2>. QED
    BY <1>1, <1>2, <2>1, <2>3, <2>4, <2>5, StepGoesOn
<1>. QED
  BY <1>3, <1>4, <1>5

(* A step is taken from one side of the history to the other.                 *)
LEMMA StepMoves ==
    ASSUME HistoryInv, NEW now \in Docs, doc' = now,
           past' \in Seq(Steps), future' \in Seq(Steps),
           UNCHANGED <<rendered, acting, group, changes, original>>, mergeable' = FALSE,
           lost' = (lost \/ acting),
           ~lost /\ ~acting =>
               /\ Leads(FALSE, past', original, now)
               /\ \E end \in Docs : Leads(TRUE, future', end, now)
    PROVE  HistoryInv'
<1>1. HistoryTypes'
  BY DEF HistoryInv, HistoryTypes
<1>2. ASSUME ~lost' PROVE Connected(now)'
  <2>1. ~lost /\ ~acting /\ group' = <<>>
    BY <1>2 DEF HistoryInv, HistoryTypes
  <2>. QED
    BY <2>1, NothingFits DEF Connected
<1>. QED
  BY <1>1, <1>2 DEF HistoryInv

LEMMA UndoStep == HistoryInv /\ Undo => HistoryInv'
<1> SUFFICES ASSUME HistoryInv, Undo PROVE HistoryInv'
  OBVIOUS
<1> DEFINE step == Last(past)
           now == Undone(doc, step)
<1>1. /\ HistoryTypes /\ doc \in Docs /\ original \in Docs
      /\ past \in Seq(Steps) /\ future \in Seq(Steps) /\ past # <<>>
  BY DEF HistoryInv, HistoryTypes, Undo
<1>2. step \in Steps /\ Front(past) \in Seq(Steps)
  BY <1>1, LastAndFront
<1>3. now \in Docs
  BY <1>1, <1>2, BlankIs, UndoneField
<1>4. /\ doc' = now /\ past' = Front(past) /\ future' = Append(future, step) /\ mergeable' = FALSE
      /\ lost' = (lost \/ acting) /\ UNCHANGED <<rendered, acting, group, changes, original>>
  BY DEF Undo
<1>5. past' \in Seq(Steps) /\ future' \in Seq(Steps)
  BY <1>1, <1>2, <1>4, AppendProperties
<1> HIDE DEF step
<1>6. ASSUME ~lost, ~acting
      PROVE  Leads(FALSE, past', original, now) /\ \E end \in Docs : Leads(TRUE, future', end, now)
  <2>1. PICK base : Connected(base)
    BY <1>6 DEF HistoryInv
  <2>2. group = <<>> /\ base = doc
    BY <1>1, <1>6, <2>1, NothingFits DEF Connected, HistoryTypes
  <2>3. PICK d \in Docs : Leads(FALSE, Front(past), original, d) /\ Link(FALSE, d, step, doc)
    BY <1>1, <2>1, <2>2, LastLeads DEF Connected, step
  <2>4. Fits(d, step, doc) /\ d = now
    BY <2>3 DEF Link, Fits
  <2>5. PICK end \in Docs : Leads(TRUE, future, end, doc)
    BY <2>1, <2>2 DEF Connected
  <2>6. Link(TRUE, doc, step, d)
    BY <2>4 DEF Link
  <2>7. Leads(TRUE, Append(future, step), end, d)
    BY <1>1, <1>2, <2>5, <2>6, OneMoreLeads
  <2>. QED
    BY <1>4, <2>3, <2>4, <2>7
<1> HIDE DEF now
<1>. QED
  BY <1>3, <1>4, <1>5, <1>6, StepMoves

LEMMA RedoStep == HistoryInv /\ Redo => HistoryInv'
<1> SUFFICES ASSUME HistoryInv, Redo PROVE HistoryInv'
  OBVIOUS
<1> DEFINE step == Last(future)
           now == Redone(doc, step)
<1>1. /\ HistoryTypes /\ doc \in Docs /\ original \in Docs
      /\ past \in Seq(Steps) /\ future \in Seq(Steps) /\ future # <<>>
  BY DEF HistoryInv, HistoryTypes, Redo
<1>2. step \in Steps /\ Front(future) \in Seq(Steps)
  BY <1>1, LastAndFront
<1>3. now \in Docs
  BY <1>1, <1>2, BlankIs, UndoneField
<1>4. /\ doc' = now /\ future' = Front(future) /\ past' = Append(past, step) /\ mergeable' = FALSE
      /\ lost' = (lost \/ acting) /\ UNCHANGED <<rendered, acting, group, changes, original>>
  BY DEF Redo
<1>5. past' \in Seq(Steps) /\ future' \in Seq(Steps)
  BY <1>1, <1>2, <1>4, AppendProperties
<1> HIDE DEF step
<1>6. ASSUME ~lost, ~acting
      PROVE  Leads(FALSE, past', original, now) /\ \E end \in Docs : Leads(TRUE, future', end, now)
  <2>1. PICK base : Connected(base)
    BY <1>6 DEF HistoryInv
  <2>2. group = <<>> /\ base = doc
    BY <1>1, <1>6, <2>1, NothingFits DEF Connected, HistoryTypes
  <2>3. PICK end \in Docs : Leads(TRUE, future, end, doc)
    BY <2>1, <2>2 DEF Connected
  <2>4. PICK d \in Docs : Leads(TRUE, Front(future), end, d) /\ Link(TRUE, d, step, doc)
    BY <1>1, <2>3, LastLeads DEF step
  <2>5. Fits(doc, step, d) /\ d = now
    BY <2>4 DEF Link, Fits
  <2>6. Link(FALSE, doc, step, d)
    BY <2>5 DEF Link
  <2>7. Leads(FALSE, Append(past, step), original, d)
    BY <1>1, <1>2, <2>1, <2>2, <2>6, OneMoreLeads DEF Connected
  <2>. QED
    BY <1>4, <2>4, <2>5, <2>7
<1> HIDE DEF now
<1>. QED
  BY <1>3, <1>4, <1>5, <1>6, StepMoves

LEMMA ForgetStep == HistoryInv /\ Forget => HistoryInv'
<1> SUFFICES ASSUME HistoryInv, Forget PROVE HistoryInv'
  OBVIOUS
<1>1. HistoryTypes /\ doc \in Docs
  BY DEF HistoryInv, HistoryTypes
<1>2. /\ past' = <<>> /\ future' = <<>> /\ acting' = FALSE /\ group' = <<>> /\ mergeable' = FALSE
      /\ lost' = FALSE /\ original' = doc /\ rendered' = doc.text /\ UNCHANGED <<doc, changes>>
  BY DEF Forget
<1>3. doc.text \in Nat /\ <<>> \in Steps /\ <<>> \in Seq(Steps) /\ Fits(doc, <<>>, doc)
  BY <1>1, BlankIs, NothingFits, EmptySeq DEF Docs
<1>4. HistoryTypes'
  BY <1>1, <1>2, <1>3 DEF HistoryTypes
<1>5. Leads(FALSE, <<>>, doc, doc) /\ Leads(TRUE, <<>>, doc, doc)
  BY <1>1, NoStepsLead
<1>6. Connected(doc)'
  BY <1>1, <1>2, <1>3, <1>5 DEF Connected
<1>. QED
  BY <1>4, <1>6 DEF HistoryInv

LEMMA HistorySteps == HistoryInv /\ [HistoryNext]_historyVars => HistoryInv'
<1> SUFFICES ASSUME HistoryInv, [HistoryNext]_historyVars PROVE HistoryInv'
  OBVIOUS
<1>1. CASE UNCHANGED historyVars
  BY <1>1, NothingRecorded DEF historyVars, HistoryInv, HistoryTypes
<1>2. CASE HistoryNext
  BY <1>2, DesignerStep, PixelsStep, TextViewStep, QuietSteps, EndStep, UndoStep, RedoStep, ForgetStep
     DEF HistoryNext
<1>. QED
  BY <1>1, <1>2

(* Everything undone is the document as its history began, and a step undone  *)
(* and redone is the document before, whatever merged, was grouped, undone or *)
(* given up, if every change was recorded as it was made                      *)
(* (infra/history/history.tsx).                                               *)
THEOREM HistoryComesBackHolds == HistorySpec => []HistoryComesBack
<1>1. HistoryInit => HistoryInv
  BY HistoryStarts
<1>2. HistoryInv /\ [HistoryNext]_historyVars => HistoryInv'
  BY HistorySteps
<1>3. HistoryInv => HistoryComesBack
  BY HistoryMeans
<1>. QED
  BY <1>1, <1>2, <1>3, PTL DEF HistorySpec
==============================================================================
