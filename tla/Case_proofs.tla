----------------------------- MODULE Case_proofs -----------------------------
(***************************************************************************)
(* Proofs about a parity case.  Provider: the inductive invariant           *)
(* ProviderInv, from which it follows that what passes is what was          *)
(* scripted, whatever connections the candidate opens, sends on and drops   *)
(* while the provider closes.  CaseProcesses: CaseInv, from which it        *)
(* follows that what outlives a candidate is ended and reported.            *)
(***************************************************************************)
EXTENDS Provider, CaseProcesses, FiniteSetTheorems, SequenceTheorems, WellFoundedInduction, TLAPS

Answering == {"barrier", "delay", "headers", "chunk", "body"}
Quiet == {"free", "idle", "reading", "gone"}

(* No answer is on its way: what ends is a request that could not be read. *)
Resting(c) ==
    \/ conn[c].st \in Quiet
    \/ conn[c].st = "ending" /\ (conn[c].at # 0 => requests[conn[c].at].ended)

(* What a connection's thread has reached: a response in progress, one it  *)
(* has ended, the names it has waited for.  Once the handlers were waited  *)
(* for, none answers any more unless there is an error to show for it; and *)
(* none touches a response that was judged.                                *)
ConnOK(c) ==
    /\ conn[c].st \in Answering => conn[c].at # 0
    /\ conn[c].st = "reading" => conn[c].sent # <<>>
    /\ conn[c].st \in Quiet /\ conn[c].at # 0 => requests[conn[c].at].ended
    /\ conn[c].st = "delay" => NameOf(Barrier, ScriptAt(c)) \in events \cup {NoName}
    /\ conn[c].st \in {"headers", "chunk", "body"} => NameOf(Barrier, ScriptAt(c)) \in released \cup {NoName}
    /\ conn[c].st = "body" => NameOf(ChunkBarrier, ScriptAt(c)) \in released \cup {NoName}
    /\ verdict = "passed" /\ conn[c].st \in Answering => conn[c].at > Len(collected)
    /\ main \in {"guard", "collect", "judge"} /\ verdict = "none" /\ ~errors => Resting(c)

(* A response that has not ended is in the hands of a thread; a script     *)
(* taken precedes those of its key that are left.                          *)
RequestOK(i) ==
    /\ requests[i].ended \/ \E c \in Conns : conn[c].at = i /\ conn[c].st \in Answering \cup {"ending"}
    /\ requests[i].wrote >= 1 => NameOf(Barrier, requests[i].script) \in released \cup {NoName}
    /\ requests[i].wrote = 2 => NameOf(ChunkBarrier, requests[i].script) \in released \cup {NoName}
    /\ requests[i].script = 0 => errors
    /\ requests[i].script # 0 =>
          /\ requests[i].script \notin scripts
          /\ \A t \in scripts : Key[requests[i].script] = Key[t] => requests[i].script < t

(* Two requests in the order in which they came.                           *)
InOrder(i, j) ==
    i < j /\ requests[i].script # 0 /\ requests[j].script # 0 =>
        /\ requests[i].script # requests[j].script
        /\ Key[requests[i].script] = Key[requests[j].script] => requests[i].script < requests[j].script

Taken == \A s \in Scripts \ scripts : \E i \in DOMAIN requests : requests[i].script = s

(* The main thread: what its position says about the stop and the verdict. *)
MainOK ==
    /\ ~stopped => events = released
    /\ main \notin {"case", "asserted"} => stopped
    /\ verdict = "passed" => main = "done"
    /\ main # "case" /\ verdict = "none" => scripts = {}
    /\ main = "judge" /\ verdict = "none" /\ ~errors => collected = requests

(* What was judged stays as it is.                                         *)
Final ==
    verdict = "passed" =>
        /\ Len(collected) <= Len(requests)
        /\ \A i \in 1 .. Len(collected) : collected[i].ended /\ collected[i] = requests[i]
        /\ {collected[i].script : i \in DOMAIN collected} = Scripts

ProviderInv ==
    /\ TypeOK
    /\ \A c \in Conns : ConnOK(c)
    /\ \A i \in DOMAIN requests : RequestOK(i)
    /\ \A i, j \in DOMAIN requests : InOrder(i, j)
    /\ Taken /\ MainOK /\ Final

(***************************************************************************)
(* Scripts are taken in order.                                             *)
(***************************************************************************)
\* First: the least of the scripts that match.
LEMMA FirstIsLeast ==
    ASSUME NEW S \in SUBSET Scripts, S # {}
    PROVE  First(S) \in S /\ \A t \in S : First(S) <= t
  <1> DEFINE R == {s \in Nat \X Nat : s[1] < s[2]}
  <1>1. IsWellFoundedOn(R, Nat)
    BY NatLessThanWellFounded DEF OpToRel
  <1>2. S \subseteq Nat
    BY DEF Scripts
  <1>3. PICK x \in S : \A y \in S : ~(<<y, x>> \in R)
    <2> HIDE DEF R
    <2> QED
      BY <1>1, <1>2, WFMin
  <1>4. ASSUME NEW y \in S
        PROVE  x <= y
    <2>1. x \in Nat /\ y \in Nat /\ ~(<<y, x>> \in R)
      BY <1>2, <1>3
    <2>2. ~(y < x)
      BY <2>1
    <2> QED
      BY <2>1, <2>2
  <1>5. \E s \in S : \A t \in S : s <= t
    BY <1>4
  <1> QED
    BY <1>5 DEF First

\* What one key matches, and whether anything does.
LEMMA UniqueKey ==
    ASSUME NEW kind, scripts \subseteq Scripts
    PROVE  /\ Matching(kind) = {} => Cardinality({Key[s] : s \in Matching(kind)}) # 1
           /\ Cardinality({Key[s] : s \in Matching(kind)}) = 1 =>
                /\ Matching(kind) # {}
                /\ \A s, t \in Matching(kind) : Key[s] = Key[t]
  <1> DEFINE M == Matching(kind)
             K == {Key[s] : s \in M}
             f == [s \in M |-> Key[s]]
  <1>1. IsFiniteSet(M)
    <2>1. IsFiniteSet(Scripts)
      BY FS_Interval, ProviderAssumption DEF ProviderAssumption, Scripts
    <2>2. M \in SUBSET Scripts
      BY DEF Matching
    <2> QED
      BY <2>1, <2>2, FS_Subset
  <1>2. IsFiniteSet(K)
    <2>1. f \in Surjection(M, K)
      BY DEF Surjection
    <2> HIDE DEF f, K, M
    <2> QED
      BY <1>1, <2>1, FS_Surjection
  <1>3. M = {} => Cardinality(K) # 1
    <2> SUFFICES ASSUME M = {} PROVE Cardinality(K) # 1
      OBVIOUS
    <2>1. K = {}
      OBVIOUS
    <2> HIDE DEF K
    <2> QED
      BY <2>1, FS_EmptySet
  <1>4. Cardinality(K) = 1 => \E x : K = {x}
    <2> HIDE DEF K
    <2> QED
      BY <1>2, FS_Singleton
  <1>5. (\E x : K = {x}) => \A s, t \in M : Key[s] = Key[t]
    OBVIOUS
  <1> QED
    BY <1>3, <1>4, <1>5

(***************************************************************************)
(* Steps that leave the requests alone.                                    *)
(***************************************************************************)
Response == Answering \cup {"ending"}

LEMMA Stations ==
    ASSUME ProviderInv, NEW c \in Conns
    PROVE  conn[c] \in ConnState /\ conn[c].st \in Quiet \cup Response /\ conn[c].at \in 0 .. Len(requests)
  BY DEF ProviderInv, TypeOK, ConnState, Quiet, Response, Answering

\* One connection changes, and perhaps the errors.
LEMMA ConnStep ==
    ASSUME ProviderInv, NEW c \in Conns, NEW v \in ConnState, conn' = [conn EXCEPT ![c] = v],
           v.at = conn[c].at, conn[c].st \in Response /\ conn[c].at # 0 => v.st \in Response,
           UNCHANGED <<scripts, requests, control>>, errors' \in BOOLEAN, errors => errors',
           ConnOK(c)'
    PROVE  ProviderInv'
  <1>1. conn' \in [Conns -> ConnState] /\ conn'[c] = v /\ \A d \in Conns \ {c} : conn'[d] = conn[d]
    BY DEF ProviderInv, TypeOK
  <1>2. TypeOK'
    <2>1. \A d \in Conns : conn'[d].at \in 0 .. Len(requests')
      BY <1>1 DEF ProviderInv, TypeOK
    <2> QED
      BY <1>1, <2>1 DEF ProviderInv, TypeOK, control
  <1>3. ASSUME NEW d \in Conns
        PROVE  ConnOK(d)'
    <2>1. CASE d = c
      BY <2>1
    <2>2. CASE d # c
      <3>1. conn'[d] = conn[d] /\ ConnOK(d) /\ ScriptAt(d)' = ScriptAt(d)
        BY <1>1, <2>2 DEF ProviderInv, ScriptAt
      <3> QED
        BY <3>1 DEF ConnOK, Resting, control
    <2> QED
      BY <2>1, <2>2
  <1>4. ASSUME NEW i \in DOMAIN requests'
        PROVE  RequestOK(i)'
    <2>1. i \in DOMAIN requests /\ RequestOK(i) /\ requests'[i] = requests[i]
      BY DEF ProviderInv
    <2>2. i # 0
      BY DEF ProviderInv, TypeOK
    <2>3. ASSUME NEW d \in Conns, conn[d].at = i, conn[d].st \in Response
          PROVE  conn'[d].at = i /\ conn'[d].st \in Response
      BY <1>1, <2>2, <2>3
    <2> QED
      BY <2>1, <2>3 DEF RequestOK, Response, control
  <1>5. \A i, j \in DOMAIN requests' : InOrder(i, j)'
    BY DEF ProviderInv, InOrder
  <1>6. (Taken /\ MainOK /\ Final)'
    BY DEF ProviderInv, Taken, MainOK, Final, control
  <1> QED
    BY <1>2, <1>3, <1>4, <1>5, <1>6 DEF ProviderInv

LEMMA Moved ==
    ASSUME ProviderInv, NEW c \in Conns, NEW st \in Quiet \cup Response, Move(c, st)
    PROVE  \E v \in ConnState :
              /\ conn' = [conn EXCEPT ![c] = v] /\ conn'[c] = v
              /\ v.st = st /\ v.at = conn[c].at /\ v.sent = conn[c].sent
  <1>1. PICK u \in ConnState : u = conn[c]
    BY Stations
  <1>2. PICK v : v = [u EXCEPT !.st = st]
    OBVIOUS
  <1>3. v \in ConnState /\ v.st = st /\ v.at = u.at /\ v.sent = u.sent
    BY <1>2 DEF ConnState, Quiet, Response, Answering
  <1>4. conn' = [conn EXCEPT ![c] = v] /\ conn'[c] = v
    BY <1>1, <1>2 DEF Move, ProviderInv, TypeOK
  <1> QED
    BY <1>1, <1>3, <1>4

\* A thread moves on, and perhaps notes an error.
LEMMA MoveStep ==
    ASSUME ProviderInv, NEW c \in Conns, NEW st \in Quiet \cup Response, Move(c, st),
           UNCHANGED <<scripts, requests, control>>, errors' \in BOOLEAN, errors => errors',
           conn[c].st \in Response => st \in Response,
           conn'[c].st = st /\ conn'[c].at = conn[c].at /\ conn'[c].sent = conn[c].sent => ConnOK(c)'
    PROVE  ProviderInv'
  <1>1. PICK v \in ConnState :
              /\ conn' = [conn EXCEPT ![c] = v] /\ conn'[c] = v
              /\ v.st = st /\ v.at = conn[c].at /\ v.sent = conn[c].sent
    BY Moved
  <1>2. ConnOK(c)'
    BY <1>1
  <1> QED
    BY <1>1, <1>2, ConnStep

LEMMA ReceiveKeeps ==
    ASSUME ProviderInv, NEW c \in Conns, Receive(c)
    PROVE  ProviderInv'
  <1>1. /\ conn[c].st = "idle" /\ Move(c, "reading")
        /\ conn[c].sent # <<>>
        /\ UNCHANGED <<scripts, requests, control>> /\ errors' \in BOOLEAN /\ (errors => errors')
    BY DEF Receive, recorded, ProviderInv, TypeOK
  <1>2. "reading" \in Quiet \cup Response /\ ("idle" \in Response => "reading" \in Response)
    BY DEF Quiet, Response, Answering
  <1>3. ASSUME conn'[c].st = "reading", conn'[c].at = conn[c].at, conn'[c].sent = conn[c].sent
        PROVE  ConnOK(c)'
    BY <1>1, <1>3 DEF ConnOK, Resting, ProviderInv, ScriptAt, Quiet, Answering, control
  <1> QED
    BY <1>1, <1>2, <1>3, MoveStep

LEMMA EofKeeps ==
    ASSUME ProviderInv, NEW c \in Conns, Eof(c)
    PROVE  ProviderInv'
  <1>1. /\ conn[c].st = "idle" /\ Move(c, "gone")
        /\ UNCHANGED <<scripts, requests, control>> /\ errors' \in BOOLEAN /\ (errors => errors')
    BY DEF Eof, recorded, ProviderInv, TypeOK
  <1>2. "gone" \in Quiet \cup Response /\ ("idle" \in Response => "gone" \in Response)
    BY DEF Quiet, Response, Answering
  <1>3. ASSUME conn'[c].st = "gone", conn'[c].at = conn[c].at, conn'[c].sent = conn[c].sent
        PROVE  ConnOK(c)'
    BY <1>1, <1>3 DEF ConnOK, Resting, ProviderInv, ScriptAt, Quiet, Answering, control
  <1> QED
    BY <1>1, <1>2, <1>3, MoveStep

LEMMA ReadFailsKeeps ==
    ASSUME ProviderInv, NEW c \in Conns, ReadFails(c)
    PROVE  ProviderInv'
  <1>1. /\ conn[c].st = "reading" /\ Move(c, "ending")
        /\ UNCHANGED <<scripts, requests, control>> /\ errors' \in BOOLEAN /\ (errors => errors')
    <2>1. errors' \in {errors, TRUE} /\ errors \in BOOLEAN
      BY DEF ReadFails, ProviderInv, TypeOK
    <2>2. CASE errors' = errors
      BY <2>1, <2>2 DEF ReadFails
    <2>3. CASE errors' = TRUE
      BY <2>3 DEF ReadFails
    <2> QED
      BY <2>1, <2>2, <2>3
  <1>2. "ending" \in Quiet \cup Response /\ ("reading" \in Response => "ending" \in Response)
    BY DEF Quiet, Response, Answering
  <1>3. ASSUME conn'[c].st = "ending", conn'[c].at = conn[c].at, conn'[c].sent = conn[c].sent
        PROVE  ConnOK(c)'
    BY <1>1, <1>3 DEF ConnOK, Resting, ProviderInv, ScriptAt, Quiet, Answering, control
  <1> QED
    BY <1>1, <1>2, <1>3, MoveStep

LEMMA DelayKeeps ==
    ASSUME ProviderInv, NEW c \in Conns, Delay(c)
    PROVE  ProviderInv'
  <1>1. /\ conn[c].st = "barrier"
        /\ \/ (Passes(NameOf(Barrier, ScriptAt(c))) /\ Move(c, "delay"))
           \/ (stopped /\ Move(c, "ending"))
        /\ UNCHANGED <<scripts, requests, control>> /\ errors' \in BOOLEAN /\ (errors => errors')
    BY DEF Delay, recorded, ProviderInv, TypeOK
  <1>2. CASE Passes(NameOf(Barrier, ScriptAt(c))) /\ Move(c, "delay")
    <2>1. "delay" \in Quiet \cup Response /\ ("barrier" \in Response => "delay" \in Response)
      BY DEF Quiet, Response, Answering
    <2>2. ASSUME conn'[c].st = "delay", conn'[c].at = conn[c].at, conn'[c].sent = conn[c].sent
          PROVE  ConnOK(c)'
      BY <1>1, <1>2, <2>2 DEF ConnOK, Resting, ProviderInv, MainOK, ScriptAt, Quiet, Answering, control, Passes
    <2> QED
      BY <1>1, <1>2, <2>1, <2>2, MoveStep
  <1>3. CASE stopped /\ Move(c, "ending")
    <2>1. "ending" \in Quiet \cup Response /\ ("barrier" \in Response => "ending" \in Response)
      BY DEF Quiet, Response, Answering
    <2>2. ASSUME conn'[c].st = "ending", conn'[c].at = conn[c].at, conn'[c].sent = conn[c].sent
          PROVE  ConnOK(c)'
      BY <1>1, <1>3, <2>2 DEF ConnOK, Resting, ProviderInv, MainOK, ScriptAt, Quiet, Answering, control, Passes
    <2> QED
      BY <1>1, <1>3, <2>1, <2>2, MoveStep
  <1> QED
    BY <1>1, <1>2, <1>3

LEMMA AnswerKeeps ==
    ASSUME ProviderInv, NEW c \in Conns, Answer(c)
    PROVE  ProviderInv'
  <1>1. /\ conn[c].st = "delay"
        /\ \/ (stopped /\ Move(c, "ending"))
           \/ (~stopped /\ Move(c, "headers"))
        /\ UNCHANGED <<scripts, requests, control>> /\ errors' \in BOOLEAN /\ (errors => errors')
    BY DEF Answer, recorded, ProviderInv, TypeOK
  <1>2. CASE stopped /\ Move(c, "ending")
    <2>1. "ending" \in Quiet \cup Response /\ ("delay" \in Response => "ending" \in Response)
      BY DEF Quiet, Response, Answering
    <2>2. ASSUME conn'[c].st = "ending", conn'[c].at = conn[c].at, conn'[c].sent = conn[c].sent
          PROVE  ConnOK(c)'
      BY <1>1, <1>2, <2>2 DEF ConnOK, Resting, ProviderInv, MainOK, ScriptAt, Quiet, Answering, control, Passes
    <2> QED
      BY <1>1, <1>2, <2>1, <2>2, MoveStep
  <1>3. CASE ~stopped /\ Move(c, "headers")
    <2>1. "headers" \in Quiet \cup Response /\ ("delay" \in Response => "headers" \in Response)
      BY DEF Quiet, Response, Answering
    <2>2. ASSUME conn'[c].st = "headers", conn'[c].at = conn[c].at, conn'[c].sent = conn[c].sent
          PROVE  ConnOK(c)'
      BY <1>1, <1>3, <2>2 DEF ConnOK, Resting, ProviderInv, MainOK, ScriptAt, Quiet, Answering, control, Passes
    <2> QED
      BY <1>1, <1>3, <2>1, <2>2, MoveStep
  <1> QED
    BY <1>1, <1>2, <1>3

LEMMA ChunkDelayKeeps ==
    ASSUME ProviderInv, NEW c \in Conns, ChunkDelay(c)
    PROVE  ProviderInv'
  <1>1. /\ conn[c].st = "chunk"
        /\ \/ (~stopped /\ Passes(NameOf(ChunkBarrier, ScriptAt(c))) /\ Move(c, "body"))
           \/ (stopped /\ Move(c, "ending"))
        /\ UNCHANGED <<scripts, requests, control>> /\ errors' \in BOOLEAN /\ (errors => errors')
    BY DEF ChunkDelay, recorded, ProviderInv, TypeOK
  <1>2. CASE ~stopped /\ Passes(NameOf(ChunkBarrier, ScriptAt(c))) /\ Move(c, "body")
    <2>1. "body" \in Quiet \cup Response /\ ("chunk" \in Response => "body" \in Response)
      BY DEF Quiet, Response, Answering
    <2>2. ASSUME conn'[c].st = "body", conn'[c].at = conn[c].at, conn'[c].sent = conn[c].sent
          PROVE  ConnOK(c)'
      BY <1>1, <1>2, <2>2 DEF ConnOK, Resting, ProviderInv, MainOK, ScriptAt, Quiet, Answering, control, Passes
    <2> QED
      BY <1>1, <1>2, <2>1, <2>2, MoveStep
  <1>3. CASE stopped /\ Move(c, "ending")
    <2>1. "ending" \in Quiet \cup Response /\ ("chunk" \in Response => "ending" \in Response)
      BY DEF Quiet, Response, Answering
    <2>2. ASSUME conn'[c].st = "ending", conn'[c].at = conn[c].at, conn'[c].sent = conn[c].sent
          PROVE  ConnOK(c)'
      BY <1>1, <1>3, <2>2 DEF ConnOK, Resting, ProviderInv, MainOK, ScriptAt, Quiet, Answering, control, Passes
    <2> QED
      BY <1>1, <1>3, <2>1, <2>2, MoveStep
  <1> QED
    BY <1>1, <1>2, <1>3

LEMMA ConnectKeeps ==
    ASSUME ProviderInv, NEW c \in Conns, Connect(c)
    PROVE  ProviderInv'
  <1>1. PICK u \in ConnState : u = conn[c]
    BY Stations
  <1>2. PICK v : v = [u EXCEPT !.st = "idle", !.open = TRUE]
    OBVIOUS
  <1>3. v \in ConnState /\ v.st = "idle" /\ v.at = u.at /\ v.sent = u.sent
    BY <1>2 DEF ConnState
  <1>4. u.st = "free" /\ conn' = [conn EXCEPT ![c] = v] /\ conn'[c] = v
    BY <1>1, <1>2 DEF Connect, ProviderInv, TypeOK
  <1>5. UNCHANGED <<scripts, requests, errors, control>>
    BY DEF Connect, recorded
  <1>6. ConnOK(c)'
    BY <1>1, <1>3, <1>4, <1>5 DEF ConnOK, Resting, ProviderInv, Quiet, Answering, control
  <1>7. conn[c].st \notin Response /\ v.at = conn[c].at /\ errors' \in BOOLEAN /\ (errors => errors')
    BY <1>1, <1>3, <1>4, <1>5 DEF Response, Answering, ProviderInv, TypeOK
  <1> QED
    BY <1>3, <1>4, <1>5, <1>6, <1>7, ConnStep

\* The client sends or leaves; the thread is where it was.
LEMMA ClientStep ==
    ASSUME ProviderInv, NEW c \in Conns, NEW v \in ConnState, conn' = [conn EXCEPT ![c] = v],
           v.st = conn[c].st, v.at = conn[c].at, conn[c].sent # <<>> => v.sent # <<>>,
           UNCHANGED <<recorded, control>>
    PROVE  ProviderInv'
  <1>1. conn'[c] = v
    BY DEF ProviderInv, TypeOK
  <1>2. UNCHANGED <<scripts, requests, control>> /\ errors' = errors /\ errors' \in BOOLEAN
    BY DEF recorded, ProviderInv, TypeOK
  <1>3. ConnOK(c)'
    BY <1>1, <1>2 DEF ConnOK, Resting, ProviderInv, ScriptAt, control
  <1> QED
    BY <1>2, <1>3, ConnStep

LEMMA SendKeeps ==
    ASSUME ProviderInv, NEW c \in Conns, NEW kind \in Kinds, Send(c, kind)
    PROVE  ProviderInv'
  <1>1. PICK u \in ConnState : u = conn[c]
    BY Stations
  <1>2. PICK sent : sent = Append(u.sent, kind)
    OBVIOUS
  <1>3. sent \in Seq(Kinds) /\ sent # <<>>
    BY <1>2, AppendProperties DEF ConnState
  <1>4. PICK n \in 0 .. MaxRequests : n = u.count + 1
    BY <1>1, ProviderAssumption DEF Send, ConnState, ProviderAssumption
  <1>5. PICK v : v = [u EXCEPT !.sent = sent, !.count = n]
    OBVIOUS
  <1>6. v \in ConnState /\ v.st = u.st /\ v.at = u.at /\ v.sent = sent
    BY <1>3, <1>5 DEF ConnState
  <1>7. conn' = [conn EXCEPT ![c] = v]
    BY <1>1, <1>2, <1>4, <1>5 DEF Send
  <1>8. UNCHANGED <<recorded, control>>
    BY DEF Send
  <1> QED
    BY <1>1, <1>3, <1>6, <1>7, <1>8, ClientStep

LEMMA DisconnectKeeps ==
    ASSUME ProviderInv, NEW c \in Conns, Disconnect(c)
    PROVE  ProviderInv'
  <1>1. PICK u \in ConnState : u = conn[c]
    BY Stations
  <1>2. PICK v : v = [u EXCEPT !.open = FALSE]
    OBVIOUS
  <1>3. v \in ConnState /\ v.st = u.st /\ v.at = u.at /\ v.sent = u.sent
    BY <1>2 DEF ConnState
  <1>4. conn' = [conn EXCEPT ![c] = v]
    BY <1>1, <1>2 DEF Disconnect
  <1>5. UNCHANGED <<recorded, control>>
    BY DEF Disconnect
  <1> QED
    BY <1>1, <1>3, <1>4, <1>5, ClientStep

(***************************************************************************)
(* Steps that write to a response or end it.                               *)
(***************************************************************************)
LEMMA ResponseStep ==
    ASSUME ProviderInv, NEW c \in Conns, conn[c].st \in Response, conn[c].at # 0,
           NEW v \in ConnState, conn' = [conn EXCEPT ![c] = v], v.at = conn[c].at,
           NEW q \in Record, requests' = [requests EXCEPT ![conn[c].at] = q],
           q.script = requests[conn[c].at].script,
           requests[conn[c].at].ended => q.ended, q.ended \/ v.st \in Response,
           q.wrote >= 1 => NameOf(Barrier, q.script) \in released \cup {NoName},
           q.wrote = 2 => NameOf(ChunkBarrier, q.script) \in released \cup {NoName},
           verdict = "passed" /\ conn[c].at <= Len(collected) => q = requests[conn[c].at],
           Resting(c) => q = requests[conn[c].at],
           UNCHANGED <<scripts, errors, control>>, ConnOK(c)'
    PROVE  ProviderInv'
  <1> PICK a \in 1 .. Len(requests) : a = conn[c].at
    BY Stations
  <1>1. conn' \in [Conns -> ConnState] /\ conn'[c] = v /\ \A d \in Conns \ {c} : conn'[d] = conn[d]
    BY DEF ProviderInv, TypeOK
  <1>2. /\ requests \in Seq(Record) /\ requests' = [requests EXCEPT ![a] = q]
    BY DEF ProviderInv, TypeOK
  <1>3. /\ requests' \in Seq(Record) /\ Len(requests') = Len(requests)
        /\ \A j \in 1 .. Len(requests) : requests'[j] = IF j = a THEN q ELSE requests[j]
    BY <1>2, ExceptSeq
  <1>4. /\ DOMAIN requests = 1 .. Len(requests) /\ DOMAIN requests' = 1 .. Len(requests)
        /\ requests'[a] = q /\ \A j \in 1 .. Len(requests) : j # a => requests'[j] = requests[j]
    BY <1>2, <1>3
  <1>5. ASSUME NEW j \in 1 .. Len(requests)
        PROVE  requests'[j].script = requests[j].script /\ (requests[j].ended => requests'[j].ended)
    BY <1>4
  <1>6. TypeOK'
    <2>1. \A d \in Conns : conn'[d].at \in 0 .. Len(requests')
      BY <1>1, <1>3 DEF ProviderInv, TypeOK
    <2> QED
      BY <1>1, <1>3, <2>1 DEF ProviderInv, TypeOK, control
  <1>7. ASSUME NEW d \in Conns
        PROVE  ConnOK(d)'
    <2>1. CASE d = c
      BY <2>1
    <2>2. CASE d # c
      <3>1. conn'[d] = conn[d] /\ ConnOK(d) /\ conn[d].at \in 0 .. Len(requests)
        BY <1>1, <2>2, Stations DEF ProviderInv
      <3>2. CASE conn[d].at = 0
        <4>1. conn[d].st \notin Answering /\ conn'[d].at = 0
          BY <3>1, <3>2 DEF ConnOK, Resting
        <4> QED
          BY <3>1, <3>2, <4>1 DEF ConnOK, Resting, control, Answering
      <3>3. CASE conn[d].at # 0
        <4>1. conn[d].at \in 1 .. Len(requests)
          BY <3>1, <3>3
        <4>2. ScriptAt(d)' = ScriptAt(d) /\ (requests[conn[d].at].ended => requests'[conn[d].at].ended)
          BY <1>5, <3>1, <4>1 DEF ScriptAt
        <4> QED
          BY <3>1, <4>2 DEF ConnOK, Resting, control
      <3> QED
        BY <3>2, <3>3
    <2> QED
      BY <2>1, <2>2
  <1>8. ASSUME NEW i \in 1 .. Len(requests)
        PROVE  RequestOK(i)'
    <2>1. RequestOK(i)
      BY <1>4 DEF ProviderInv
    <2>2. ASSUME NEW d \in Conns, conn[d].at = i, conn[d].st \in Response, ~requests'[i].ended
          PROVE  conn'[d].at = i /\ conn'[d].st \in Response
      BY <1>1, <1>4, <2>2
    <2>3. requests'[i].ended \/ \E d \in Conns : conn'[d].at = i /\ conn'[d].st \in Response
      BY <1>5, <2>1, <2>2 DEF RequestOK, Response
    <2>4. /\ requests'[i].wrote >= 1 => NameOf(Barrier, requests'[i].script) \in released \cup {NoName}
          /\ requests'[i].wrote = 2 => NameOf(ChunkBarrier, requests'[i].script) \in released \cup {NoName}
      BY <1>4, <2>1 DEF RequestOK
    <2>5. released' = released /\ scripts' = scripts /\ errors' = errors
      BY DEF control
    <2> QED
      BY <1>5, <2>1, <2>3, <2>4, <2>5 DEF RequestOK, Response
  <1>9. \A i, j \in 1 .. Len(requests) : InOrder(i, j)'
    <2>1. ASSUME NEW i \in 1 .. Len(requests), NEW j \in 1 .. Len(requests)
          PROVE  InOrder(i, j)'
      <3>1. InOrder(i, j)
        BY <1>4 DEF ProviderInv
      <3> QED
        BY <1>5, <3>1 DEF InOrder
    <2> QED
      BY <2>1
  <1>10. Taken'
    BY <1>4, <1>5 DEF ProviderInv, Taken, control
  <1>11. MainOK'
    <2>1. main = "judge" /\ verdict = "none" /\ ~errors => Resting(c)
      BY DEF ProviderInv, ConnOK, Resting
    <2>2. Resting(c) => requests' = requests
      BY <1>2, <1>3
    <2> QED
      BY <2>1, <2>2 DEF ProviderInv, MainOK, control
  <1>12. Final'
    <2>1. ASSUME verdict = "passed", NEW i \in 1 .. Len(collected)
          PROVE  collected[i].ended /\ collected[i] = requests'[i]
      <3>1. i \in 1 .. Len(requests) /\ collected[i].ended /\ collected[i] = requests[i]
        <4>1. Len(collected) <= Len(requests) /\ collected[i].ended /\ collected[i] = requests[i]
          BY <2>1 DEF ProviderInv, Final
        <4>2. Len(collected) \in Nat /\ Len(requests) \in Nat
          BY DEF ProviderInv, TypeOK
        <4> QED
          BY <4>1, <4>2
      <3>2. CASE i = a
        <4>1. i <= Len(collected)
          BY DEF ProviderInv, TypeOK
        <4> QED
          BY <1>4, <2>1, <3>1, <3>2, <4>1
      <3> QED
        BY <1>4, <3>1, <3>2
    <2> QED
      BY <1>3, <2>1 DEF ProviderInv, Final, control
  <1> QED
    BY <1>4, <1>6, <1>7, <1>8, <1>9, <1>10, <1>11, <1>12 DEF ProviderInv

\* A write, of the headers or of what follows them.
LEMMA WriteKeeps ==
    ASSUME ProviderInv, NEW c \in Conns, NEW from, NEW to, NEW wrote \in 1 .. 2, Write(c, from, to, wrote),
           \/ (from = "headers" /\ to = "chunk" /\ wrote = 1)
           \/ (from = "body" /\ to = "ending" /\ wrote = 2)
    PROVE  ProviderInv'
  <1>1. /\ conn[c].st = from /\ from \in Answering /\ to \in Response /\ UNCHANGED <<scripts, errors, control>>
        /\ conn[c].st \in Response /\ conn[c].at # 0
    BY DEF Write, Answering, Response, ProviderInv, ConnOK, Resting
  <1>2. /\ NameOf(Barrier, ScriptAt(c)) \in released \cup {NoName}
        /\ wrote = 2 => NameOf(ChunkBarrier, ScriptAt(c)) \in released \cup {NoName}
    BY <1>1 DEF ProviderInv, ConnOK, Resting
  <1>3. CASE /\ Move(c, to)
             /\ requests' = [requests EXCEPT ![conn[c].at].wrote = wrote, ![conn[c].at].completed = (wrote = 2)]
    <2>1. PICK a \in 1 .. Len(requests) : a = conn[c].at
      BY <1>1, Stations
    <2>2. PICK p \in Record : p = requests[a]
      BY DEF ProviderInv, TypeOK
    <2>3. PICK done \in BOOLEAN : done = (wrote = 2)
      OBVIOUS
    <2>4. PICK q : q = [p EXCEPT !.wrote = wrote, !.completed = done]
      OBVIOUS
    <2>5. q \in Record /\ q.script = p.script /\ q.ended = p.ended /\ q.wrote = wrote
      <3>1. wrote \in 0 .. 2
        OBVIOUS
      <3> QED
        BY <2>4, <3>1 DEF Record
    <2>6. requests' = [requests EXCEPT ![a] = q]
      <3>1. requests' = [requests EXCEPT ![a].wrote = wrote, ![a].completed = done]
        BY <1>3, <2>1, <2>3
      <3>2. requests \in Seq(Record)
        BY DEF ProviderInv, TypeOK
      <3> QED
        BY <2>1, <2>2, <2>4, <3>1, <3>2
    <2>7. PICK v \in ConnState :
                /\ conn' = [conn EXCEPT ![c] = v] /\ conn'[c] = v
                /\ v.st = to /\ v.at = conn[c].at /\ v.sent = conn[c].sent
      BY <1>1, <1>3, Moved
    <2>8. requests'[a] = q /\ ScriptAt(c) = p.script
      <3>1. requests \in Seq(Record)
        BY DEF ProviderInv, TypeOK
      <3> QED
        BY <2>1, <2>2, <2>6, <3>1 DEF ScriptAt
    <2>9. verdict = "passed" => a > Len(collected)
      BY <1>1, <2>1 DEF ProviderInv, ConnOK, Resting
    <2>10. conn'[c].at = a /\ ScriptAt(c)' = ScriptAt(c)
      BY <2>1, <2>5, <2>7, <2>8 DEF ScriptAt
    <2>11. ~(main \in {"guard", "collect", "judge"} /\ verdict = "none" /\ ~errors)
      BY <1>1 DEF ProviderInv, ConnOK, Resting, Answering, Quiet
    <2>12. ConnOK(c)'
      BY <1>1, <1>2, <2>1, <2>7, <2>9, <2>10, <2>11 DEF ConnOK, Resting, Answering, Quiet, Response, control
    <2>13. verdict = "passed" /\ conn[c].at <= Len(collected) => q = requests[conn[c].at]
      <3>1. Len(collected) \in Nat
        BY DEF ProviderInv, TypeOK
      <3> QED
        BY <2>1, <2>9, <3>1
    <2>14. /\ v.at = conn[c].at /\ requests' = [requests EXCEPT ![conn[c].at] = q]
           /\ q.script = requests[conn[c].at].script /\ (requests[conn[c].at].ended => q.ended)
           /\ v.st \in Response
      BY <1>1, <2>1, <2>2, <2>5, <2>6, <2>7
    <2>15. /\ q.wrote >= 1 => NameOf(Barrier, q.script) \in released \cup {NoName}
           /\ q.wrote = 2 => NameOf(ChunkBarrier, q.script) \in released \cup {NoName}
      BY <1>2, <2>5, <2>8
    <2>16. ~Resting(c)
      BY <1>1 DEF Resting, Quiet, Answering
    <2> QED
      BY <1>1, <2>5, <2>7, <2>12, <2>13, <2>14, <2>15, <2>16, ResponseStep
  <1>4. CASE Move(c, "ending") /\ UNCHANGED requests
    <2>1. "ending" \in Quiet \cup Response /\ "ending" \in Response
      BY DEF Response
    <2>2. UNCHANGED <<scripts, requests, control>> /\ errors' = errors /\ errors' \in BOOLEAN
      BY <1>1, <1>4 DEF ProviderInv, TypeOK
    <2>3. ASSUME conn'[c].st = "ending", conn'[c].at = conn[c].at, conn'[c].sent = conn[c].sent
          PROVE  ConnOK(c)'
      BY <1>1, <2>2, <2>3 DEF ConnOK, Resting, ProviderInv, Quiet, Answering, control
    <2> QED
      BY <1>4, <2>1, <2>2, <2>3, MoveStep
  <1> QED
    BY <1>3, <1>4 DEF Write

LEMMA EndResponseKeeps ==
    ASSUME ProviderInv, NEW c \in Conns, EndResponse(c)
    PROVE  ProviderInv'
  <1>1. PICK u \in ConnState : u = conn[c]
    BY Stations
  <1>2. PICK v \in ConnState :
          /\ conn' = [conn EXCEPT ![c] = v] /\ conn'[c] = v
          /\ v.st \in {"gone", "idle"} /\ v.at = u.at
    <2>1. Finished(c) \in BOOLEAN
      BY DEF Finished
    <2>2. PICK st \in {"gone", "idle"}, open \in BOOLEAN : conn' = [conn EXCEPT ![c].st = st, ![c].open = open]
      <3>1. (conn[c].open /\ ~Finished(c)) \in BOOLEAN
        BY <2>1
      <3> QED
        BY <3>1 DEF EndResponse
    <2>3. PICK v : v = [u EXCEPT !.st = st, !.open = open]
      OBVIOUS
    <2>4. v \in ConnState /\ v.st = st /\ v.at = u.at
      BY <2>3 DEF ConnState
    <2>5. conn' = [conn EXCEPT ![c] = v] /\ conn'[c] = v
      BY <1>1, <2>2, <2>3 DEF ProviderInv, TypeOK
    <2> QED
      BY <2>4, <2>5
  <1>3. /\ conn[c].st = "ending" /\ UNCHANGED <<scripts, errors, control>>
        /\ requests' = IF conn[c].at = 0 THEN requests ELSE [requests EXCEPT ![conn[c].at].ended = TRUE]
    BY DEF EndResponse
  <1>4. errors' = errors /\ errors' \in BOOLEAN /\ conn[c].st \in Response
    BY <1>3 DEF ProviderInv, TypeOK, Response
  <1>5. CASE conn[c].at = 0
    <2>1. conn' = [conn EXCEPT ![c] = v] /\ v.at = conn[c].at
      BY <1>1, <1>2
    <2>2. requests' = requests /\ conn'[c].at = 0 /\ conn'[c].st \in {"gone", "idle"}
      BY <1>1, <1>2, <1>3, <1>5
    <2>3. ConnOK(c)'
      BY <1>3, <2>2 DEF ConnOK, Resting, Quiet, Answering
    <2>4. UNCHANGED <<scripts, requests, control>> /\ (errors => errors')
      BY <1>3, <2>2
    <2> QED
      BY <1>4, <1>5, <2>1, <2>3, <2>4, ConnStep
  <1>6. CASE conn[c].at # 0
    <2>1. PICK a \in 1 .. Len(requests) : a = conn[c].at
      BY <1>6, Stations
    <2>2. PICK p \in Record : p = requests[a]
      BY DEF ProviderInv, TypeOK
    <2>3. PICK q : q = [p EXCEPT !.ended = TRUE]
      OBVIOUS
    <2>4. q \in Record /\ q.script = p.script /\ q.ended /\ q.wrote = p.wrote
      BY <2>3 DEF Record
    <2>5. requests' = [requests EXCEPT ![a] = q]
      <3>1. requests' = [requests EXCEPT ![a].ended = TRUE] /\ requests \in Seq(Record)
        BY <1>3, <1>6, <2>1 DEF ProviderInv, TypeOK
      <3> QED
        BY <2>1, <2>2, <2>3, <3>1
    <2>6. requests'[a] = q
      BY <2>1, <2>5 DEF ProviderInv, TypeOK
    <2>7. conn'[c].at = a /\ conn'[c].st \in {"gone", "idle"}
      BY <1>1, <1>2, <2>1
    <2>8. ConnOK(c)'
      BY <1>3, <2>4, <2>6, <2>7 DEF ConnOK, Resting, Quiet, Answering
    <2>9. /\ q.wrote >= 1 => NameOf(Barrier, q.script) \in released \cup {NoName}
          /\ q.wrote = 2 => NameOf(ChunkBarrier, q.script) \in released \cup {NoName}
      <3>1. RequestOK(a)
        BY <2>1 DEF ProviderInv, TypeOK
      <3> QED
        BY <2>2, <2>4, <3>1 DEF RequestOK
    <2>10. verdict = "passed" /\ conn[c].at <= Len(collected) => q = requests[conn[c].at]
      <3> SUFFICES ASSUME verdict = "passed", a <= Len(collected)
                   PROVE  q = p
        BY <2>1, <2>2
      <3>1. a \in 1 .. Len(collected)
        BY DEF ProviderInv, TypeOK
      <3>2. p.ended
        BY <2>2, <3>1 DEF ProviderInv, Final
      <3> QED
        BY <2>3, <3>2 DEF Record
    <2>11. /\ v.at = conn[c].at /\ requests' = [requests EXCEPT ![conn[c].at] = q]
           /\ q.script = requests[conn[c].at].script /\ (requests[conn[c].at].ended => q.ended)
           /\ (q.ended \/ v.st \in Response)
      BY <1>1, <1>2, <2>1, <2>2, <2>4, <2>5
    <2>12. UNCHANGED <<scripts, errors, control>> /\ conn' = [conn EXCEPT ![c] = v]
      BY <1>2, <1>3
    <2>13. Resting(c) => q = requests[conn[c].at]
      <3> SUFFICES ASSUME Resting(c)
                   PROVE  q = p
        BY <2>1, <2>2
      <3>1. p.ended
        BY <1>3, <1>6, <2>1, <2>2 DEF Resting, Quiet
      <3> QED
        BY <2>3, <3>1 DEF Record
    <2> QED
      BY <1>4, <1>6, <2>4, <2>8, <2>9, <2>10, <2>11, <2>12, <2>13, ResponseStep
  <1> QED
    BY <1>5, <1>6

(***************************************************************************)
(* A request is recorded and takes its script.                             *)
(***************************************************************************)
\* The script that a request takes, if one key matches: 0 is none.
LEMMA TakenScript ==
    ASSUME ProviderInv, NEW kind, NEW unique \in BOOLEAN, NEW script,
           unique <=> Cardinality({Key[s] : s \in Matching(kind)}) = 1,
           script = IF unique THEN First(Matching(kind)) ELSE 0
    PROVE  /\ script \in 0 .. NumScripts /\ (script # 0 <=> unique)
           /\ scripts = {} => ~unique
           /\ unique => /\ script \in scripts
                        /\ \A t \in scripts : Key[script] = Key[t] => script <= t
  <1>1. scripts \subseteq Scripts /\ Matching(kind) \subseteq scripts
    BY DEF ProviderInv, TypeOK, Matching
  <1>2. CASE ~unique
    <2>1. script = 0 /\ 0 \in 0 .. NumScripts
      BY <1>2, ProviderAssumption DEF ProviderAssumption
    <2> QED
      BY <1>2, <2>1
  <1>3. CASE unique
    <2>1. /\ Matching(kind) # {}
          /\ \A s, t \in Matching(kind) : Key[s] = Key[t]
      BY <1>1, <1>3, UniqueKey
    <2>2. script \in Matching(kind) /\ \A t \in Matching(kind) : script <= t
      <3>1. Matching(kind) \in SUBSET Scripts
        BY <1>1
      <3> QED
        BY <1>3, <2>1, <3>1, FirstIsLeast
    <2>3. script \in scripts /\ script \in Scripts
      BY <1>1, <2>2
    <2>4. script \in 0 .. NumScripts /\ script # 0
      BY <2>3, ProviderAssumption DEF Scripts, ProviderAssumption
    <2>5. ASSUME NEW t \in scripts, Key[script] = Key[t]
          PROVE  script <= t
      <3>1. t \in Matching(kind)
        BY <2>2, <2>5 DEF Matching
      <3> QED
        BY <2>2, <3>1
    <2>6. scripts # {}
      BY <2>3
    <2> QED
      BY <1>3, <2>3, <2>4, <2>5, <2>6
  <1> QED
    BY <1>2, <1>3

LEMMA MatchKeeps ==
    ASSUME ProviderInv, NEW c \in Conns, Match(c)
    PROVE  ProviderInv'
  <1>1. PICK u \in ConnState : u = conn[c]
    BY Stations
  <1>2. u.st = "reading" /\ u.sent # <<>> /\ u.sent \in Seq(Kinds)
    BY <1>1 DEF Match, ProviderInv, ConnOK, Resting, ConnState
  <1>3. PICK kind \in Kinds : kind = Head(u.sent)
    BY <1>2, HeadTailProperties
  <1>4. PICK rest \in Seq(Kinds) : rest = Tail(u.sent)
    BY <1>2, HeadTailProperties
  <1>5. PICK unique \in BOOLEAN : unique <=> Cardinality({Key[s] : s \in Matching(kind)}) = 1
    OBVIOUS
  <1>6. PICK script : script = IF unique THEN First(Matching(kind)) ELSE 0
    OBVIOUS
  <1>7. /\ script \in 0 .. NumScripts /\ (script # 0 <=> unique)
        /\ scripts = {} => ~unique
        /\ unique => /\ script \in scripts
                     /\ \A t \in scripts : Key[script] = Key[t] => script <= t
    BY <1>5, <1>6, TakenScript
  <1>8. PICK n \in Nat : n = Len(requests)
    BY DEF ProviderInv, TypeOK
  <1>9. PICK new : new = [kind |-> kind, script |-> script, wrote |-> 0, completed |-> FALSE, ended |-> FALSE]
    OBVIOUS
  <1>10. new \in Record /\ new.script = script /\ new.wrote = 0 /\ ~new.ended
    BY <1>7, <1>9 DEF Record
  <1>11. /\ requests' = Append(requests, new) /\ scripts' = scripts \ {script}
         /\ errors' = (errors \/ ~unique)
         /\ conn' = [conn EXCEPT ![c].st = "barrier", ![c].sent = Tail(@), ![c].at = n + 1]
         /\ UNCHANGED control
    BY <1>1, <1>3, <1>5, <1>6, <1>8, <1>9 DEF Match
  <1>12. /\ requests' \in Seq(Record) /\ Len(requests') = n + 1
         /\ requests'[n + 1] = new /\ \A i \in 1 .. n : requests'[i] = requests[i]
    <2>1. requests \in Seq(Record)
      BY DEF ProviderInv, TypeOK
    <2> QED
      BY <1>8, <1>10, <1>11, <2>1, AppendProperties
  <1>13. DOMAIN requests = 1 .. n /\ DOMAIN requests' = 1 .. (n + 1)
    BY <1>8, <1>12 DEF ProviderInv, TypeOK
  <1>14. PICK v \in ConnState :
           /\ conn' = [conn EXCEPT ![c] = v] /\ conn'[c] = v
           /\ v.st = "barrier" /\ v.at = n + 1
    <2>0. PICK a \in Nat : a = n + 1
      OBVIOUS
    <2>1. PICK v : v = [u EXCEPT !.st = "barrier", !.sent = rest, !.at = a]
      OBVIOUS
    <2>2. v \in ConnState /\ v.st = "barrier" /\ v.at = n + 1
      BY <2>0, <2>1 DEF ConnState
    <2>3. conn' = [conn EXCEPT ![c] = v] /\ conn'[c] = v
      BY <1>1, <1>4, <1>11, <2>0, <2>1 DEF ProviderInv, TypeOK
    <2> QED
      BY <2>2, <2>3
  <1>15. conn' \in [Conns -> ConnState] /\ \A d \in Conns \ {c} : conn'[d] = conn[d]
    BY <1>14 DEF ProviderInv, TypeOK
  <1>16. errors' \in BOOLEAN /\ (errors => errors') /\ (~unique => errors')
    BY <1>11 DEF ProviderInv, TypeOK
  <1>17. main # "case" /\ verdict = "none" => errors'
    BY <1>7, <1>16 DEF ProviderInv, MainOK
  <1>18. TypeOK'
    <2>1. ASSUME NEW d \in Conns
          PROVE  conn'[d].at \in 0 .. Len(requests')
      <3>1. conn[d].at \in 0 .. n
        BY <1>8, Stations
      <3>2. conn[d].at \in 0 .. (n + 1) /\ n + 1 \in 0 .. (n + 1)
        BY <3>1
      <3> QED
        BY <1>12, <1>14, <1>15, <3>2
    <2>2. scripts' \subseteq Scripts
      BY <1>11 DEF ProviderInv, TypeOK
    <2> QED
      BY <1>11, <1>12, <1>15, <1>16, <2>1, <2>2 DEF ProviderInv, TypeOK, control
  <1>19. ASSUME NEW d \in Conns
         PROVE  ConnOK(d)'
    <2>1. CASE d = c
      <3>1. verdict = "passed" => n + 1 > Len(collected)
        BY <1>8 DEF ProviderInv, TypeOK, Final
      <3>2. n + 1 # 0 /\ conn'[d].at = n + 1 /\ conn'[d].st = "barrier"
        BY <1>14, <2>1
      <3>3. collected' = collected /\ verdict' = verdict /\ main' = main
        BY <1>11 DEF control
      <3> QED
        BY <1>17, <3>1, <3>2, <3>3 DEF ConnOK, Resting, Quiet, Answering
    <2>2. CASE d # c
      <3>1. conn'[d] = conn[d] /\ ConnOK(d) /\ conn[d].at \in 0 .. n
        BY <1>8, <1>15, <2>2, Stations DEF ProviderInv
      <3>2. CASE conn[d].at = 0
        <4>1. conn[d].st \notin Answering
          BY <3>1, <3>2 DEF ConnOK, Resting
        <4> QED
          BY <1>11, <1>16, <3>1, <3>2, <4>1 DEF ConnOK, Resting, control, Answering
      <3>3. CASE conn[d].at # 0
        <4>1. conn[d].at \in 1 .. n
          BY <3>1, <3>3
        <4>2. requests'[conn[d].at] = requests[conn[d].at]
          BY <1>12, <4>1
        <4>3. ScriptAt(d)' = ScriptAt(d)
          BY <3>1, <4>2 DEF ScriptAt
        <4> QED
          BY <1>11, <1>16, <3>1, <4>2, <4>3 DEF ConnOK, Resting, control
      <3> QED
        BY <3>2, <3>3
    <2> QED
      BY <2>1, <2>2
  <1>20. \A t \in scripts' : t \in scripts /\ t # script
    BY <1>11
  <1>21. ASSUME NEW i \in 1 .. n
         PROVE  RequestOK(i)'
    <2>1. RequestOK(i) /\ requests'[i] = requests[i]
      BY <1>12, <1>13 DEF ProviderInv
    <2>2. ASSUME NEW d \in Conns, conn[d].at = i, conn[d].st \in Response
          PROVE  conn'[d].at = i /\ conn'[d].st \in Response
      <3>1. d # c
        BY <1>1, <1>2, <2>2 DEF Response, Answering
      <3> QED
        BY <1>15, <2>2, <3>1
    <2> QED
      BY <1>11, <1>16, <1>20, <2>1, <2>2 DEF RequestOK, Response, control
  <1>22. RequestOK(n + 1)'
    <2>1. \E d \in Conns : conn'[d].at = n + 1 /\ conn'[d].st \in Answering
      BY <1>14 DEF Answering
    <2>2. script # 0 => script \notin scripts' /\ \A t \in scripts' : Key[script] = Key[t] => script < t
      <3> SUFFICES ASSUME script # 0, NEW t \in scripts', Key[script] = Key[t]
                   PROVE  script < t
        BY <1>20
      <3>1. script <= t /\ t # script
        BY <1>7, <1>20
      <3>2. t \in Nat /\ script \in Nat
        <4>1. t \in Scripts /\ NumScripts \in Nat
          BY <1>20, ProviderAssumption DEF ProviderInv, TypeOK, ProviderAssumption
        <4> QED
          BY <1>7, <4>1 DEF Scripts
      <3> QED
        BY <3>1, <3>2
    <2> QED
      BY <1>7, <1>10, <1>12, <1>16, <2>1, <2>2 DEF RequestOK
  <1>23. ASSUME NEW i \in 1 .. (n + 1), NEW j \in 1 .. (n + 1)
         PROVE  InOrder(i, j)'
    <2> SUFFICES ASSUME i < j
                 PROVE  InOrder(i, j)'
      BY DEF InOrder
    <2>1. i \in 1 .. n /\ requests'[i] = requests[i]
      BY <1>12
    <2>2. CASE j = n + 1
      <3>1. RequestOK(i)
        BY <1>13, <2>1 DEF ProviderInv
      <3> QED
        BY <1>7, <1>10, <1>12, <2>1, <2>2, <3>1 DEF InOrder, RequestOK
    <2>3. CASE j # n + 1
      <3>1. j \in 1 .. n
        BY <2>3
      <3>2. InOrder(i, j) /\ requests'[j] = requests[j]
        BY <1>12, <1>13, <2>1, <3>1 DEF ProviderInv
      <3> QED
        BY <2>1, <3>2 DEF InOrder
    <2> QED
      BY <2>2, <2>3
  <1>24. Taken'
    <2> SUFFICES ASSUME NEW s \in Scripts \ scripts'
                 PROVE  \E i \in 1 .. (n + 1) : requests'[i].script = s
      BY <1>13 DEF Taken
    <2>1. CASE s = script
      BY <1>10, <1>12, <2>1
    <2>2. CASE s # script
      <3>1. s \in Scripts \ scripts
        BY <1>11, <2>2
      <3>2. PICK i \in 1 .. n : requests[i].script = s
        BY <1>13, <3>1 DEF ProviderInv, Taken
      <3> QED
        BY <1>12, <3>2
    <2> QED
      BY <2>1, <2>2
  <1>25. MainOK'
    BY <1>11, <1>17, <1>20 DEF ProviderInv, MainOK, control
  <1>26. Final'
    <2> SUFFICES ASSUME verdict = "passed"
                 PROVE  /\ Len(collected) <= n + 1
                        /\ \A i \in 1 .. Len(collected) : collected[i].ended /\ collected[i] = requests'[i]
                        /\ {collected[i].script : i \in DOMAIN collected} = Scripts
      BY <1>11, <1>12 DEF Final, control
    <2>1. Len(collected) <= n /\ Len(collected) \in Nat
      BY <1>8 DEF ProviderInv, TypeOK, Final
    <2>2. \A i \in 1 .. Len(collected) : i \in 1 .. n
      BY <2>1
    <2> QED
      BY <1>12, <2>1, <2>2 DEF ProviderInv, Final
  <1> QED
    BY <1>13, <1>18, <1>19, <1>21, <1>22, <1>23, <1>24, <1>25, <1>26 DEF ProviderInv

(***************************************************************************)
(* Steps of the main thread.                                               *)
(***************************************************************************)
Settled == \A d \in Conns : Resting(d)

Mains == {"case", "asserted", "events", "shutdown", "drain", "guard", "collect", "judge", "done"}

\* What the candidate's connections were waiting for stays where it was.
Unmoved ==
    /\ conn' \in [Conns -> ConnState]
    /\ \A d \in Conns : conn'[d].st = conn[d].st /\ conn'[d].at = conn[d].at /\ conn'[d].sent = conn[d].sent

LEMMA MainStep ==
    ASSUME ProviderInv, Unmoved, UNCHANGED recorded,
           released \subseteq released', events \subseteq events',
           released' \subseteq events', events' \subseteq Names,
           stopped' \in BOOLEAN, listening' \in BOOLEAN, main' \in Mains,
           verdict' \in {"none", "passed", "failed"}, collected' \in Seq(Record),
           verdict' = "passed" => Settled,
           main' \in {"guard", "collect", "judge"} /\ verdict' = "none" /\ ~errors => Settled,
           MainOK', Final'
    PROVE  ProviderInv'
  <1>1. scripts' = scripts /\ requests' = requests /\ errors' = errors
    BY DEF recorded
  <1>2. TypeOK'
    <2>1. \A d \in Conns : conn'[d].at \in 0 .. Len(requests')
      BY <1>1 DEF ProviderInv, TypeOK, Unmoved
    <2> QED
      BY <1>1, <2>1 DEF ProviderInv, TypeOK, Unmoved, Mains
  <1>3. ASSUME NEW d \in Conns
        PROVE  ConnOK(d)'
    <2>1. /\ conn'[d].st = conn[d].st /\ conn'[d].at = conn[d].at /\ conn'[d].sent = conn[d].sent
          /\ ScriptAt(d)' = ScriptAt(d) /\ ConnOK(d)
      BY <1>1 DEF ProviderInv, Unmoved, ScriptAt
    <2>2. /\ Settled => Resting(d) /\ conn[d].st \notin Answering
          /\ Resting(d)' = Resting(d)
      BY <1>1, <2>1 DEF Settled, Resting, Quiet, Answering
    <2>3. conn[d].st \in Answering => conn[d].at # 0
      BY <2>1 DEF ConnOK, Resting
    <2>4. conn[d].st \in {"headers", "chunk", "body"} => NameOf(Barrier, ScriptAt(d)) \in released' \cup {NoName}
      BY <2>1 DEF ConnOK, Resting
    <2>5. conn[d].st = "body" => NameOf(ChunkBarrier, ScriptAt(d)) \in released' \cup {NoName}
      BY <2>1 DEF ConnOK, Resting
    <2>6. conn[d].st = "delay" => NameOf(Barrier, ScriptAt(d)) \in events' \cup {NoName}
      BY <2>1 DEF ConnOK, Resting
    <2>7. conn[d].st = "reading" => conn[d].sent # <<>>
      BY <2>1 DEF ConnOK, Resting
    <2>8. conn[d].st \in Quiet /\ conn[d].at # 0 => requests[conn[d].at].ended
      BY <2>1 DEF ConnOK, Resting
    <2> QED
      BY <1>1, <2>1, <2>2, <2>3, <2>4, <2>5, <2>6, <2>7, <2>8 DEF ConnOK, Resting
  <1>4. ASSUME NEW i \in DOMAIN requests
        PROVE  RequestOK(i)'
    <2>1. RequestOK(i)
      BY DEF ProviderInv
    <2>2. requests[i].ended \/ \E d \in Conns : conn'[d].at = i /\ conn'[d].st \in Response
      BY <2>1 DEF RequestOK, Unmoved, Response
    <2> QED
      BY <1>1, <2>1, <2>2 DEF RequestOK, Response
  <1>5. \A i, j \in DOMAIN requests : InOrder(i, j)'
    BY <1>1 DEF ProviderInv, InOrder
  <1>6. Taken'
    BY <1>1 DEF ProviderInv, Taken
  <1> QED
    BY <1>1, <1>2, <1>3, <1>4, <1>5, <1>6 DEF ProviderInv

\* The step leaves the connections as they are.
LEMMA ConnsStay ==
    ASSUME ProviderInv, conn' = conn
    PROVE  Unmoved
  BY DEF ProviderInv, TypeOK, Unmoved

\* Nothing answers any more, once that holds or there is an error or a verdict.
LEMMA StillSettled ==
    ASSUME ProviderInv, main \in {"guard", "collect", "judge"}, verdict = "none", ~errors
    PROVE  Settled
  BY DEF ProviderInv, ConnOK, Resting, Settled

LEMMA ReleaseKeeps ==
    ASSUME ProviderInv, NEW name \in Names, Release(name)
    PROVE  ProviderInv'
  <1>1. /\ UNCHANGED recorded /\ released \subseteq released' /\ events \subseteq events'
        /\ released' \subseteq events' /\ events' \subseteq Names
        /\ stopped' \in BOOLEAN /\ listening' \in BOOLEAN /\ main' \in Mains
        /\ verdict' \in {"none", "passed", "failed"} /\ collected' \in Seq(Record)
    BY DEF Release, Step, ProviderInv, TypeOK, Mains
  <1>2. Unmoved
    BY ConnsStay DEF Release
  <1>3. verdict' = "passed" => Settled
    BY StillSettled DEF Release, Step, ProviderInv, MainOK, recorded
  <1>4. main' \in {"guard", "collect", "judge"} /\ verdict' = "none" /\ ~errors => Settled
    BY StillSettled DEF Release, Step
  <1>5. MainOK'
    BY DEF Release, Step, ProviderInv, MainOK, recorded
  <1>6. Final'
    BY DEF Release, Step, ProviderInv, MainOK, Final, recorded
  <1> QED
    BY <1>1, <1>2, <1>3, <1>4, <1>5, <1>6, MainStep

LEMMA AssertFirstKeeps ==
    ASSUME ProviderInv, AssertFirst
    PROVE  ProviderInv'
  <1>1. /\ UNCHANGED recorded /\ released \subseteq released' /\ events \subseteq events'
        /\ released' \subseteq events' /\ events' \subseteq Names
        /\ stopped' \in BOOLEAN /\ listening' \in BOOLEAN /\ main' \in Mains
        /\ verdict' \in {"none", "passed", "failed"} /\ collected' \in Seq(Record)
    BY DEF AssertFirst, Step, ProviderInv, TypeOK, Mains, Complete
  <1>2. Unmoved
    BY ConnsStay DEF AssertFirst
  <1>3. verdict' = "passed" => Settled
    BY StillSettled DEF AssertFirst, Step, ProviderInv, MainOK, Complete, recorded
  <1>4. main' \in {"guard", "collect", "judge"} /\ verdict' = "none" /\ ~errors => Settled
    BY StillSettled DEF AssertFirst, Step
  <1>5. MainOK'
    BY DEF AssertFirst, Step, ProviderInv, MainOK, recorded, Complete
  <1>6. Final'
    BY DEF AssertFirst, Step, ProviderInv, MainOK, Final, recorded, Complete
  <1> QED
    BY <1>1, <1>2, <1>3, <1>4, <1>5, <1>6, MainStep

LEMMA StopKeeps ==
    ASSUME ProviderInv, Stop
    PROVE  ProviderInv'
  <1>1. /\ UNCHANGED recorded /\ released \subseteq released' /\ events \subseteq events'
        /\ released' \subseteq events' /\ events' \subseteq Names
        /\ stopped' \in BOOLEAN /\ listening' \in BOOLEAN /\ main' \in Mains
        /\ verdict' \in {"none", "passed", "failed"} /\ collected' \in Seq(Record)
    BY DEF Stop, Step, ProviderInv, TypeOK, Mains
  <1>2. Unmoved
    BY ConnsStay DEF Stop
  <1>3. verdict' = "passed" => Settled
    BY StillSettled DEF Stop, Step, ProviderInv, MainOK, recorded
  <1>4. main' \in {"guard", "collect", "judge"} /\ verdict' = "none" /\ ~errors => Settled
    BY StillSettled DEF Stop, Step
  <1>5. MainOK'
    BY DEF Stop, Step, ProviderInv, MainOK, recorded
  <1>6. Final'
    BY DEF Stop, Step, ProviderInv, MainOK, Final, recorded
  <1> QED
    BY <1>1, <1>2, <1>3, <1>4, <1>5, <1>6, MainStep

LEMMA ShutdownKeeps ==
    ASSUME ProviderInv, Shutdown
    PROVE  ProviderInv'
  <1>1. /\ UNCHANGED recorded /\ released \subseteq released' /\ events \subseteq events'
        /\ released' \subseteq events' /\ events' \subseteq Names
        /\ stopped' \in BOOLEAN /\ listening' \in BOOLEAN /\ main' \in Mains
        /\ verdict' \in {"none", "passed", "failed"} /\ collected' \in Seq(Record)
    BY DEF Shutdown, Step, ProviderInv, TypeOK, Mains
  <1>2. Unmoved
    BY ConnsStay DEF Shutdown
  <1>3. verdict' = "passed" => Settled
    BY StillSettled DEF Shutdown, Step, ProviderInv, MainOK, recorded
  <1>4. main' \in {"guard", "collect", "judge"} /\ verdict' = "none" /\ ~errors => Settled
    BY StillSettled DEF Shutdown, Step
  <1>5. MainOK'
    BY DEF Shutdown, Step, ProviderInv, MainOK, recorded
  <1>6. Final'
    BY DEF Shutdown, Step, ProviderInv, MainOK, Final, recorded
  <1> QED
    BY <1>1, <1>2, <1>3, <1>4, <1>5, <1>6, MainStep

LEMMA DrainKeeps ==
    ASSUME ProviderInv, Drain
    PROVE  ProviderInv'
  <1>1. /\ UNCHANGED recorded /\ released \subseteq released' /\ events \subseteq events'
        /\ released' \subseteq events' /\ events' \subseteq Names
        /\ stopped' \in BOOLEAN /\ listening' \in BOOLEAN /\ main' \in Mains
        /\ verdict' \in {"none", "passed", "failed"} /\ collected' \in Seq(Record)
    BY DEF Drain, Step, ProviderInv, TypeOK, Mains
  <1>2. Unmoved
    BY ConnsStay DEF Drain
  <1>3. verdict' = "passed" => Settled
    BY StillSettled DEF Drain, Step, ProviderInv, MainOK, recorded
  <1>4. main' \in {"guard", "collect", "judge"} /\ verdict' = "none" /\ ~errors => Settled
    BY StillSettled DEF Drain, Step, Settled, Resting, Registered, Quiet, ProviderInv, TypeOK, ConnState
  <1>5. MainOK'
    BY DEF Drain, Step, ProviderInv, MainOK, recorded
  <1>6. Final'
    BY DEF Drain, Step, ProviderInv, MainOK, Final, recorded
  <1> QED
    BY <1>1, <1>2, <1>3, <1>4, <1>5, <1>6, MainStep

LEMMA DrainTimesOutKeeps ==
    ASSUME ProviderInv, DrainTimesOut
    PROVE  ProviderInv'
  <1>1. /\ UNCHANGED recorded /\ released \subseteq released' /\ events \subseteq events'
        /\ released' \subseteq events' /\ events' \subseteq Names
        /\ stopped' \in BOOLEAN /\ listening' \in BOOLEAN /\ main' \in Mains
        /\ verdict' \in {"none", "passed", "failed"} /\ collected' \in Seq(Record)
    BY DEF DrainTimesOut, Step, ProviderInv, TypeOK, Mains
  <1>2. Unmoved
    BY ConnsStay DEF DrainTimesOut
  <1>3. verdict' = "passed" => Settled
    BY StillSettled DEF DrainTimesOut, Step, ProviderInv, MainOK, recorded
  <1>4. main' \in {"guard", "collect", "judge"} /\ verdict' = "none" /\ ~errors => Settled
    BY StillSettled DEF DrainTimesOut, Step
  <1>5. MainOK'
    BY DEF DrainTimesOut, Step, ProviderInv, MainOK, recorded
  <1>6. Final'
    BY DEF DrainTimesOut, Step, ProviderInv, MainOK, Final, recorded
  <1> QED
    BY <1>1, <1>2, <1>3, <1>4, <1>5, <1>6, MainStep

LEMMA CollectKeeps ==
    ASSUME ProviderInv, Collect
    PROVE  ProviderInv'
  <1>1. /\ UNCHANGED recorded /\ released \subseteq released' /\ events \subseteq events'
        /\ released' \subseteq events' /\ events' \subseteq Names
        /\ stopped' \in BOOLEAN /\ listening' \in BOOLEAN /\ main' \in Mains
        /\ verdict' \in {"none", "passed", "failed"} /\ collected' \in Seq(Record)
    BY DEF Collect, Step, ProviderInv, TypeOK, Mains
  <1>2. Unmoved
    BY ConnsStay DEF Collect
  <1>3. verdict' = "passed" => Settled
    BY StillSettled DEF Collect, Step, ProviderInv, MainOK, recorded
  <1>4. main' \in {"guard", "collect", "judge"} /\ verdict' = "none" /\ ~errors => Settled
    BY StillSettled DEF Collect, Step
  <1>5. MainOK'
    BY DEF Collect, Step, ProviderInv, MainOK, recorded
  <1>6. Final'
    BY DEF Collect, Step, ProviderInv, MainOK, Final, recorded
  <1> QED
    BY <1>1, <1>2, <1>3, <1>4, <1>5, <1>6, MainStep

LEMMA SetEventsKeeps ==
    ASSUME ProviderInv, SetEvents
    PROVE  ProviderInv'
  <1>1. /\ UNCHANGED recorded /\ released \subseteq released' /\ events \subseteq events'
        /\ released' \subseteq events' /\ events' \subseteq Names
        /\ stopped' \in BOOLEAN /\ listening' \in BOOLEAN /\ main' \in Mains
        /\ verdict' \in {"none", "passed", "failed"} /\ collected' \in Seq(Record)
    BY DEF SetEvents, Step, ProviderInv, TypeOK, Mains
  <1>2. Unmoved
    <2>1. ASSUME NEW d \in Conns
          PROVE  /\ conn'[d] \in ConnState
                 /\ conn'[d].st = conn[d].st /\ conn'[d].at = conn[d].at /\ conn'[d].sent = conn[d].sent
      <3>1. PICK u \in ConnState : u = conn[d]
        BY Stations
      <3>2. PICK w : w = [u EXCEPT !.shut = TRUE]
        OBVIOUS
      <3>3. w \in ConnState /\ w.st = u.st /\ w.at = u.at /\ w.sent = u.sent
        BY <3>2 DEF ConnState
      <3>4. conn'[d] = w \/ conn'[d] = u
        BY <3>1, <3>2 DEF SetEvents
      <3> QED
        BY <3>1, <3>3, <3>4
    <2>2. conn' = [d \in Conns |-> conn'[d]]
      BY DEF SetEvents
    <2> QED
      BY <2>1, <2>2 DEF Unmoved
  <1>3. verdict' = "passed" => Settled
    BY StillSettled DEF SetEvents, Step, ProviderInv, MainOK, recorded
  <1>4. main' \in {"guard", "collect", "judge"} /\ verdict' = "none" /\ ~errors => Settled
    BY StillSettled DEF SetEvents, Step
  <1>5. MainOK'
    BY DEF SetEvents, Step, ProviderInv, MainOK, recorded
  <1>6. Final'
    BY DEF SetEvents, Step, ProviderInv, MainOK, Final, recorded
  <1> QED
    BY <1>1, <1>2, <1>3, <1>4, <1>5, <1>6, MainStep

LEMMA KillCandidateKeeps ==
    ASSUME ProviderInv, KillCandidate
    PROVE  ProviderInv'
  <1>1. /\ UNCHANGED recorded /\ released \subseteq released' /\ events \subseteq events'
        /\ released' \subseteq events' /\ events' \subseteq Names
        /\ stopped' \in BOOLEAN /\ listening' \in BOOLEAN /\ main' \in Mains
        /\ verdict' \in {"none", "passed", "failed"} /\ collected' \in Seq(Record)
    BY DEF KillCandidate, Step, ProviderInv, TypeOK, Mains
  <1>2. Unmoved
    <2>1. ASSUME NEW d \in Conns
          PROVE  /\ conn'[d] \in ConnState
                 /\ conn'[d].st = conn[d].st /\ conn'[d].at = conn[d].at /\ conn'[d].sent = conn[d].sent
      <3>1. PICK u \in ConnState : u = conn[d]
        BY Stations
      <3>2. PICK w : w = [u EXCEPT !.open = FALSE]
        OBVIOUS
      <3>3. w \in ConnState /\ w.st = u.st /\ w.at = u.at /\ w.sent = u.sent
        BY <3>2 DEF ConnState
      <3>4. conn'[d] = w
        BY <3>1, <3>2 DEF KillCandidate
      <3> QED
        BY <3>1, <3>3, <3>4
    <2>2. conn' = [d \in Conns |-> conn'[d]]
      BY DEF KillCandidate
    <2> QED
      BY <2>1, <2>2 DEF Unmoved
  <1>3. verdict' = "passed" => Settled
    BY StillSettled DEF KillCandidate, Step, ProviderInv, MainOK, recorded
  <1>4. main' \in {"guard", "collect", "judge"} /\ verdict' = "none" /\ ~errors => Settled
    BY StillSettled DEF KillCandidate, Step
  <1>5. MainOK'
    BY DEF KillCandidate, Step, ProviderInv, MainOK, recorded
  <1>6. Final'
    BY DEF KillCandidate, Step, ProviderInv, MainOK, Final, recorded
  <1> QED
    BY <1>1, <1>2, <1>3, <1>4, <1>5, <1>6, MainStep

LEMMA AssertAgainKeeps ==
    ASSUME ProviderInv, AssertAgain
    PROVE  ProviderInv'
  <1>1. /\ UNCHANGED recorded /\ released \subseteq released' /\ events \subseteq events'
        /\ released' \subseteq events' /\ events' \subseteq Names
        /\ stopped' \in BOOLEAN /\ listening' \in BOOLEAN /\ main' \in Mains
        /\ verdict' \in {"none", "passed", "failed"} /\ collected' \in Seq(Record)
    BY DEF AssertAgain, Step, ProviderInv, TypeOK, Mains, Complete
  <1>2. Unmoved
    BY ConnsStay DEF AssertAgain
  <1>3. verdict' = "passed" => Settled
    BY StillSettled DEF AssertAgain, Step, ProviderInv, MainOK, Complete, recorded
  <1>4. main' \in {"guard", "collect", "judge"} /\ verdict' = "none" /\ ~errors => Settled
    BY StillSettled DEF AssertAgain, Step
  <1>5. MainOK'
    BY DEF AssertAgain, Step, ProviderInv, MainOK, recorded, Complete
  <1>6. Final'
    <2> SUFFICES ASSUME verdict' = "passed"
                 PROVE  /\ Len(collected) <= Len(requests)
                        /\ \A i \in 1 .. Len(collected) : collected[i].ended /\ collected[i] = requests[i]
                        /\ {collected[i].script : i \in DOMAIN collected} = Scripts
      BY DEF Final, AssertAgain, recorded
    <2>1. main = "judge" /\ verdict = "none" /\ ~errors /\ scripts = {}
      BY DEF AssertAgain, Step, Complete, ProviderInv, MainOK
    <2>2. collected = requests /\ Settled
      BY <1>3, <2>1 DEF ProviderInv, MainOK
    <2>3. /\ requests \in Seq(Record) /\ Len(requests) \in Nat /\ DOMAIN requests = 1 .. Len(requests)
      BY DEF ProviderInv, TypeOK
    <2>4. ASSUME NEW i \in DOMAIN requests
          PROVE  requests[i].ended /\ requests[i].script \in Scripts
      <3>1. RequestOK(i)
        BY DEF ProviderInv
      <3>2. \A d \in Conns : conn[d].at = i /\ conn[d].st \in Response => requests[i].ended
        <4>1. i # 0
          BY <2>3
        <4> QED
          BY <2>2, <4>1 DEF Settled, Resting, Quiet, Response, Answering
      <3>3. requests[i].ended
        <4>1. requests[i].ended \/ \E d \in Conns : conn[d].at = i /\ conn[d].st \in Response
          BY <3>1 DEF RequestOK, Response
        <4> QED
          BY <3>2, <4>1
      <3>4. requests[i].script \in 0 .. NumScripts /\ requests[i].script # 0
        <4>1. requests[i] \in Record
          BY <2>3
        <4>2. requests[i].script \in 0 .. NumScripts
          BY <4>1 DEF Record
        <4> QED
          BY <2>1, <3>1, <4>2 DEF RequestOK
      <3>5. requests[i].script \in Scripts
        BY <3>4, ProviderAssumption DEF ProviderAssumption, Scripts
      <3> QED
        BY <3>3, <3>5
    <2>5. \A s \in Scripts : \E i \in DOMAIN requests : requests[i].script = s
      BY <2>1 DEF ProviderInv, Taken
    <2>6. {requests[i].script : i \in DOMAIN requests} = Scripts
      BY <2>4, <2>5
    <2> QED
      BY <2>2, <2>3, <2>4, <2>6
  <1> QED
    BY <1>1, <1>2, <1>3, <1>4, <1>5, <1>6, MainStep

(***************************************************************************)
(* The invariant.                                                          *)
(***************************************************************************)
LEMMA InitKeeps ==
    ASSUME Init
    PROVE  ProviderInv
  <1>1. Unused \in ConnState /\ Unused.at = 0 /\ Unused.st = "free"
    BY ProviderAssumption DEF Unused, ConnState, ProviderAssumption
  <1>2. /\ conn = [c \in Conns |-> Unused] /\ requests = <<>> /\ Len(requests) = 0 /\ scripts = Scripts
        /\ main = "case" /\ verdict = "none" /\ ~errors /\ ~stopped /\ events = {} /\ released = {}
    BY DEF Init
  <1>3. TypeOK
    <2>1. conn \in [Conns -> ConnState] /\ \A c \in Conns : conn[c].at \in 0 .. Len(requests)
      BY <1>1, <1>2
    <2>2. requests \in Seq(Record) /\ collected \in Seq(Record)
      BY EmptySeq DEF Init
    <2>3. scripts \subseteq Scripts /\ errors \in BOOLEAN /\ stopped \in BOOLEAN /\ listening \in BOOLEAN
      BY DEF Init
    <2>4. released \subseteq events /\ events \subseteq Names /\ main = "case" /\ verdict = "none"
      BY DEF Init
    <2> QED
      BY <2>1, <2>2, <2>3, <2>4 DEF TypeOK
  <1>4. \A c \in Conns : ConnOK(c)
    BY <1>1, <1>2 DEF ConnOK, Resting, Answering, Quiet
  <1>5. DOMAIN requests = {}
    BY <1>2
  <1>6. Taken /\ MainOK /\ Final
    BY <1>2 DEF Taken, MainOK, Final
  <1> QED
    BY <1>3, <1>4, <1>5, <1>6 DEF ProviderInv

LEMMA HandlerKeeps ==
    ASSUME ProviderInv, NEW c \in Conns, Handler(c)
    PROVE  ProviderInv'
  <1>1. CASE WriteHeaders(c)
    <2>1. Write(c, "headers", "chunk", 1) /\ 1 \in 1 .. 2
      BY <1>1 DEF WriteHeaders
    <2> QED
      BY <2>1, WriteKeeps
  <1>2. CASE WriteBody(c)
    <2>1. Write(c, "body", "ending", 2) /\ 2 \in 1 .. 2
      BY <1>2 DEF WriteBody
    <2> QED
      BY <2>1, WriteKeeps
  <1> QED
    BY <1>1, <1>2, ReceiveKeeps, EofKeeps, ReadFailsKeeps, MatchKeeps, DelayKeeps, AnswerKeeps,
       ChunkDelayKeeps, EndResponseKeeps DEF Handler

LEMMA NextKeeps ==
    ASSUME ProviderInv, [Next]_vars
    PROVE  ProviderInv'
  <1>1. ASSUME NEW c \in Conns, Candidate(c)
        PROVE  ProviderInv'
    BY <1>1, ConnectKeeps, SendKeeps, DisconnectKeeps DEF Candidate
  <1>2. CASE Closing
    BY <1>2, StopKeeps, SetEventsKeeps, ShutdownKeeps, DrainKeeps, DrainTimesOutKeeps, KillCandidateKeeps,
       CollectKeeps, AssertAgainKeeps DEF Closing
  <1>3. CASE UNCHANGED vars
    <2>1. /\ UNCHANGED recorded /\ conn' = conn /\ events' = events /\ released' = released
          /\ stopped' = stopped /\ listening' = listening /\ main' = main /\ verdict' = verdict
          /\ collected' = collected
      BY <1>3 DEF vars, recorded
    <2>2. scripts' = scripts /\ requests' = requests /\ errors' = errors
      BY <2>1 DEF recorded
    <2>3. TypeOK'
      BY <2>1, <2>2 DEF ProviderInv, TypeOK
    <2>4. \A c \in Conns : ConnOK(c)'
      BY <2>1, <2>2 DEF ProviderInv, ConnOK, Resting, ScriptAt
    <2>5. \A i \in DOMAIN requests' : RequestOK(i)'
      BY <2>1, <2>2 DEF ProviderInv, RequestOK
    <2>6. \A i, j \in DOMAIN requests' : InOrder(i, j)'
      BY <2>2 DEF ProviderInv, InOrder
    <2>7. (Taken /\ MainOK /\ Final)'
      BY <2>1, <2>2 DEF ProviderInv, Taken, MainOK, Final
    <2> QED
      BY <2>3, <2>4, <2>5, <2>6, <2>7 DEF ProviderInv
  <1> QED
    BY <1>1, <1>2, <1>3, HandlerKeeps, ReleaseKeeps, AssertFirstKeeps DEF Next

(***************************************************************************)
(* Any connections, requests and scripts: a case passes on exactly what    *)
(* was scripted, in the order of expect; its evidence does not change      *)
(* after it was collected; and no client is answered past a barrier that   *)
(* the case did not release, although close releases all of them.          *)
(***************************************************************************)
THEOREM EvidenceIsAlwaysScripted == Spec => []EvidenceIsScripted
  <1>1. ProviderInv => EvidenceFinal
    <2> SUFFICES ASSUME ProviderInv, verdict = "passed", NEW i \in DOMAIN collected
                 PROVE  collected[i].ended /\ collected[i] = requests[i]
      BY DEF EvidenceFinal
    <2>1. i \in 1 .. Len(collected)
      BY DEF ProviderInv, TypeOK
    <2> QED
      BY <2>1 DEF ProviderInv, Final
  <1>2. ProviderInv => ScriptsUsedUp
    BY DEF ProviderInv, InOrder, Final, ScriptsUsedUp
  <1>3. ProviderInv => AnswersAreReleased
    BY DEF ProviderInv, RequestOK, AnswersAreReleased
  <1>4. ProviderInv => EvidenceIsScripted
    BY <1>1, <1>2, <1>3 DEF EvidenceIsScripted
  <1> QED
    BY InitKeeps, NextKeeps, <1>4, PTL DEF Spec

(***************************************************************************)
(* When the verdict is given, no request was recorded that is not in the   *)
(* evidence (Provider.close before collect, assert_complete after it).     *)
(***************************************************************************)
THEOREM EvidenceIsComplete == Spec => EvidenceComplete
  <1>1. ASSUME ProviderInv, [Next]_vars
        PROVE  [verdict' = "passed" /\ verdict # "passed" => requests = collected]_vars
    <2> SUFFICES ASSUME Next, verdict' = "passed", verdict # "passed"
                 PROVE  requests = collected
      BY <1>1
    <2>1. AssertAgain
      <3>1. \A c \in Conns : ~Candidate(c) /\ ~Handler(c)
        BY DEF Candidate, Connect, Send, Disconnect, Handler, Receive, Eof, ReadFails, Match, Delay, Answer,
               WriteHeaders, ChunkDelay, WriteBody, Write, EndResponse, control
      <3> QED
        BY <3>1 DEF Next, Release, AssertFirst, Closing, Stop, SetEvents, Shutdown, Drain, DrainTimesOut,
                    KillCandidate, Collect
    <2>2. main = "judge" /\ verdict = "none" /\ ~errors
      BY <2>1 DEF AssertAgain, Step, Complete, ProviderInv, TypeOK
    <2> QED
      BY <1>1, <2>2 DEF ProviderInv, MainOK
  <1> QED
    BY <1>1, InitKeeps, NextKeeps, PTL DEF Spec, EvidenceComplete

-----------------------------------------------------------------------------
(* The processes of a case: CaseProcesses. *)

Own == Lives \ Foreign

(* A process that was born has a pid and a group that somebody founded;    *)
(* groups do not mix the case with strangers, and who cannot escape is     *)
(* inside the case tree.                                                   *)
Families ==
    \A l \in Lives : ~Unborn(l) =>
        /\ proc[l].pid \in Pids /\ proc[l].group \in Lives /\ ~Unborn(proc[l].group)
        /\ (l \in Foreign) <=> (proc[l].group \in Foreign)
        /\ (l \in Own /\ ~Escapes) => proc[l].inside

(* A number is not of the case and of a stranger at a time, be it that of  *)
(* two groups or of a process and a group.                                 *)
Numbers ==
    \A l, k \in Lives : Exists(l) /\ Exists(k) /\ (Pgid(l) = Pgid(k) \/ proc[l].pid = Pgid(k)) =>
        ((l \in Foreign) <=> (k \in Foreign))

Candidates ==
    /\ pc \in Invoking => cand \in Own /\ ~Unborn(cand)
    /\ pc \in {"waiting", "polling"} => ~run.noted

(* The group of a candidate that was terminated stays empty.               *)
GroupOver ==
    (pc = "joining" \/ (pc = "case" /\ run.result # "none")) =>
        /\ cand \in Lives /\ ~Unborn(cand)
        /\ \A l \in Lives : IsRunning(l) => proc[l].group # cand

(* While the table is read: whoever runs, but those forked late, is in it  *)
(* or its pid is still to be read.                                         *)
HasRow(l) ==
    \E r \in snap[Main].table : r.life = l /\ r.pid = proc[l].pid /\ ~r.zombie /\ r.inside = proc[l].inside
Covered(late) ==
    \A l \in Own : (IsRunning(l) /\ l \notin late) => proc[l].pid \in snap[Main].todo \/ HasRow(l)
Listings ==
    /\ pc \in {"groupleaks", "noting"} => Covered(unnoted)
    /\ pc = "finding" => Covered(young)

(* What the listings that look for leaks achieve.                          *)
Noted ==
    ~Escapes =>
        /\ (pc \in {"terminate", "terminating", "killing"} /\ run.noted) =>
              \A l \in Own : (IsRunning(l) /\ Pgid(l) = Number) => l \in leaks \cup unnoted
        /\ (pc \in {"finding", "signal", "verified", "again"} /\ ~close.error) =>
              \A l \in Own : IsRunning(l) => l \in leaks \cup unnoted

(* What the last listing of cleanup achieves.                              *)
Cleared ==
    (pc = "judge" \/ (pc = "closed" /\ ~close.error)) =>
        \A l \in Own : (IsRunning(l) /\ proc[l].inside) => l \in young

PendingOwned == \A r \in pending : r.life \in owned

CaseInv ==
    /\ CaseTypeOK /\ Families /\ Numbers /\ Candidates /\ GroupOver /\ Listings /\ Noted /\ Cleared
    /\ PendingOwned /\ KilledIsReported /\ SignalsOnlyClaimed

(* Nothing but the end of processes happens to proc.                       *)
Aged ==
    /\ proc' \in [Lives -> Process]
    /\ \A l \in Lives :
          /\ (proc'[l].st = "running") => IsRunning(l)
          /\ (proc'[l].st = "zombie") => Exists(l)
          /\ (proc'[l].st = "unborn") <=> Unborn(l)
          /\ proc'[l].pid = proc[l].pid /\ proc'[l].group = proc[l].group /\ proc'[l].inside = proc[l].inside

(* One process is born.                                                    *)
Born(q) ==
    /\ proc' \in [Lives -> Process]
    /\ q \in Lives /\ Unborn(q) /\ proc'[q].st = "running"
    /\ proc'[q].pid \in Pids /\ proc'[q].group \in Lives /\ FreePid(proc'[q].pid)
    /\ \/ proc'[q].group = q
       \/ \E l \in Lives : Exists(l) /\ proc'[q].group = proc[l].group /\ ((l \in Foreign) <=> (q \in Foreign))
    /\ (q \in Foreign) <=> (proc'[q].group \in Foreign)
    /\ (q \in Own /\ ~Escapes) => proc'[q].inside
    /\ \A l \in Lives \ {q} : proc'[l] = proc[l]

(* Who ends does not run, and is not unborn; the rest stays what it was.   *)
LEMMA EndedAges ==
    ASSUME NEW ps \in [Lives -> Process], NEW dying \in SUBSET Lives
    PROVE  /\ Ended(ps, dying) \in [Lives -> Process]
           /\ \A l \in Lives :
                 LET e == Ended(ps, dying)[l]
                 IN /\ e.st = "running" <=> (ps[l].st = "running" /\ l \notin dying)
                    /\ e.st = "zombie" => (ps[l].st = "zombie" \/ l \in dying)
                    /\ e.st = "unborn" <=> (ps[l].st = "unborn" /\ l \notin dying)
                    /\ e.pid = ps[l].pid /\ e.group = ps[l].group /\ e.inside = ps[l].inside
  <1> DEFINE E == Ended(ps, dying)
  <1>1. ASSUME NEW l \in Lives
        PROVE  /\ E[l] \in Process
               /\ E[l].st = "running" <=> (ps[l].st = "running" /\ l \notin dying)
               /\ E[l].st = "zombie" => (ps[l].st = "zombie" \/ l \in dying)
               /\ E[l].st = "unborn" <=> (ps[l].st = "unborn" /\ l \notin dying)
               /\ E[l].pid = ps[l].pid /\ E[l].group = ps[l].group /\ E[l].inside = ps[l].inside
    <2>0. ps[l] \in Process
      OBVIOUS
    <2>1. CASE l \in dying
      <3>1. E[l] = [ps[l] EXCEPT !.st = IF ps[l].parent = Init1 \/ ps[l].parent \in dying THEN "gone" ELSE "zombie",
                                 !.pipe = FALSE]
        BY <2>1 DEF Ended
      <3> QED  BY <3>1, <2>0, <2>1 DEF Process
    <2>2. CASE l \notin dying /\ ps[l].parent \in dying
      <3>1. E[l] = [ps[l] EXCEPT !.parent = Init1, !.st = IF @ = "zombie" THEN "gone" ELSE @]
        BY <2>2 DEF Ended
      <3> QED  BY <3>1, <2>0, <2>2 DEF Process
    <2>3. CASE l \notin dying /\ ps[l].parent \notin dying
      <3>1. E[l] = ps[l]
        BY <2>3 DEF Ended
      <3> QED  BY <3>1, <2>0, <2>3
    <2> QED  BY <2>1, <2>2, <2>3
  <1>2. E = [l \in Lives |-> E[l]]
    BY DEF Ended
  <1> HIDE DEF E
  <1>3. E \in [Lives -> Process]
    BY <1>1, <1>2
  <1> QED  BY <1>1, <1>3 DEF E

(* discover keeps what it knew and claims what it sees inside the case     *)
(* tree.                                                                   *)
LEMMA ClaimedIs ==
    ASSUME NEW table \in SUBSET Reading, NEW known \in SUBSET Lives
    PROVE  /\ known \subseteq Claimed(table, known) /\ Claimed(table, known) \subseteq Lives
           /\ \A r \in table : ~r.zombie /\ r.inside => r.life \in Claimed(table, known)
  BY DEF Claimed, Alive, Reading

Kept == <<snap, guard, monitor, pc, cand, run, close, pending, hist>>

LEMMA ListingsStay ==
    ASSUME Listings, pc' = pc, snap'[Main] = snap[Main], young \subseteq young', unnoted \subseteq unnoted',
           \A l \in Own : IsRunning(l)' =>
               \/ IsRunning(l) /\ proc'[l].pid = proc[l].pid /\ proc'[l].inside = proc[l].inside
               \/ l \in young' /\ l \in unnoted'
    PROVE  Listings'
  <1>1. ASSUME NEW l \in Own, IsRunning(l)', l \notin unnoted' \/ l \notin young'
        PROVE  /\ IsRunning(l) /\ HasRow(l)' = HasRow(l)
               /\ (proc'[l].pid \in snap'[Main].todo) = (proc[l].pid \in snap[Main].todo)
    BY <1>1 DEF HasRow
  <1>2. Covered(unnoted) => Covered(unnoted)'
    BY <1>1 DEF Covered
  <1>3. Covered(young) => Covered(young)'
    BY <1>1 DEF Covered
  <1> QED  BY <1>2, <1>3 DEF Listings

LEMMA FamiliesGrow ==
    ASSUME Families, NEW q, Born(q)
    PROVE  Families'
  <1> SUFFICES ASSUME NEW l \in Lives, proc'[l].st # "unborn"
               PROVE  /\ proc'[l].pid \in Pids /\ proc'[l].group \in Lives /\ proc'[proc'[l].group].st # "unborn"
                      /\ (l \in Foreign) <=> (proc'[l].group \in Foreign)
                      /\ (l \in Own /\ ~Escapes) => proc'[l].inside
    BY DEF Families, Unborn
  <1>1. ASSUME NEW x \in Lives, ~Unborn(x) PROVE x # q /\ proc'[x] = proc[x] /\ proc'[x].st # "unborn"
    BY <1>1 DEF Born, Unborn
  <1>2. CASE l = q
    <2>1. proc'[q].group = q \/ ~Unborn(proc'[q].group)
      BY DEF Families, Born, Exists, Unborn
    <2> QED  BY <1>1, <1>2, <2>1 DEF Born
  <1>3. CASE l # q
    <2>1. proc'[l] = proc[l] /\ ~Unborn(l)
      BY <1>3 DEF Born, Unborn
    <2> QED  BY <1>1, <2>1 DEF Families
  <1> QED  BY <1>2, <1>3

(* Numbers of groups do not change, and a new one was free.                *)
LEMMA NumbersGrow ==
    ASSUME Families, Numbers, NEW q, Born(q)
    PROVE  /\ Numbers'
           /\ \A l \in Lives : ~Unborn(l) => l # q /\ proc'[l] = proc[l] /\ Pgid(l)' = Pgid(l) /\ Exists(l)' = Exists(l)
  <1>1. ASSUME NEW l \in Lives, ~Unborn(l)
        PROVE  l # q /\ proc'[l] = proc[l] /\ Pgid(l)' = Pgid(l) /\ Exists(l)' = Exists(l)
    <2>1. \A x \in Lives : ~Unborn(x) => x # q /\ proc'[x] = proc[x]
      BY DEF Born, Unborn
    <2>2. proc[l].group \in Lives /\ ~Unborn(proc[l].group)
      BY <1>1 DEF Families
    <2> QED  BY <1>1, <2>1, <2>2 DEF Pgid, Exists
  <1>2. ASSUME NEW l \in Lives, Exists(l)', l # q PROVE Exists(l)
    BY <1>2 DEF Born, Exists
  <1>3. \A l \in Lives : Exists(l) => ~Unborn(l) /\ proc'[q].pid # proc[l].pid /\ proc'[q].pid # Pgid(l)
    BY DEF Born, FreePid, Exists, Unborn
  <1>4. \/ Pgid(q)' = proc'[q].pid
        \/ \E l \in Lives : Exists(l) /\ Pgid(q)' = Pgid(l) /\ ((l \in Foreign) <=> (q \in Foreign))
    <2>1. CASE proc'[q].group = q
      BY <2>1 DEF Pgid
    <2>2. ASSUME NEW l \in Lives, Exists(l), proc'[q].group = proc[l].group, (l \in Foreign) <=> (q \in Foreign)
          PROVE  Pgid(q)' = Pgid(l)
      <3>1. proc[l].group \in Lives /\ ~Unborn(proc[l].group)
        BY <1>3, <2>2 DEF Families
      <3> QED  BY <1>1, <2>2, <3>1 DEF Pgid
    <2> QED  BY <2>1, <2>2 DEF Born
  <1> DEFINE Alike(x, y) == (x \in Foreign) <=> (y \in Foreign)
  <1>5. ASSUME NEW l \in Lives, l # q, Exists(l)'
        PROVE  (Pgid(l)' = Pgid(q)' \/ proc'[l].pid = Pgid(q)' \/ proc'[q].pid = Pgid(l)') => Alike(l, q)
    <2>1. Exists(l) /\ proc'[l] = proc[l] /\ Pgid(l)' = Pgid(l)
      BY <1>1, <1>2, <1>3, <1>5
    <2>2. proc'[q].pid # proc[l].pid /\ proc'[q].pid # Pgid(l)
      BY <1>3, <2>1
    <2>3. ASSUME NEW k \in Lives, Exists(k), Pgid(q)' = Pgid(k), Alike(k, q)
          PROVE  (Pgid(l)' = Pgid(q)' \/ proc'[l].pid = Pgid(q)') => Alike(l, q)
      BY <2>1, <2>3 DEF Numbers
    <2> QED  BY <1>4, <2>1, <2>2, <2>3
  <1>6. ASSUME NEW l \in Lives, NEW k \in Lives, l # q, k # q, Exists(l)', Exists(k)'
        PROVE  (Pgid(l)' = Pgid(k)' \/ proc'[l].pid = Pgid(k)') => Alike(l, k)
    <2>1. Exists(l) /\ Exists(k) /\ proc'[l] = proc[l] /\ Pgid(l)' = Pgid(l) /\ Pgid(k)' = Pgid(k)
      BY <1>1, <1>2, <1>3, <1>6
    <2> QED  BY <2>1 DEF Numbers
  <1>7. Numbers'
    <2> SUFFICES ASSUME NEW l \in Lives, NEW k \in Lives, Exists(l)', Exists(k)',
                        Pgid(l)' = Pgid(k)' \/ proc'[l].pid = Pgid(k)'
                 PROVE  Alike(l, k)
      BY DEF Numbers
    <2> QED  BY <1>5, <1>6
  <1> QED  BY <1>1, <1>7

(* Who runs in the group that g founded.                                   *)
Members(g) == {l \in Lives : IsRunning(l) /\ proc[l].group = g}

(* Who is born joins no group that is over, unless it is its own.          *)
LEMMA GroupsGrow ==
    ASSUME NEW q, Born(q), NEW g \in Lives, ~Unborn(g), proc'[q].group = g => Members(g) # {}
    PROVE  /\ Unborn(g)' = FALSE
           /\ Members(g)' \subseteq Members(g) \cup {q}
           /\ Members(g) = {} => Members(g)' = {}
  <1>1. g # q /\ proc'[g] = proc[g]
    BY DEF Born
  <1>2. ASSUME NEW l \in Lives, l # q PROVE proc'[l] = proc[l]
    BY <1>2 DEF Born
  <1> QED  BY <1>1, <1>2 DEF Members, IsRunning, Unborn

(* What proc is when processes only ended.                                 *)
LEMMA FamiliesAge ==
    ASSUME Families, Numbers, Aged
    PROVE  /\ Families' /\ Numbers'
           /\ \A l \in Lives : ~Unborn(l) => ~Unborn(l)' /\ Pgid(l)' = Pgid(l)
  <1>1. ASSUME NEW l \in Lives, ~Unborn(l)
        PROVE  /\ ~Unborn(l)' /\ proc'[l].pid = proc[l].pid /\ proc'[l].group = proc[l].group
               /\ Pgid(l)' = Pgid(l) /\ ~Unborn(proc[l].group)' /\ proc[l].group \in Lives
    BY <1>1 DEF Families, Aged, Unborn, Pgid
  <1>2. Families'
    BY <1>1 DEF Families, Aged, Unborn
  <1>3. ASSUME NEW l \in Lives, Exists(l)' PROVE Exists(l) /\ ~Unborn(l)
    BY <1>3 DEF Aged, Exists, Unborn, IsRunning
  <1>4. Numbers'
    <2> SUFFICES ASSUME NEW l \in Lives, NEW k \in Lives, Exists(l)', Exists(k)',
                        Pgid(l)' = Pgid(k)' \/ proc'[l].pid = Pgid(k)'
                 PROVE  (l \in Foreign) <=> (k \in Foreign)
      BY DEF Numbers
    <2>1. Exists(l) /\ Exists(k) /\ (Pgid(l) = Pgid(k) \/ proc[l].pid = Pgid(k))
      BY <1>1, <1>3
    <2> QED  BY <2>1 DEF Numbers
  <1> QED  BY <1>1, <1>2, <1>4

(* What was noted is noted when processes only ended.                      *)
LEMMA NotedAges ==
    ASSUME CaseInv, Aged, UNCHANGED <<cand, leaks, unnoted>>, run'.noted = run.noted, close.error => close'.error,
           pc' = pc \/ (pc = "terminate" /\ pc' = "terminating") \/ (pc = "terminating" /\ pc' = "killing")
    PROVE  Noted'
  <1>1. ASSUME NEW l \in Own, IsRunning(l)'
        PROVE  IsRunning(l) /\ Pgid(l)' = Pgid(l)
    BY <1>1, FamiliesAge DEF CaseInv, Aged, IsRunning, Unborn, Own
  <1>2. pc \in Invoking => Number' = Number
    BY DEF CaseInv, Candidates, Aged, Number, Own
  <1> QED  BY <1>1, <1>2 DEF CaseInv, Noted, Invoking

(* A signal to the candidate's group, while there is one, hits no stranger. *)
LEMMA GroupIsOwn ==
    ASSUME CaseInv, pc \in Invoking, HasGroup
    PROVE  Group(Number) \cap Foreign = {}
  <1>1. PICK k \in Lives : Exists(k) /\ proc[k].group = cand
    BY DEF HasGroup
  <1>2. k \notin Foreign /\ Pgid(k) = Number
    BY <1>1 DEF CaseInv, Candidates, Families, Own, Exists, Unborn, Pgid, Number
  <1>3. ASSUME NEW l \in Group(Number) PROVE l \notin Foreign
    BY <1>1, <1>2, <1>3 DEF CaseInv, Numbers, Group, IsRunning, Exists
  <1> QED  BY <1>3

(* The environment: processes end or are waited for. *)
LEMMA AgedKeeps ==
    ASSUME CaseInv, Aged, UNCHANGED Kept
    PROVE  CaseInv'
  <1>1. CaseTypeOK'
    BY DEF CaseInv, CaseTypeOK, Aged, Kept, guard, hist
  <1>2. Families' /\ Numbers' /\ Candidates'
    BY FamiliesAge DEF CaseInv, Aged, Kept, Candidates, Unborn, Own
  <1>3. GroupOver'
    BY DEF CaseInv, CaseTypeOK, Aged, Kept, guard, hist, GroupOver, Unborn, IsRunning
  <1>4. Listings'
    BY ListingsStay DEF CaseInv, Aged, Kept, hist, IsRunning, Own
  <1>5. Noted'
    BY NotedAges DEF Kept, guard, hist
  <1>6. Cleared' /\ PendingOwned' /\ KilledIsReported' /\ SignalsOnlyClaimed'
    BY DEF CaseInv, CaseTypeOK, Aged, Kept, guard, hist, Cleared, PendingOwned, KilledIsReported,
           SignalsOnlyClaimed, IsRunning, Own
  <1> QED  BY <1>1, <1>2, <1>3, <1>4, <1>5, <1>6 DEF CaseInv

LEMMA ExitKeeps ==
    ASSUME CaseInv, NEW p \in Lives, Exit(p)
    PROVE  CaseInv'
  <1>1. proc \in [Lives -> Process]
    BY DEF CaseInv, CaseTypeOK
  <1>2. Aged
    BY <1>1, EndedAges DEF Exit, Aged, IsRunning, Exists, Unborn
  <1> QED  BY <1>2, AgedKeeps DEF Exit, Kept

LEMMA WaitedKeeps ==
    ASSUME CaseInv, NEW p \in Lives, Waited(p)
    PROVE  CaseInv'
  <1>1. proc \in [Lives -> Process]
    BY DEF CaseInv, CaseTypeOK
  <1>2. Aged
    BY <1>1 DEF Waited, Aged, IsRunning, Exists, Unborn, Process
  <1> QED  BY <1>2, AgedKeeps DEF Waited, Kept

(* A process is forked, or a stranger starts. *)
LEMMA ForkKeeps ==
    ASSUME CaseInv, NEW p \in Lives, NEW q \in Lives, Fork(p, q)
    PROVE  CaseInv'
  <1>0. proc \in [Lives -> Process]
    BY DEF CaseInv, CaseTypeOK
  <1>1. Born(q) /\ (proc'[q].group = q \/ proc'[q].group = proc[p].group)
    <2>1. PICK pid \in Pids, detach, keeps, stays \in BOOLEAN :
              /\ FreePid(pid) /\ (stays \/ Escapes)
              /\ proc' = [proc EXCEPT ![q] =
                     [st |-> "running", pid |-> pid, parent |-> p,
                      group |-> IF detach THEN q ELSE proc[p].group,
                      inside |-> stays /\ proc[p].inside, pipe |-> keeps /\ proc[p].pipe]]
      BY ZenonT(30) DEF Fork
    <2>2. IsRunning(p) /\ Exists(p) /\ Unborn(q) /\ ((p \in Foreign) <=> (q \in Foreign)) /\ ~Unborn(p)
      BY DEF Fork, IsRunning, Exists, Unborn
    <2>3. /\ proc[p] \in Process /\ proc[p].group \in Lives
          /\ (p \in Foreign) <=> (proc[p].group \in Foreign)
          /\ (p \in Own /\ ~Escapes) => proc[p].inside
      BY <1>0, <2>2 DEF CaseInv, Families
    <2>4. PICK gr \in Lives : gr = IF detach THEN q ELSE proc[p].group
      BY <2>3
    <2>5. PICK yes \in BOOLEAN : yes = (stays /\ proc[p].inside)
      OBVIOUS
    <2>6. PICK pipes \in BOOLEAN : pipes = (keeps /\ proc[p].pipe)
      OBVIOUS
    <2>7. proc'[q] = [st |-> "running", pid |-> pid, parent |-> p, group |-> gr, inside |-> yes, pipe |-> pipes]
      BY <1>0, <2>1, <2>4, <2>5, <2>6
    <2>8. proc'[q] \in Process
      BY <2>7 DEF Process
    <2>9. proc' \in [Lives -> Process] /\ \A l \in Lives \ {q} : proc'[l] = proc[l]
      BY <1>0, <2>1, <2>7, <2>8
    <2>10. (q \in Foreign) <=> (gr \in Foreign)
      BY <2>2, <2>3, <2>4
    <2>11. (q \in Own /\ ~Escapes) => yes
      BY <2>1, <2>2, <2>3, <2>5 DEF Own
    <2>12. gr = q \/ gr = proc[p].group
      BY <2>4
    <2> QED  BY <2>1, <2>2, <2>7, <2>9, <2>10, <2>11, <2>12 DEF Born
  <1>2. /\ UNCHANGED <<snap, guard, monitor, pc, cand, run, close, pending, struck, silent>>
        /\ young' = young \cup {q} /\ unnoted' = unnoted \cup {q}
        /\ IsRunning(p)
    BY DEF Fork
  <1>b. ASSUME NEW l \in Lives, ~Unborn(l)
        PROVE  l # q /\ proc'[l] = proc[l] /\ ~Unborn(l)'
    BY <1>1, <1>b DEF Born, Unborn
  <1>g. ASSUME NEW l \in Lives, ~Unborn(l)
        PROVE  Members(l)' \subseteq Members(l) \cup {q} /\ (Members(l) = {} => Members(l)' = {})
    <2>1. proc'[q].group = l => p \in Members(l)
      BY <1>1, <1>2, <1>b, <1>g DEF Members
    <2> QED  BY <1>1, <1>g, <2>1, GroupsGrow
  <1>3. CaseTypeOK'
    BY ZenonT(30), <1>1, <1>2 DEF CaseInv, CaseTypeOK, Born, guard
  <1>4. Families' /\ Numbers' /\ Candidates'
    BY <1>1, <1>2, <1>b, FamiliesGrow, NumbersGrow DEF CaseInv, Candidates, Own
  <1>5. GroupOver'
    BY <1>1, <1>2, <1>b, <1>g DEF CaseInv, GroupOver, Members
  <1>6. Listings'
    BY <1>1, <1>2, ListingsStay DEF CaseInv, Born, IsRunning, Own
  <1>7. Noted'
    <2>1. ASSUME NEW l \in Own, IsRunning(l)', l \notin unnoted'
          PROVE  IsRunning(l) /\ Pgid(l)' = Pgid(l) /\ l \notin unnoted
      BY <1>1, <1>2, <2>1, NumbersGrow DEF CaseInv, Born, IsRunning, Unborn, Own
    <2>2. pc \in Invoking => Number' = Number
      BY <1>2, <1>b DEF CaseInv, Candidates, Number, Own
    <2> QED  BY <1>2, <2>1, <2>2 DEF CaseInv, Noted, Invoking, guard
  <1>8. Cleared' /\ PendingOwned' /\ KilledIsReported' /\ SignalsOnlyClaimed'
    BY <1>1, <1>2 DEF CaseInv, CaseTypeOK, Born, guard, Cleared, PendingOwned, KilledIsReported,
           SignalsOnlyClaimed, IsRunning, Own
  <1> QED  BY <1>3, <1>4, <1>5, <1>6, <1>7, <1>8 DEF CaseInv

LEMMA ForeignStartsKeeps ==
    ASSUME CaseInv, NEW q \in Lives, ForeignStarts(q)
    PROVE  CaseInv'
  <1>0. proc \in [Lives -> Process]
    BY DEF CaseInv, CaseTypeOK
  <1>1. Born(q) /\ proc'[q].group = q /\ q \in Foreign
    <2>1. PICK pid \in Pids :
              /\ FreePid(pid)
              /\ proc' = [proc EXCEPT ![q] = [Absent EXCEPT !.st = "running", !.pid = pid, !.parent = Init1, !.group = q]]
      BY DEF ForeignStarts
    <2>2. proc'[q] = [st |-> "running", pid |-> pid, parent |-> Init1, group |-> q, inside |-> FALSE, pipe |-> FALSE]
      BY <1>0, <2>1 DEF Absent
    <2>3. proc'[q] \in Process
      BY <2>2 DEF Process
    <2>4. proc' \in [Lives -> Process] /\ \A l \in Lives \ {q} : proc'[l] = proc[l]
      BY <1>0, <2>1, <2>2, <2>3
    <2> QED  BY <2>1, <2>2, <2>4 DEF ForeignStarts, Born, Own
  <1>2. UNCHANGED Kept
    BY DEF ForeignStarts, Kept
  <1>b. ASSUME NEW l \in Lives, ~Unborn(l)
        PROVE  l # q /\ proc'[l] = proc[l] /\ ~Unborn(l)'
    BY <1>1, <1>b DEF Born, Unborn
  <1>g. ASSUME NEW l \in Lives, ~Unborn(l)
        PROVE  Members(l)' \subseteq Members(l) \cup {q} /\ (Members(l) = {} => Members(l)' = {})
    BY <1>1, <1>b, <1>g, GroupsGrow
  <1>3. CaseTypeOK'
    BY ZenonT(30), <1>1, <1>2 DEF CaseInv, CaseTypeOK, Born, Kept, guard, hist
  <1>4. Families' /\ Numbers' /\ Candidates'
    BY <1>1, <1>2, <1>b, FamiliesGrow, NumbersGrow DEF CaseInv, Candidates, Kept, guard, hist, Own
  <1>5. GroupOver'
    BY <1>1, <1>2, <1>b, <1>g DEF CaseInv, GroupOver, Members, Kept, guard, hist
  <1>6. Listings'
    BY <1>1, <1>2, ListingsStay DEF CaseInv, Born, IsRunning, Own, Kept, guard, hist
  <1>7. Noted'
    <2>1. ASSUME NEW l \in Own, IsRunning(l)'
          PROVE  IsRunning(l) /\ Pgid(l)' = Pgid(l)
      BY <1>1, <2>1, NumbersGrow DEF CaseInv, Born, IsRunning, Unborn, Own
    <2>2. pc \in Invoking => Number' = Number
      BY <1>2, <1>b DEF CaseInv, Candidates, Number, Own, Kept
    <2> QED  BY <1>2, <2>1, <2>2 DEF CaseInv, Noted, Invoking, Kept, guard, hist
  <1>8. Cleared' /\ PendingOwned' /\ KilledIsReported' /\ SignalsOnlyClaimed'
    BY <1>1, <1>2 DEF CaseInv, CaseTypeOK, Born, Kept, guard, hist, Cleared, PendingOwned, KilledIsReported,
           SignalsOnlyClaimed, IsRunning, Own
  <1> QED  BY <1>3, <1>4, <1>5, <1>6, <1>7, <1>8 DEF CaseInv

-----------------------------------------------------------------------------
(* Reading the process table. *)

LEMMA ProcStays ==
    ASSUME Families, Numbers, UNCHANGED proc
    PROVE  Families' /\ Numbers'
  BY DEF Families, Numbers, Exists, Pgid, Unborn

LEMMA NotedStays ==
    ASSUME Noted, UNCHANGED <<proc, pc, cand, run, close, leaks, unnoted>>
    PROVE  Noted'
  BY DEF Noted, Pgid, Number, IsRunning

LEMMA ReadProcessTable ==
    ASSUME CaseInv, NEW t \in Threads, ReadProcess(t)
    PROVE  /\ snap' \in [Threads -> [todo : SUBSET Pids, table : SUBSET Reading]]
           /\ \A u \in Threads \ {t} : snap'[u] = snap[u]
           /\ \E pid \in snap[t].todo :
                /\ snap'[t].todo = snap[t].todo \ {pid}
                /\ snap[t].table \subseteq snap'[t].table
                /\ \A l \in Lives : (IsRunning(l) /\ proc[l].pid = pid) =>
                      \E r \in snap'[t].table : r.life = l /\ r.pid = pid /\ ~r.zombie /\ r.inside = proc[l].inside
  <1>1. /\ proc \in [Lives -> Process]
        /\ snap \in [Threads -> [todo : SUBSET Pids, table : SUBSET Reading]]
    BY DEF CaseInv, CaseTypeOK
  <1> DEFINE Row(l, pid) == [life |-> l, pid |-> pid, zombie |-> ~IsRunning(l), inside |-> proc[l].inside,
                             ppid |-> IF proc[l].parent \in Lives THEN proc[proc[l].parent].pid ELSE Nobody]
  <1>2. PICK pid \in snap[t].todo :
            snap' = [snap EXCEPT ![t] = [todo |-> @.todo \ {pid}, table |-> @.table \cup {Row(l, pid) : l \in AtPid(pid)}]]
    BY DEF ReadProcess
  <1>3. ASSUME NEW l \in AtPid(pid)
        PROVE  Row(l, pid) \in Reading
    <2>1. l \in Lives /\ pid \in Pids /\ proc[l] \in Process
      BY <1>1 DEF AtPid
    <2>2. proc[l].inside \in BOOLEAN /\ proc[l].parent \in Lives \cup {Nobody, Init1, Harness}
      BY <2>1 DEF Process
    <2>3. \A k \in Lives : proc[k].pid \in Pids \cup {Nobody}
      BY <1>1 DEF Process
    <2>4. PICK pp \in Pids \cup {Nobody} : pp = IF proc[l].parent \in Lives THEN proc[proc[l].parent].pid ELSE Nobody
      BY <2>2, <2>3
    <2>5. PICK z \in BOOLEAN : z = ~IsRunning(l)
      OBVIOUS
    <2>6. Row(l, pid) = [life |-> l, pid |-> pid, zombie |-> z, inside |-> proc[l].inside, ppid |-> pp]
      BY <2>4, <2>5
    <2> QED  BY <2>1, <2>2, <2>4, <2>5, <2>6 DEF Reading
  <1>4. PICK rows \in SUBSET Reading : rows = {Row(l, pid) : l \in AtPid(pid)}
    BY <1>3
  <1>5. snap' = [snap EXCEPT ![t] = [todo |-> snap[t].todo \ {pid}, table |-> snap[t].table \cup rows]]
    BY <1>2, <1>4
  <1>6. ASSUME NEW l \in Lives, IsRunning(l), proc[l].pid = pid
        PROVE  \E r \in rows : r.life = l /\ r.pid = pid /\ ~r.zombie /\ r.inside = proc[l].inside
    <2>1. l \in AtPid(pid)
      BY <1>6 DEF AtPid, Exists, IsRunning
    <2>2. Row(l, pid) \in rows
      BY <1>4, <2>1
    <2> QED  BY <2>2, <1>6
  <1>7. /\ snap'[t] = [todo |-> snap[t].todo \ {pid}, table |-> snap[t].table \cup rows]
        /\ snap' \in [Threads -> [todo : SUBSET Pids, table : SUBSET Reading]]
        /\ \A u \in Threads \ {t} : snap'[u] = snap[u]
    <2>1. snap[t] \in [todo : SUBSET Pids, table : SUBSET Reading]
      BY <1>1
    <2>2. [todo |-> snap[t].todo \ {pid}, table |-> snap[t].table \cup rows] \in [todo : SUBSET Pids, table : SUBSET Reading]
      BY <2>1, <1>4
    <2> QED  BY <1>1, <1>5, <2>2
  <1> QED  BY <1>6, <1>7

LEMMA ReadProcessKeeps ==
    ASSUME CaseInv, NEW t \in Threads, ReadProcess(t)
    PROVE  CaseInv'
  <1>1. UNCHANGED <<proc, guard, monitor, pc, cand, run, close, pending, hist>>
    BY DEF ReadProcess
  <1>2. CaseTypeOK'
    <2>1. snap' \in [Threads -> [todo : SUBSET Pids, table : SUBSET Reading]]
      BY ReadProcessTable
    <2> QED  BY ZenonT(30), <1>1, <2>1 DEF CaseInv, CaseTypeOK, guard, hist
  <1>3. Listings'
    <2>1. Main \in Threads
      BY DEF Threads
    <2>2. ASSUME NEW late, Covered(late) PROVE Covered(late)'
      <3> SUFFICES ASSUME NEW l \in Own, IsRunning(l), l \notin late, proc[l].pid \notin snap'[Main].todo
                   PROVE  \E r \in snap'[Main].table : r.life = l /\ r.pid = proc[l].pid /\ ~r.zombie /\ r.inside = proc[l].inside
        BY <1>1 DEF Covered, HasRow, IsRunning
      <3>1. proc[l].pid \in snap[Main].todo \/ HasRow(l)
        BY <2>2 DEF Covered
      <3>2. CASE t = Main
        BY <3>1, <3>2, ReadProcessTable DEF HasRow, Own
      <3>3. CASE t # Main
        <4>1. snap'[Main] = snap[Main]
          BY <3>3, <2>1, ReadProcessTable
        <4> QED  BY <4>1, <3>1 DEF HasRow
      <3> QED  BY <3>2, <3>3
    <2>3. Covered(young) => Covered(young)'
      <3>1. PICK late : late = young
        OBVIOUS
      <3> QED  BY <1>1, <2>2, <3>1 DEF Covered, hist
    <2>4. Covered(unnoted) => Covered(unnoted)'
      <3>1. PICK late : late = unnoted
        OBVIOUS
      <3> QED  BY <1>1, <2>2, <3>1 DEF Covered, hist
    <2> QED  BY <1>1, <2>3, <2>4 DEF CaseInv, Listings
  <1>4. Families' /\ Numbers' /\ Candidates' /\ GroupOver'
    BY <1>1, ProcStays DEF CaseInv, Candidates, GroupOver, Unborn, IsRunning
  <1>5. Noted' /\ Cleared' /\ PendingOwned' /\ KilledIsReported' /\ SignalsOnlyClaimed'
    BY <1>1, NotedStays DEF CaseInv, Cleared, PendingOwned, KilledIsReported, SignalsOnlyClaimed, IsRunning, guard, hist
  <1> QED  BY <1>2, <1>3, <1>4, <1>5 DEF CaseInv

(* A listing begins with every pid that is in use.                         *)
LEMMA BeginLists ==
    ASSUME CaseInv, Begin(Main)
    PROVE  /\ snap' \in [Threads -> [todo : SUBSET Pids, table : SUBSET Reading]]
           /\ \A l \in Own : IsRunning(l) => proc[l].pid \in snap'[Main].todo
  <1>1. Listed \subseteq Pids /\ \A l \in Lives : IsRunning(l) => proc[l].pid \in Listed
    BY DEF CaseInv, Families, Listed, Exists, IsRunning, Unborn
  <1>2. snap \in [Threads -> [todo : SUBSET Pids, table : SUBSET Reading]] /\ Main \in Threads
    BY DEF CaseInv, CaseTypeOK, Threads
  <1>3. [todo |-> Listed, table |-> {}] \in [todo : SUBSET Pids, table : SUBSET Reading]
    BY <1>1
  <1> HIDE DEF Listed
  <1>4. snap'[Main] = [todo |-> Listed, table |-> {}] /\ snap' \in [Threads -> [todo : SUBSET Pids, table : SUBSET Reading]]
    BY <1>2, <1>3 DEF Begin
  <1> QED  BY <1>1, <1>4 DEF Own

(* When it has been read, discover owns whoever ran inside the case tree.  *)
LEMMA DiscoverOwns ==
    ASSUME CaseInv, Ready(Main), NEW mine, mine = Claimed(snap[Main].table, owned)
    PROVE  /\ owned \subseteq mine /\ mine \subseteq Lives
           /\ \A late : Covered(late) =>
                 \A l \in Own : (IsRunning(l) /\ l \notin late /\ proc[l].inside) =>
                     \E r \in Found(snap[Main].table, mine) : r.life = l /\ r.pid = proc[l].pid
  <1>1. snap[Main].table \subseteq Reading /\ owned \subseteq Lives
    BY DEF CaseInv, CaseTypeOK, Threads
  <1>2. /\ owned \subseteq mine /\ mine \subseteq Lives
        /\ \A r \in snap[Main].table : (~r.zombie /\ r.inside) => r.life \in mine
    BY <1>1, ClaimedIs
  <1>3. ASSUME NEW late, Covered(late), NEW l \in Own, IsRunning(l), l \notin late, proc[l].inside
        PROVE  \E r \in Found(snap[Main].table, mine) : r.life = l /\ r.pid = proc[l].pid
    BY <1>2, <1>3 DEF Covered, HasRow, Ready, Found, Alive
  <1> QED  BY <1>2, <1>3

-----------------------------------------------------------------------------
(* The monitor: it only adds to owned. *)

LEMMA MonitorKeeps ==
    ASSUME CaseInv, CaseTypeOK', UNCHANGED <<proc, leaks, pc, cand, run, close, pending, hist>>,
           snap'[Main] = snap[Main], owned \subseteq owned'
    PROVE  CaseInv'
  <1>1. Listings'
    BY ListingsStay DEF CaseInv, hist, IsRunning
  <1>2. Families' /\ Numbers' /\ Candidates' /\ GroupOver'
    BY ProcStays DEF CaseInv, Candidates, GroupOver, Unborn, IsRunning
  <1>3. Noted' /\ Cleared'
    BY NotedStays DEF CaseInv, Cleared, IsRunning, hist
  <1>4. PendingOwned' /\ KilledIsReported' /\ SignalsOnlyClaimed'
    BY DEF CaseInv, PendingOwned, KilledIsReported, SignalsOnlyClaimed, hist
  <1> QED  BY <1>1, <1>2, <1>3, <1>4 DEF CaseInv

LEMMA MonitorSnapshot ==
    ASSUME CaseInv, UNCHANGED proc, Begin(Monitor) \/ End(Monitor)
    PROVE  snap' \in [Threads -> [todo : SUBSET Pids, table : SUBSET Reading]] /\ snap'[Main] = snap[Main]
  <1>1. Listed \subseteq Pids
    BY DEF CaseInv, Families, Listed, Exists, Unborn
  <1>2. snap \in [Threads -> [todo : SUBSET Pids, table : SUBSET Reading]] /\ {Main, Monitor} \subseteq Threads /\ Main # Monitor
    BY DEF CaseInv, CaseTypeOK, Threads, Main, Monitor
  <1>3. /\ [todo |-> Listed, table |-> {}] \in [todo : SUBSET Pids, table : SUBSET Reading]
        /\ NoSnapshot \in [todo : SUBSET Pids, table : SUBSET Reading]
    BY <1>1 DEF NoSnapshot
  <1> HIDE DEF Listed
  <1> QED  BY <1>2, <1>3 DEF Begin, End

LEMMA MonitorThreadKeeps ==
    ASSUME CaseInv, MonitorLists \/ MonitorDiscovers \/ MonitorFails
    PROVE  CaseInv'
  <1>1. /\ UNCHANGED <<proc, leaks, pc, cand, run, close, pending, hist>>
        /\ Begin(Monitor) \/ End(Monitor)
        /\ monitor' \in {"idle", "sampling", "failed"}
    BY DEF MonitorLists, MonitorDiscovers, MonitorFails, guard
  <1>2. snap' \in [Threads -> [todo : SUBSET Pids, table : SUBSET Reading]] /\ snap'[Main] = snap[Main]
    BY <1>1, MonitorSnapshot
  <1>3. owned \subseteq owned' /\ owned' \subseteq Lives
    <2>1. snap[Monitor].table \subseteq Reading /\ owned \subseteq Lives
      BY DEF CaseInv, CaseTypeOK, Threads
    <2>2. owned' = owned \/ owned' = Claimed(snap[Monitor].table, owned)
      BY DEF MonitorLists, MonitorDiscovers, MonitorFails, guard
    <2> QED  BY <2>1, <2>2, ClaimedIs
  <1>4. CaseTypeOK'
    BY <1>1, <1>2, <1>3 DEF CaseInv, CaseTypeOK, hist
  <1> QED  BY <1>1, <1>2, <1>3, <1>4, MonitorKeeps

-----------------------------------------------------------------------------
(* An invocation. *)

LEMMA StartCandidateKeeps ==
    ASSUME CaseInv, NEW q \in Lives, StartCandidate(q)
    PROVE  CaseInv'
  <1>0. proc \in [Lives -> Process] /\ run.count \in 0 .. MaxInvocations /\ MaxInvocations \in Nat
    BY CaseProcessesAssumption DEF CaseInv, CaseTypeOK
  <1>1. Born(q) /\ q \in Own
    <2>1. PICK pid \in Pids :
              /\ FreePid(pid)
              /\ proc' = [proc EXCEPT ![q] = [st |-> "running", pid |-> pid, parent |-> Harness, group |-> q,
                                              inside |-> TRUE, pipe |-> TRUE]]
      BY DEF StartCandidate
    <2>2. proc'[q] = [st |-> "running", pid |-> pid, parent |-> Harness, group |-> q, inside |-> TRUE, pipe |-> TRUE]
      BY <1>0, <2>1
    <2>3. proc'[q] \in Process
      BY <2>2 DEF Process
    <2>4. proc' \in [Lives -> Process] /\ \A l \in Lives \ {q} : proc'[l] = proc[l]
      BY <1>0, <2>1, <2>2, <2>3
    <2> QED  BY <2>1, <2>2, <2>4 DEF StartCandidate, Born, Own
  <1>2. /\ UNCHANGED <<snap, leaks, close, pending, struck, silent>>
        /\ pc = "case" /\ pc' = "waiting" /\ cand' = q
        /\ owned' = owned \cup {q}
        /\ monitor' \in {monitor, "idle"}
        /\ young' = young \cup {q} /\ unnoted' = unnoted \cup {q}
        /\ run' = [count |-> run.count + 1, timedOut |-> FALSE, noted |-> FALSE, error |-> FALSE, result |-> "none"]
        /\ run.count < MaxInvocations
    BY DEF StartCandidate
  <1>3. CaseTypeOK'
    <2>1. run.count + 1 \in 0 .. MaxInvocations
      BY <1>0, <1>2
    <2>2. run' \in [count : 0..MaxInvocations, timedOut : BOOLEAN, noted : BOOLEAN, error : BOOLEAN,
                    result : {"none", "completed", "timed out", "failed"}]
      BY <1>2, <2>1
    <2> QED  BY <1>1, <1>2, <2>2 DEF CaseInv, CaseTypeOK, Born, Places, Invoking
  <1>4. Families' /\ Numbers'
    BY <1>1, FamiliesGrow, NumbersGrow DEF CaseInv
  <1>5. Candidates' /\ GroupOver' /\ Listings' /\ Noted' /\ Cleared'
    BY <1>1, <1>2 DEF Candidates, GroupOver, Listings, Noted, Cleared, Born, Unborn, Invoking
  <1>6. PendingOwned' /\ KilledIsReported' /\ SignalsOnlyClaimed'
    BY <1>2 DEF CaseInv, PendingOwned, KilledIsReported, SignalsOnlyClaimed
  <1> QED  BY <1>3, <1>4, <1>5, <1>6 DEF CaseInv

(* The candidate was waited for.                                           *)
LEMMA ReapedAges ==
    ASSUME CaseInv, cand \in Lives, ~Unborn(cand), proc' = [proc EXCEPT ![cand].st = "gone"]
    PROVE  Aged
  <1>1. proc \in [Lives -> Process]
    BY DEF CaseInv, CaseTypeOK
  <1> QED  BY <1>1 DEF Aged, IsRunning, Exists, Unborn, Process

LEMMA WaitReturnsKeeps ==
    ASSUME CaseInv, WaitReturns
    PROVE  CaseInv'
  <1>1. /\ UNCHANGED <<snap, guard, monitor, cand, run, close, pending, hist>>
        /\ pc = "waiting" /\ pc' = "polling"
    BY DEF WaitReturns
  <1>2. cand \in Own /\ ~Unborn(cand) /\ cand \in Lives
    BY <1>1 DEF CaseInv, Candidates, Invoking, Own
  <1>3. Aged
    BY <1>2, ReapedAges DEF WaitReturns
  <1>4. CaseTypeOK'
    BY ZenonT(30), <1>1, <1>3 DEF CaseInv, CaseTypeOK, Aged, guard, hist, Places, Invoking
  <1>5. Families' /\ Numbers' /\ Candidates'
    BY <1>1, <1>2, <1>3, FamiliesAge DEF CaseInv, Candidates, Invoking
  <1>6. GroupOver' /\ Listings' /\ Noted' /\ Cleared'
    BY <1>1 DEF GroupOver, Listings, Noted, Cleared
  <1>7. PendingOwned' /\ KilledIsReported' /\ SignalsOnlyClaimed'
    BY <1>1 DEF CaseInv, PendingOwned, KilledIsReported, SignalsOnlyClaimed, guard, hist
  <1> QED  BY <1>4, <1>5, <1>6, <1>7 DEF CaseInv

LEMMA WaitTimesOutKeeps ==
    ASSUME CaseInv, WaitTimesOut
    PROVE  CaseInv'
  <1>1. /\ UNCHANGED <<proc, snap, guard, monitor, cand, close, pending, hist>>
        /\ pc = "waiting" /\ pc' = "polling" /\ run' = [run EXCEPT !.timedOut = TRUE]
    BY DEF WaitTimesOut
  <1>2. CaseTypeOK'
    BY <1>1 DEF CaseInv, CaseTypeOK, guard, hist, Places, Invoking
  <1>3. Families' /\ Numbers' /\ Candidates'
    <2>1. run'.noted = run.noted
      BY <1>1 DEF CaseInv, CaseTypeOK
    <2> QED  BY <1>1, <2>1, ProcStays DEF CaseInv, Candidates, Invoking, Unborn
  <1>4. GroupOver' /\ Listings' /\ Noted' /\ Cleared'
    BY <1>1 DEF GroupOver, Listings, Noted, Cleared
  <1>5. PendingOwned' /\ KilledIsReported' /\ SignalsOnlyClaimed'
    BY <1>1 DEF CaseInv, PendingOwned, KilledIsReported, SignalsOnlyClaimed, guard, hist
  <1> QED  BY <1>2, <1>3, <1>4, <1>5 DEF CaseInv

LEMMA PollKeeps ==
    ASSUME CaseInv, Poll
    PROVE  CaseInv'
  <1>1. pc = "polling" /\ UNCHANGED <<guard, monitor, cand, close, pending, struck, silent>>
    BY DEF Poll
  <1>2. cand \in Own /\ ~Unborn(cand) /\ cand \in Lives /\ ~run.noted
    BY <1>1 DEF CaseInv, Candidates, Invoking, Own
  <1>3. PendingOwned' /\ KilledIsReported' /\ SignalsOnlyClaimed'
    BY <1>1 DEF CaseInv, PendingOwned, KilledIsReported, SignalsOnlyClaimed, guard
  <1>4. CASE IsRunning(cand)
    <2>1. pc' = "terminate" /\ UNCHANGED <<proc, snap, run, young, unnoted>>
      BY <1>4 DEF Poll
    <2>2. CaseTypeOK'
      BY ZenonT(30), <1>1, <2>1 DEF CaseInv, CaseTypeOK, guard, Places, Invoking
    <2>3. Families' /\ Numbers' /\ Candidates'
      BY <1>1, <1>2, <2>1, ProcStays DEF CaseInv, Candidates, Invoking, Unborn
    <2>4. GroupOver' /\ Listings' /\ Noted' /\ Cleared'
      BY <1>1, <1>2, <2>1 DEF GroupOver, Listings, Noted, Cleared
    <2> QED  BY <1>3, <2>2, <2>3, <2>4 DEF CaseInv
  <1>5. CASE ~IsRunning(cand)
    <2>1. /\ proc' = [proc EXCEPT ![cand].st = "gone"]
          /\ run' = [run EXCEPT !.noted = TRUE]
          /\ Begin(Main)
          /\ young' = {} /\ unnoted' = {}
          /\ pc' = "groupleaks"
      BY <1>5 DEF Poll
    <2>2. Aged
      BY <1>2, <2>1, ReapedAges
    <2>3. /\ snap' \in [Threads -> [todo : SUBSET Pids, table : SUBSET Reading]]
          /\ \A l \in Own : IsRunning(l) => proc[l].pid \in snap'[Main].todo
      BY <2>1, BeginLists
    <2>4. CaseTypeOK'
      BY <1>1, <2>1, <2>2, <2>3 DEF CaseInv, CaseTypeOK, Aged, guard, Places, Invoking
    <2>5. Families' /\ Numbers' /\ Candidates'
      BY <1>1, <1>2, <2>1, <2>2, FamiliesAge DEF CaseInv, Candidates, Invoking
    <2>6. Listings'
      BY <2>1, <2>2, <2>3 DEF Listings, Covered, Aged, IsRunning, Own
    <2>7. GroupOver' /\ Noted' /\ Cleared'
      BY <2>1 DEF GroupOver, Noted, Cleared
    <2> QED  BY <1>3, <2>4, <2>5, <2>6, <2>7 DEF CaseInv
  <1> QED  BY <1>4, <1>5

LEMMA NoSnapshotOf ==
    ASSUME CaseInv, End(Main)
    PROVE  snap' \in [Threads -> [todo : SUBSET Pids, table : SUBSET Reading]]
  BY DEF CaseInv, CaseTypeOK, End, NoSnapshot

LEMMA NoteGroupLeaksKeeps ==
    ASSUME CaseInv, NoteGroupLeaks
    PROVE  CaseInv'
  <1>1. /\ UNCHANGED <<proc, monitor, cand, run, close, pending, hist>>
        /\ pc = "groupleaks" /\ Ready(Main) /\ End(Main) /\ pc' = "terminate"
        /\ owned' = Claimed(snap[Main].table, owned)
        /\ leaks' = leaks \cup {r.life : r \in {x \in Found(snap[Main].table, owned') :
                                                  \E l \in AtPid(x.pid) : Pgid(l) = Number}}
    BY DEF NoteGroupLeaks
  <1>2. PICK mine : mine = owned'
    OBVIOUS
  <1>3. /\ owned \subseteq mine /\ mine \subseteq Lives
        /\ \A late : Covered(late) =>
              \A l \in Own : (IsRunning(l) /\ l \notin late /\ proc[l].inside) =>
                  \E r \in Found(snap[Main].table, mine) : r.life = l /\ r.pid = proc[l].pid
    BY <1>1, <1>2, DiscoverOwns
  <1>4. CaseTypeOK'
    <2>1. leaks' \subseteq leaks \cup mine
      BY <1>1, <1>2 DEF Found
    <2>2. snap' \in [Threads -> [todo : SUBSET Pids, table : SUBSET Reading]]
      BY <1>1, NoSnapshotOf
    <2> QED  BY ZenonT(30), <1>1, <1>2, <1>3, <2>1, <2>2 DEF CaseInv, CaseTypeOK, hist, Places, Invoking
  <1>5. Families' /\ Numbers' /\ Candidates'
    BY <1>1, ProcStays DEF CaseInv, Candidates, Invoking, Unborn
  <1>6. GroupOver' /\ Listings' /\ Cleared'
    BY <1>1 DEF GroupOver, Listings, Cleared
  <1>7. Noted'
    <2> SUFFICES ASSUME ~Escapes, NEW l \in Own, IsRunning(l), Pgid(l) = Number, l \notin unnoted
                 PROVE  l \in leaks'
      BY <1>1 DEF Noted, Pgid, Number, IsRunning, hist
    <2>1. proc[l].inside
      BY DEF CaseInv, Families, Own, IsRunning, Unborn
    <2>2. PICK r \in Found(snap[Main].table, mine) : r.life = l /\ r.pid = proc[l].pid
      BY <1>1, <1>3, <2>1 DEF CaseInv, Listings
    <2>3. l \in AtPid(r.pid)
      BY <2>1, <2>2 DEF AtPid, Exists, IsRunning, Own
    <2> QED  BY <1>1, <1>2, <2>1, <2>2, <2>3
  <1>8. PendingOwned' /\ KilledIsReported' /\ SignalsOnlyClaimed'
    BY <1>1, <1>2, <1>3 DEF CaseInv, PendingOwned, KilledIsReported, SignalsOnlyClaimed, hist
  <1> QED  BY <1>4, <1>5, <1>6, <1>7, <1>8 DEF CaseInv

(* What a signal to the group of the number adds to the history.           *)
LEMMA StrikesKeep ==
    ASSUME CaseInv, pc \in Invoking, UNCHANGED <<guard, close, unnoted>>,
           NEW outlived \in BOOLEAN, Strikes(Group(Number), HasGroup, outlived),
           outlived => pc \in {"terminate", "killing"} /\ run.noted
    PROVE  /\ struck' \subseteq Lives /\ silent' \subseteq Lives
           /\ KilledIsReported' /\ SignalsOnlyClaimed'
  <1>1. Group(Number) \subseteq Lives /\ (HasGroup => Group(Number) \cap Foreign = {})
    BY GroupIsOwn DEF Group
  <1>2. struck' = struck \cup Group(Number) \/ struck' = struck
    BY DEF Strikes
  <1>3. struck' # struck => HasGroup
    BY DEF Strikes
  <1>4. /\ silent' = silent \/ silent' = silent \cup (Group(Number) \ (leaks \cup unnoted \cup Foreign))
        /\ silent' # silent => outlived
    BY DEF Strikes
  <1>5. struck' \subseteq Lives /\ silent' \subseteq Lives
    BY <1>1, <1>2, <1>4 DEF CaseInv, CaseTypeOK
  <1>6. SignalsOnlyClaimed'
    BY <1>1, <1>2, <1>3 DEF CaseInv, SignalsOnlyClaimed, guard
  <1>7. KilledIsReported'
    <2>1. CASE silent' = silent
      BY <2>1 DEF CaseInv, KilledIsReported
    <2>2. CASE silent' # silent /\ ~Escapes
      <3>1. \A l \in Group(Number) : l \in Foreign \/ l \in leaks \cup unnoted
        BY <1>1, <1>4, <2>2 DEF CaseInv, Noted, Group, Own
      <3>2. silent' = silent
        BY <1>4, <3>1
      <3> QED  BY <2>2, <3>2
    <2>3. CASE Escapes
      BY <2>3 DEF KilledIsReported
    <2> QED  BY <2>1, <2>2, <2>3
  <1> QED  BY <1>5, <1>6, <1>7

LEMMA TermGroupKeeps ==
    ASSUME CaseInv, TermGroup
    PROVE  CaseInv'
  <1>1. /\ UNCHANGED <<proc, snap, guard, monitor, cand, run, close, pending, young, unnoted>>
        /\ pc = "terminate" /\ pc' = "terminating"
        /\ Strikes(Group(Number), HasGroup, run.noted)
    BY DEF TermGroup
  <1>2. pc \in Invoking /\ run.noted \in BOOLEAN
    BY <1>1 DEF Invoking, CaseInv, CaseTypeOK
  <1>3. struck' \subseteq Lives /\ silent' \subseteq Lives /\ KilledIsReported' /\ SignalsOnlyClaimed'
    BY <1>1, <1>2, StrikesKeep
  <1>4. Aged
    BY <1>1 DEF CaseInv, CaseTypeOK, Aged, IsRunning, Exists, Unborn
  <1>5. CaseTypeOK'
    BY ZenonT(30), <1>1, <1>3 DEF CaseInv, CaseTypeOK, guard, Places, Invoking
  <1>6. Families' /\ Numbers' /\ Candidates'
    BY <1>1, <1>2, ProcStays DEF CaseInv, Candidates, Unborn
  <1>7. GroupOver' /\ Listings' /\ Cleared' /\ PendingOwned'
    BY <1>1 DEF CaseInv, GroupOver, Listings, Cleared, PendingOwned, guard
  <1>8. Noted'
    BY <1>1, <1>4, NotedAges DEF guard
  <1> QED  BY <1>3, <1>5, <1>6, <1>7, <1>8 DEF CaseInv

LEMMA WaitAgainKeeps ==
    ASSUME CaseInv, WaitAgain
    PROVE  CaseInv'
  <1>1. /\ UNCHANGED <<snap, guard, monitor, cand, run, close, pending, hist>>
        /\ pc = "terminating" /\ pc' = "killing"
    BY DEF WaitAgain
  <1>2. cand \in Own /\ ~Unborn(cand) /\ cand \in Lives
    BY <1>1 DEF CaseInv, Candidates, Invoking, Own
  <1>3. Aged
    <2>1. CASE proc' = proc
      BY <2>1 DEF CaseInv, CaseTypeOK, Aged, IsRunning, Exists, Unborn
    <2>2. CASE proc' = [proc EXCEPT ![cand].st = "gone"]
      BY <1>2, <2>2, ReapedAges
    <2> QED  BY <2>1, <2>2 DEF WaitAgain
  <1>4. CaseTypeOK'
    BY ZenonT(30), <1>1, <1>3 DEF CaseInv, CaseTypeOK, Aged, guard, hist, Places, Invoking
  <1>5. Families' /\ Numbers' /\ Candidates'
    BY <1>1, <1>2, <1>3, FamiliesAge DEF CaseInv, Candidates, Invoking
  <1>6. GroupOver' /\ Listings' /\ Cleared'
    BY <1>1 DEF GroupOver, Listings, Cleared
  <1>7. Noted'
    BY <1>1, <1>3, NotedAges DEF guard, hist
  <1>8. PendingOwned' /\ KilledIsReported' /\ SignalsOnlyClaimed'
    BY <1>1 DEF CaseInv, PendingOwned, KilledIsReported, SignalsOnlyClaimed, guard, hist
  <1> QED  BY <1>4, <1>5, <1>6, <1>7, <1>8 DEF CaseInv

(* The group of the number is ended, and with it the group that the        *)
(* candidate founded.                                                      *)
LEMMA GroupEnds ==
    ASSUME CaseInv, pc \in Invoking, NEW dead, dead = Ended(proc, Group(Number))
    PROVE  /\ dead \in [Lives -> Process]
           /\ \A l \in Lives :
                 /\ (dead[l].st = "running") => IsRunning(l) /\ proc[l].group # cand
                 /\ (dead[l].st = "zombie") => Exists(l)
                 /\ (dead[l].st = "unborn") <=> Unborn(l)
                 /\ dead[l].pid = proc[l].pid /\ dead[l].group = proc[l].group /\ dead[l].inside = proc[l].inside
  <1>1. PICK dying \in SUBSET Lives : dying = Group(Number)
    BY DEF Group
  <1>2. proc \in [Lives -> Process]
    BY DEF CaseInv, CaseTypeOK
  <1>3. dead = Ended(proc, dying)
    BY <1>1
  <1>4. /\ dead \in [Lives -> Process]
        /\ \A l \in Lives :
              /\ dead[l].st = "running" <=> (proc[l].st = "running" /\ l \notin dying)
              /\ dead[l].st = "zombie" => (proc[l].st = "zombie" \/ l \in dying)
              /\ dead[l].st = "unborn" <=> (proc[l].st = "unborn" /\ l \notin dying)
              /\ dead[l].pid = proc[l].pid /\ dead[l].group = proc[l].group /\ dead[l].inside = proc[l].inside
    BY <1>2, <1>3, EndedAges
  <1>5. \A l \in Lives : l \in dying <=> (IsRunning(l) /\ Pgid(l) = Number)
    BY <1>1 DEF Group
  <1>6. \A l \in Lives : proc[l].group = cand => Pgid(l) = Number
    BY DEF Pgid, Number
  <1> QED  BY <1>4, <1>5, <1>6 DEF IsRunning, Exists, Unborn

LEMMA KillGroupKeeps ==
    ASSUME CaseInv, KillGroup
    PROVE  CaseInv'
  <1>1. /\ UNCHANGED <<snap, guard, monitor, cand, run, close, pending, young, unnoted>>
        /\ pc = "killing" /\ pc' = "joining"
        /\ Strikes(Group(Number), HasGroup, run.noted)
    BY DEF KillGroup
  <1>2. /\ cand \in Own /\ ~Unborn(cand) /\ cand \in Lives
        /\ pc \in Invoking /\ run.noted \in BOOLEAN
    BY <1>1 DEF CaseInv, CaseTypeOK, Candidates, Invoking, Own
  <1>3. Aged /\ \A l \in Lives : IsRunning(l)' => proc'[l].group # cand
    <2>1. PICK dead : dead = Ended(proc, Group(Number))
      OBVIOUS
    <2>2. proc' = [dead EXCEPT ![cand].st = "gone"]
      BY <2>1 DEF KillGroup
    <2>3. /\ dead \in [Lives -> Process]
          /\ \A l \in Lives :
                /\ (dead[l].st = "running") => IsRunning(l) /\ proc[l].group # cand
                /\ (dead[l].st = "zombie") => Exists(l)
                /\ (dead[l].st = "unborn") <=> Unborn(l)
                /\ dead[l].pid = proc[l].pid /\ dead[l].group = proc[l].group /\ dead[l].inside = proc[l].inside
      BY <1>2, <2>1, GroupEnds
    <2>4. proc' \in [Lives -> Process]
      BY <1>2, <2>2, <2>3 DEF Process
    <2>5. ASSUME NEW l \in Lives
          PROVE  /\ (proc'[l].st = "running") => (IsRunning(l) /\ proc[l].group # cand)
                 /\ (proc'[l].st = "zombie") => Exists(l)
                 /\ (proc'[l].st = "unborn") <=> Unborn(l)
                 /\ proc'[l].pid = proc[l].pid /\ proc'[l].group = proc[l].group /\ proc'[l].inside = proc[l].inside
      <3>1. CASE l = cand
        BY <1>2, <2>2, <2>3, <3>1 DEF Process, IsRunning, Unborn
      <3>2. CASE l # cand
        <4>1. proc'[l] = dead[l]
          BY <1>2, <2>2, <2>3, <3>2
        <4> QED  BY <2>3, <4>1
      <3> QED  BY <3>1, <3>2
    <2> QED  BY <2>4, <2>5 DEF Aged, IsRunning
  <1>4. struck' \subseteq Lives /\ silent' \subseteq Lives /\ KilledIsReported' /\ SignalsOnlyClaimed'
    BY <1>1, <1>2, StrikesKeep
  <1>5. CaseTypeOK'
    BY ZenonT(30), <1>1, <1>3, <1>4 DEF CaseInv, CaseTypeOK, Aged, guard, Places, Invoking
  <1>6. Families' /\ Numbers' /\ Candidates'
    BY <1>1, <1>2, <1>3, FamiliesAge DEF CaseInv, Candidates, Invoking
  <1>7. GroupOver'
    <2>1. ~Unborn(cand)'
      BY <1>1, <1>2, <1>3 DEF Aged, Unborn
    <2> QED  BY <1>1, <1>2, <1>3, <2>1 DEF GroupOver
  <1>8. Listings' /\ Noted' /\ Cleared' /\ PendingOwned'
    BY <1>1 DEF CaseInv, Listings, Noted, Cleared, PendingOwned, guard
  <1> QED  BY <1>4, <1>5, <1>6, <1>7, <1>8 DEF CaseInv

(* The reader and the controller beside the main thread.                   *)
LEMMA HelperThreadsKeep ==
    ASSUME CaseInv, HelperThreads
    PROVE  CaseInv'
  <1>1. /\ UNCHANGED <<snap, guard, monitor, pc, cand, close, pending, young, unnoted>>
        /\ pc \in Invoking /\ run' = [run EXCEPT !.error = TRUE]
        /\ Strikes(Group(Number), HasGroup, FALSE)
    BY DEF HelperThreads, Overflows, ControllerRaises
  <1>2. cand \in Own /\ ~Unborn(cand) /\ cand \in Lives
    BY <1>1 DEF CaseInv, Candidates, Own
  <1>3. Aged
    <2>1. CASE UNCHANGED proc
      BY <2>1 DEF CaseInv, CaseTypeOK, Aged, IsRunning, Exists, Unborn
    <2>2. CASE proc' = Ended(proc, Group(Number))
      BY <1>1, <2>2, GroupEnds DEF Aged
    <2> QED  BY <2>1, <2>2 DEF HelperThreads, Overflows, ControllerRaises
  <1>4. struck' \subseteq Lives /\ silent' \subseteq Lives /\ KilledIsReported' /\ SignalsOnlyClaimed'
    BY <1>1, StrikesKeep
  <1>5. /\ run' \in [count : 0..MaxInvocations, timedOut : BOOLEAN, noted : BOOLEAN, error : BOOLEAN,
                     result : {"none", "completed", "timed out", "failed"}]
        /\ run'.noted = run.noted
    BY <1>1 DEF CaseInv, CaseTypeOK
  <1>6. CaseTypeOK'
    BY ZenonT(30), <1>1, <1>3, <1>4, <1>5 DEF CaseInv, CaseTypeOK, Aged, guard
  <1>7. Families' /\ Numbers' /\ Candidates'
    BY <1>1, <1>2, <1>3, <1>5, FamiliesAge DEF CaseInv, Candidates
  <1>8. GroupOver'
    BY <1>1, <1>2, <1>3 DEF CaseInv, GroupOver, Aged, IsRunning, Unborn, Invoking
  <1>9. Listings'
    BY <1>1, <1>3, ListingsStay DEF CaseInv, Aged, IsRunning, Own
  <1>10. Noted'
    BY <1>1, <1>3, <1>5, NotedAges DEF guard
  <1>11. Cleared' /\ PendingOwned'
    BY <1>1 DEF CaseInv, Cleared, PendingOwned, guard, Invoking
  <1> QED  BY <1>4, <1>6, <1>7, <1>8, <1>9, <1>10, <1>11 DEF CaseInv

LEMMA InvocationReturnsKeeps ==
    ASSUME CaseInv, InvocationReturns
    PROVE  CaseInv'
  <1>1. /\ UNCHANGED <<snap, guard, monitor, cand, close, pending, hist>>
        /\ pc = "joining" /\ pc' = "case"
        /\ proc' = [l \in Lives |-> [proc[l] EXCEPT !.pipe = FALSE]]
    BY DEF InvocationReturns
  <1>2. PICK result \in {"completed", "timed out", "failed"} :
            run' = [run EXCEPT !.error = FALSE, !.result = result]
    BY DEF InvocationReturns
  <1>3. proc \in [Lives -> Process]
    BY DEF CaseInv, CaseTypeOK
  <1>4. Aged
    BY <1>1, <1>3 DEF Aged, IsRunning, Exists, Unborn, Process
  <1>5. CaseTypeOK'
    BY <1>1, <1>2, <1>4 DEF CaseInv, CaseTypeOK, Aged, guard, hist, Places
  <1>6. Families' /\ Numbers' /\ Candidates'
    BY <1>1, <1>4, FamiliesAge DEF CaseInv, Candidates, Invoking
  <1>7. GroupOver'
    BY <1>1, <1>4, FamiliesAge DEF CaseInv, GroupOver, Aged, IsRunning, Unborn
  <1>8. Listings' /\ Noted' /\ Cleared'
    BY <1>1 DEF Listings, Noted, Cleared
  <1>9. PendingOwned' /\ KilledIsReported' /\ SignalsOnlyClaimed'
    BY <1>1 DEF CaseInv, PendingOwned, KilledIsReported, SignalsOnlyClaimed, guard, hist
  <1> QED  BY <1>5, <1>6, <1>7, <1>8, <1>9 DEF CaseInv

-----------------------------------------------------------------------------
(* The end of the case. *)

(* The steps that look at no process.                                      *)
LEMMA GoesOn ==
    ASSUME CaseInv, CaseTypeOK', UNCHANGED <<proc, guard, cand, run, pending, struck, silent>>,
           close.error => close'.error, pc' \notin Invoking \cup {"case"}, Listings', Noted', Cleared'
    PROVE  CaseInv'
  <1>1. Families' /\ Numbers' /\ Candidates' /\ GroupOver'
    BY ProcStays DEF CaseInv, Candidates, GroupOver, Invoking, Unborn
  <1>2. PendingOwned' /\ KilledIsReported' /\ SignalsOnlyClaimed'
    BY DEF CaseInv, PendingOwned, KilledIsReported, SignalsOnlyClaimed, guard
  <1> QED  BY <1>1, <1>2 DEF CaseInv

LEMMA StopMonitorKeeps ==
    ASSUME CaseInv, StopMonitor
    PROVE  CaseInv'
  <1>1. CaseTypeOK'
    BY ZenonT(30) DEF CaseInv, CaseTypeOK, StopMonitor, guard, hist, Places
  <1>2. Listings' /\ Noted' /\ Cleared'
    BY DEF StopMonitor, Listings, Noted, Cleared
  <1> QED  BY <1>1, <1>2, GoesOn DEF StopMonitor, hist, Invoking

LEMMA MonitorJoinedKeeps ==
    ASSUME CaseInv, MonitorJoined
    PROVE  CaseInv'
  <1>1. /\ UNCHANGED <<proc, guard, cand, run, close, pending, struck, silent>>
        /\ Begin(Main) /\ young' = {} /\ unnoted' = {} /\ pc' = "noting"
        /\ monitor' \in {"failed", "ended"}
    BY DEF MonitorJoined
  <1>2. /\ snap' \in [Threads -> [todo : SUBSET Pids, table : SUBSET Reading]]
        /\ \A l \in Own : IsRunning(l) => proc[l].pid \in snap'[Main].todo
    BY <1>1, BeginLists
  <1>3. CaseTypeOK'
    BY <1>1, <1>2 DEF CaseInv, CaseTypeOK, guard, Places
  <1>4. Listings' /\ Noted' /\ Cleared'
    BY <1>1, <1>2 DEF Listings, Covered, Noted, Cleared, IsRunning
  <1> QED  BY <1>1, <1>3, <1>4, GoesOn DEF Invoking

LEMMA MonitorStuckKeeps ==
    ASSUME CaseInv, MonitorStuck
    PROVE  CaseInv'
  <1>1. /\ UNCHANGED <<proc, snap, guard, monitor, cand, run, pending, hist>>
        /\ close' = [error |-> TRUE, verdict |-> "failed"] /\ pc' = "closed"
    BY DEF MonitorStuck
  <1>2. CaseTypeOK' /\ close'.error
    BY <1>1 DEF CaseInv, CaseTypeOK, guard, hist, Places
  <1>3. Listings' /\ Noted' /\ Cleared'
    BY <1>1, <1>2 DEF Listings, Noted, Cleared
  <1> QED  BY <1>1, <1>2, <1>3, GoesOn DEF hist, Invoking

LEMMA NoteLeaksKeeps ==
    ASSUME CaseInv, NoteLeaks
    PROVE  CaseInv'
  <1>1. /\ UNCHANGED <<proc, monitor, cand, run, close, pending, unnoted, struck, silent>>
        /\ pc = "noting" /\ Ready(Main) /\ Begin(Main) /\ young' = {} /\ pc' = "finding"
        /\ owned' = Claimed(snap[Main].table, owned)
        /\ leaks' = leaks \cup {r.life : r \in Found(snap[Main].table, owned')}
    BY DEF NoteLeaks
  <1>2. PICK mine : mine = owned'
    OBVIOUS
  <1>3. /\ owned \subseteq mine /\ mine \subseteq Lives
        /\ \A late : Covered(late) =>
              \A l \in Own : (IsRunning(l) /\ l \notin late /\ proc[l].inside) =>
                  \E r \in Found(snap[Main].table, mine) : r.life = l /\ r.pid = proc[l].pid
    BY <1>1, <1>2, DiscoverOwns
  <1>4. /\ snap' \in [Threads -> [todo : SUBSET Pids, table : SUBSET Reading]]
        /\ \A l \in Own : IsRunning(l) => proc[l].pid \in snap'[Main].todo
    BY <1>1, BeginLists
  <1>5. CaseTypeOK'
    <2>1. leaks' \subseteq leaks \cup mine
      BY <1>1, <1>2 DEF Found
    <2> QED  BY ZenonT(30), <1>1, <1>2, <1>3, <1>4, <2>1 DEF CaseInv, CaseTypeOK, Places
  <1>6. Families' /\ Numbers' /\ Candidates' /\ GroupOver'
    BY <1>1, ProcStays DEF CaseInv, Candidates, GroupOver, Invoking, Unborn
  <1>7. Listings' /\ Cleared'
    BY <1>1, <1>4 DEF Listings, Covered, Cleared, IsRunning
  <1>8. Noted'
    <2> SUFFICES ASSUME ~Escapes, NEW l \in Own, IsRunning(l), l \notin unnoted
                 PROVE  l \in leaks'
      BY <1>1 DEF Noted, IsRunning
    <2>1. proc[l].inside
      BY DEF CaseInv, Families, Own, IsRunning, Unborn
    <2>2. PICK r \in Found(snap[Main].table, mine) : r.life = l
      BY <1>1, <1>3, <2>1 DEF CaseInv, Listings
    <2> QED  BY <1>1, <1>2, <2>2
  <1>9. PendingOwned' /\ KilledIsReported' /\ SignalsOnlyClaimed'
    BY <1>1, <1>2, <1>3 DEF CaseInv, PendingOwned, KilledIsReported, SignalsOnlyClaimed
  <1> QED  BY <1>5, <1>6, <1>7, <1>8, <1>9 DEF CaseInv

LEMMA NoteLeaksFailsKeeps ==
    ASSUME CaseInv, NoteLeaksFails
    PROVE  CaseInv'
  <1>1. /\ UNCHANGED <<proc, guard, monitor, cand, run, pending, unnoted, struck, silent>>
        /\ Begin(Main) /\ young' = {} /\ pc' = "finding" /\ close' = [close EXCEPT !.error = TRUE]
    BY DEF NoteLeaksFails
  <1>2. /\ snap' \in [Threads -> [todo : SUBSET Pids, table : SUBSET Reading]]
        /\ \A l \in Own : IsRunning(l) => proc[l].pid \in snap'[Main].todo
    BY <1>1, BeginLists
  <1>3. CaseTypeOK' /\ close'.error
    BY <1>1, <1>2 DEF CaseInv, CaseTypeOK, guard, Places
  <1>4. Listings' /\ Noted' /\ Cleared'
    BY <1>1, <1>2, <1>3 DEF Listings, Covered, Noted, Cleared, IsRunning
  <1> QED  BY <1>1, <1>3, <1>4, GoesOn DEF Invoking

LEMMA FindSurvivorsKeeps ==
    ASSUME CaseInv, FindSurvivors
    PROVE  CaseInv'
  <1>1. /\ UNCHANGED <<proc, leaks, monitor, cand, run, close, hist>>
        /\ pc = "finding" /\ Ready(Main) /\ End(Main)
        /\ owned' = Claimed(snap[Main].table, owned)
        /\ pending' = Found(snap[Main].table, owned')
        /\ pc' = IF pending' = {} THEN "judge" ELSE "signal"
    BY DEF FindSurvivors
  <1>2. PICK mine : mine = owned'
    OBVIOUS
  <1>3. /\ owned \subseteq mine /\ mine \subseteq Lives
        /\ \A late : Covered(late) =>
              \A l \in Own : (IsRunning(l) /\ l \notin late /\ proc[l].inside) =>
                  \E r \in Found(snap[Main].table, mine) : r.life = l /\ r.pid = proc[l].pid
    BY <1>1, <1>2, DiscoverOwns
  <1>4. pending' \subseteq Reading /\ \A r \in pending' : r.life \in mine
    BY <1>1, <1>2 DEF CaseInv, CaseTypeOK, Threads, Found, Alive
  <1>5. CaseTypeOK'
    <2>1. snap' \in [Threads -> [todo : SUBSET Pids, table : SUBSET Reading]]
      BY <1>1, NoSnapshotOf
    <2> QED  BY ZenonT(30), <1>1, <1>2, <1>3, <1>4, <2>1 DEF CaseInv, CaseTypeOK, hist, Places
  <1>6. Families' /\ Numbers' /\ Candidates' /\ GroupOver'
    BY <1>1, ProcStays DEF CaseInv, Candidates, GroupOver, Invoking, Unborn
  <1>7. Listings' /\ Noted'
    BY <1>1 DEF CaseInv, Listings, Noted, IsRunning, Invoking, hist
  <1>8. Cleared'
    <2> SUFFICES ASSUME pending' = {}, NEW l \in Own, IsRunning(l), proc[l].inside
                 PROVE  l \in young
      BY <1>1 DEF Cleared, IsRunning, hist
    <2> QED  BY <1>1, <1>2, <1>3 DEF CaseInv, Listings
  <1>9. PendingOwned' /\ KilledIsReported' /\ SignalsOnlyClaimed'
    BY <1>1, <1>2, <1>3, <1>4 DEF CaseInv, PendingOwned, KilledIsReported, SignalsOnlyClaimed, hist
  <1> QED  BY <1>5, <1>6, <1>7, <1>8, <1>9 DEF CaseInv

LEMMA VerifyKeeps ==
    ASSUME CaseInv, Verify
    PROVE  CaseInv'
  <1>1. /\ UNCHANGED <<proc, snap, guard, monitor, cand, run, close, hist>>
        /\ pc = "signal" /\ pc' = "verified" /\ pending' \subseteq pending
    BY DEF Verify
  <1>2. CaseTypeOK'
    BY ZenonT(30), <1>1 DEF CaseInv, CaseTypeOK, guard, hist, Places
  <1>3. Families' /\ Numbers' /\ Candidates' /\ GroupOver'
    BY <1>1, ProcStays DEF CaseInv, Candidates, GroupOver, Invoking, Unborn
  <1>4. Listings' /\ Noted' /\ Cleared'
    BY <1>1 DEF CaseInv, Listings, Noted, Cleared, IsRunning, guard, hist
  <1>5. PendingOwned' /\ KilledIsReported' /\ SignalsOnlyClaimed'
    BY <1>1 DEF CaseInv, PendingOwned, KilledIsReported, SignalsOnlyClaimed, guard, hist
  <1> QED  BY <1>2, <1>3, <1>4, <1>5 DEF CaseInv

LEMMA SignalSurvivorsKeeps ==
    ASSUME CaseInv, SignalSurvivors
    PROVE  CaseInv'
  <1>1. PICK hit : /\ hit = UNION {Reached(r) : r \in pending}
                   /\ proc' = Ended(proc, hit) /\ Strikes(hit, TRUE, TRUE)
    BY DEF SignalSurvivors
  <1>2. /\ UNCHANGED <<snap, guard, monitor, cand, run, close, pending, young, unnoted>>
        /\ pc = "verified" /\ pc' = "again"
    BY DEF SignalSurvivors
  <1>3. ASSUME NEW l \in hit
        PROVE  l \in Lives /\ IsRunning(l) /\ (PidFds => l \in owned)
    BY <1>1 DEF CaseInv, PendingOwned, Reached, Signalled, SignalledByPid, AtPid
  <1>4. proc \in [Lives -> Process] /\ hit \in SUBSET Lives
    BY <1>3 DEF CaseInv, CaseTypeOK
  <1>5. Aged
    BY <1>1, <1>3, <1>4, EndedAges DEF Aged, IsRunning, Exists, Unborn
  <1>6. /\ struck' = struck \cup hit
        /\ silent' = silent \cup (hit \ (leaks \cup unnoted \cup Foreign))
    BY <1>1 DEF Strikes
  <1>7. CaseTypeOK'
    BY ZenonT(30), <1>2, <1>4, <1>5, <1>6 DEF CaseInv, CaseTypeOK, Aged, guard, Places
  <1>8. Families' /\ Numbers' /\ Candidates' /\ GroupOver'
    BY <1>2, <1>5, FamiliesAge DEF CaseInv, Candidates, GroupOver, Invoking
  <1>9. Listings' /\ Cleared'
    BY <1>2 DEF Listings, Cleared
  <1>10. Noted'
    BY <1>2, <1>5 DEF CaseInv, Noted, Aged, IsRunning, Own, guard
  <1>11. KilledIsReported'
    BY <1>2, <1>3, <1>6 DEF CaseInv, Noted, KilledIsReported, Own
  <1>12. PendingOwned' /\ SignalsOnlyClaimed'
    BY <1>2, <1>3, <1>6 DEF CaseInv, PendingOwned, SignalsOnlyClaimed, guard
  <1> QED  BY <1>7, <1>8, <1>9, <1>10, <1>11, <1>12 DEF CaseInv

LEMMA FindAgainKeeps ==
    ASSUME CaseInv, FindAgain
    PROVE  CaseInv'
  <1>1. /\ UNCHANGED <<proc, guard, monitor, cand, run, close, pending, unnoted, struck, silent>>
        /\ pc = "again" /\ Begin(Main) /\ young' = {} /\ pc' = "finding"
    BY DEF FindAgain
  <1>2. /\ snap' \in [Threads -> [todo : SUBSET Pids, table : SUBSET Reading]]
        /\ \A l \in Own : IsRunning(l) => proc[l].pid \in snap'[Main].todo
    BY <1>1, BeginLists
  <1>3. CaseTypeOK'
    BY ZenonT(30), <1>1, <1>2 DEF CaseInv, CaseTypeOK, guard, Places
  <1>4. Listings' /\ Cleared'
    BY <1>1, <1>2 DEF Listings, Covered, Cleared, IsRunning
  <1>5. Noted'
    BY <1>1 DEF CaseInv, Noted, IsRunning, guard
  <1> QED  BY <1>1, <1>3, <1>4, <1>5, GoesOn DEF Invoking

LEMMA CloseEndsKeeps ==
    ASSUME CaseInv, CleanupFails \/ Judge
    PROVE  CaseInv'
  <1>1. /\ UNCHANGED <<proc, snap, guard, monitor, cand, run, pending, hist>>
        /\ pc' = "closed"
    BY DEF CleanupFails, Judge
  <1>2. CASE CleanupFails
    <2>1. CaseTypeOK' /\ close'.error
      BY <1>1, <1>2 DEF CleanupFails, CaseInv, CaseTypeOK, guard, hist, Places
    <2>2. Listings' /\ Noted' /\ Cleared'
      BY <1>1, <2>1 DEF Listings, Noted, Cleared
    <2> QED  BY <1>1, <2>1, <2>2, GoesOn DEF hist, Invoking
  <1>3. CASE Judge
    <2>1. CaseTypeOK' /\ close'.error = close.error
      BY <1>1, <1>3 DEF Judge, CaseInv, CaseTypeOK, guard, hist, Places
    <2>2. Listings' /\ Noted' /\ Cleared'
      BY <1>1, <1>3, <2>1 DEF Judge, CaseInv, Listings, Noted, Cleared, IsRunning, hist
    <2> QED  BY <1>1, <2>1, <2>2, GoesOn DEF hist, Invoking
  <1> QED  BY <1>2, <1>3

-----------------------------------------------------------------------------
LEMMA CaseInitKeeps == CaseInit => CaseInv
  <1> SUFFICES ASSUME CaseInit PROVE CaseInv
    OBVIOUS
  <1>1. \A l \in Lives : proc[l] = Absent /\ proc[l].st = "unborn"
    BY DEF CaseInit, Absent
  <1>2. CaseTypeOK
    <2>1. Absent \in Process
      BY DEF Absent, Process
    <2>2. NoSnapshot \in [todo : SUBSET Pids, table : SUBSET Reading]
      BY DEF NoSnapshot
    <2>3. 0 \in 0 .. MaxInvocations
      BY CaseProcessesAssumption
    <2> QED  BY <2>1, <2>2, <2>3 DEF CaseInit, CaseTypeOK, Places
  <1>3. Families /\ Numbers /\ Candidates /\ GroupOver
    BY <1>1 DEF CaseInit, Families, Numbers, Candidates, GroupOver, Exists, Unborn, Invoking
  <1>4. Listings /\ Noted /\ Cleared /\ PendingOwned /\ KilledIsReported /\ SignalsOnlyClaimed
    BY DEF CaseInit, Listings, Noted, Cleared, PendingOwned, KilledIsReported, SignalsOnlyClaimed
  <1> QED  BY <1>2, <1>3, <1>4 DEF CaseInv

LEMMA CaseNextKeeps == CaseInv /\ [CaseNext]_caseVars => CaseInv'
  <1> SUFFICES ASSUME CaseInv, [CaseNext]_caseVars PROVE CaseInv'
    OBVIOUS
  <1>1. CASE Environment
    BY <1>1, ForkKeeps, ForeignStartsKeeps, ExitKeeps, WaitedKeeps DEF Environment
  <1>2. CASE MonitorThread
    BY <1>2, MonitorThreadKeeps, ReadProcessKeeps DEF MonitorThread, Threads
  <1>3. CASE Invocation
    BY <1>3, StartCandidateKeeps, WaitReturnsKeeps, WaitTimesOutKeeps, PollKeeps, NoteGroupLeaksKeeps,
       TermGroupKeeps, WaitAgainKeeps, KillGroupKeeps, InvocationReturnsKeeps DEF Invocation
  <1>4. CASE ClosesGuard
    BY <1>4, StopMonitorKeeps, MonitorJoinedKeeps, MonitorStuckKeeps, NoteLeaksKeeps, NoteLeaksFailsKeeps,
       FindSurvivorsKeeps, VerifyKeeps, SignalSurvivorsKeeps, FindAgainKeeps, CloseEndsKeeps DEF ClosesGuard
  <1>5. CASE ReadProcess(Main)
    BY <1>5, ReadProcessKeeps DEF Threads
  <1>6. CASE UNCHANGED caseVars
    <2>1. UNCHANGED <<proc, snap, owned, leaks, monitor, pc, cand, run, close, pending, young, unnoted, struck, silent>>
      BY <1>6 DEF caseVars
    <2>2. Aged
      BY <2>1 DEF CaseInv, CaseTypeOK, Aged, IsRunning, Exists, Unborn
    <2> QED  BY <2>1, <2>2, AgedKeeps DEF Kept, guard, hist
  <1>7. CASE HelperThreads
    BY <1>7, HelperThreadsKeep
  <1> QED  BY <1>1, <1>2, <1>3, <1>4, <1>5, <1>6, <1>7 DEF CaseNext, MainThread

(* What outlives its candidate or the case is ended and reported, and an    *)
(* invocation that completes was read whole, whatever the processes of the *)
(* case and of others do while the table is read.                          *)
THEOREM CaseIsAlwaysWatched == CaseSpec => []CaseIsWatched
  <1>1. CaseInv => CaseIsWatched
    <2> SUFFICES ASSUME CaseInv PROVE CaseIsWatched
      OBVIOUS
    <2>1. SurvivorsAreYoung
      BY DEF CaseInv, Cleared, SurvivorsAreYoung, Own
    <2>2. CompletedIsWhole
      BY DEF CaseInv, GroupOver, CompletedIsWhole
    <2> QED  BY <2>1, <2>2 DEF CaseInv, CaseIsWatched
  <1> QED  BY <1>1, CaseInitKeeps, CaseNextKeeps, PTL DEF CaseSpec

(* Where there are pidfds a reused number brings no signal to a stranger   *)
(* that was not claimed: cleanup looks at the lifetime again, and killpg   *)
(* (run.py) finds none in the group that the candidate founded, as long as *)
(* a process of that group exists and keeps its number from being reused.  *)
THEOREM OnlyClaimedAreSignalled == CaseSpec => []SignalsOnlyClaimed
  <1>1. CaseInv => SignalsOnlyClaimed
    BY DEF CaseInv
  <1> QED  BY <1>1, CaseInitKeeps, CaseNextKeeps, PTL DEF CaseSpec

=============================================================================
