--------------------------- MODULE SimDriver_proofs ---------------------------
(***************************************************************************)
(* The driver of the simulation and the controller of the SoC, for every   *)
(* file, setting and program: the SoC is reset before anything goes out on *)
(* its fabric, every answer the driver takes is to the question it has     *)
(* asked last, with the count of instructions of that moment, what is      *)
(* typed and what is printed go through the console in order, and the      *)
(* processor is started with the image of the file in memory.              *)
(***************************************************************************)
EXTENDS SimDriver, SeqLemmas

(* What the commands of the driver make the controller do, step by step.   *)
Commands == {"reset", "logdelay", "write", "verbosity", "instret", "cycle", "run"}
Asking == {"instret", "cycle", "run"}

Doing(op, k) == Steps[op][k].do
AwaitsFabric(op, k) == Doing(op, k) \in {"word", "acknowledged"}

LastStep(op) == IF op \in {"reset", "write"} THEN 3
                ELSE IF op = "logdelay" THEN 2
                ELSE IF op = "verbosity" THEN 10 ELSE 7
ReplyStep(op) == IF op = "run" THEN 5 ELSE 6

(* The step after which a request is sent is one that awaits its answer.   *)
StepFacts(op, k) ==
    /\ Doing(op, k) = "done" <=> k = LastStep(op)
    /\ k < LastStep(op) => (AwaitsFabric(op, k + 1) <=> Doing(op, k) = "request")
    /\ k = 1 => ~AwaitsFabric(op, k)
    /\ Doing(op, k) = "ask_reset" <=> op = "reset" /\ k = 1
    /\ Doing(op, k) = "await_reset" <=> op = "reset" /\ k = 2
    /\ Doing(op, k) = "high" <=> op \in {"instret", "cycle"} /\ k = 3
    /\ Doing(op, k) \in {"reply", "reply2"} <=> op \in Asking /\ k = ReplyStep(op)
    /\ Doing(op, k) = "reply" <=> op = "run" /\ k = 5
    /\ op = "instret" => /\ Doing(op, k) = "request" <=> k \in {1, 4}
                         /\ Doing(op, k) = "word" <=> k \in {2, 5}
                         /\ Doing(op, k) # "acknowledged"
    /\ op = "run" => (Doing(op, k) = "request" <=> k \in {1, 3})

RequestFacts(op, k) ==
    Doing(op, k) = "request" =>
      /\ Steps[op][k].at = "CPU.A1" <=> op = "run"
      /\ op = "run" => (Steps[op][k].op = "write" <=> k = 1) /\ (Steps[op][k].op = "read" <=> k = 3)
      /\ op = "instret" => Steps[op][k].at = IF k = 1 THEN "CPU.A7" ELSE "CPU.A6"
      /\ Steps[op][k].at = "memory" <=> op = "write"
      /\ op = "write" => Steps[op][k].op = "write"

LEMMA CommandSteps ==
  ASSUME NEW op \in Commands, NEW k \in 1 .. LastStep(op)
  PROVE  StepFacts(op, k) /\ RequestFacts(op, k)
<1>1. CASE op = "reset"
  <2>1. /\ Doing(op, 1) = "ask_reset" /\ Doing(op, 2) = "await_reset" /\ Doing(op, 3) = "done"
        /\ LastStep(op) = 3
    BY <1>1 DEF Doing, Steps, Done, LastStep
  <2>2. k \in {1, 2, 3}
    BY <2>1
  <2> QED
    BY <1>1, <2>1, <2>2 DEF StepFacts, RequestFacts, AwaitsFabric, Asking
<1>2. CASE op = "logdelay"
  <2>1. Doing(op, 1) = "note" /\ Doing(op, 2) = "done" /\ LastStep(op) = 2
    BY <1>2 DEF Doing, Steps, Done, LastStep
  <2>2. k \in {1, 2}
    BY <2>1
  <2> QED
    BY <1>2, <2>1, <2>2 DEF StepFacts, RequestFacts, AwaitsFabric, Asking
<1>3. CASE op = "write"
  <2>1. /\ Doing(op, 1) = "request" /\ Doing(op, 2) = "acknowledged" /\ Doing(op, 3) = "done"
        /\ LastStep(op) = 3 /\ Steps[op][1].at = "memory" /\ Steps[op][1].op = "write"
    BY <1>3 DEF Doing, Steps, Write, Done, LastStep
  <2>2. k \in {1, 2, 3}
    BY <2>1
  <2> QED
    BY <1>3, <2>1, <2>2 DEF StepFacts, RequestFacts, AwaitsFabric, Asking
<1>4. CASE op = "verbosity"
  <2>1. /\ Doing(op, 1) = "note" /\ Doing(op, 10) = "done" /\ LastStep(op) = 10
        /\ \A m \in {2, 4, 6, 8} : Doing(op, m) = "request" /\ Steps[op][m].at \notin {"CPU.A1", "memory"}
        /\ \A m \in {3, 5, 7, 9} : Doing(op, m) = "acknowledged"
    BY <1>4 DEF Doing, Steps, Write, Done, LastStep
  <2>2. k \in {1, 2, 3, 4, 5, 6, 7, 8, 9, 10}
    BY <2>1
  <2> QED
    BY <1>4, <2>1, <2>2 DEF StepFacts, RequestFacts, AwaitsFabric, Asking
<1>5. CASE op = "instret"
  <2>1. /\ Doing(op, 1) = "request" /\ Doing(op, 2) = "word" /\ Doing(op, 3) = "high"
        /\ Doing(op, 4) = "request" /\ Doing(op, 5) = "word" /\ Doing(op, 6) = "reply2"
        /\ Doing(op, 7) = "done" /\ LastStep(op) = 7
        /\ Steps[op][1].at = "CPU.A7" /\ Steps[op][4].at = "CPU.A6"
    BY <1>5 DEF Doing, Steps, Counter, Read, Done, LastStep
  <2>2. k \in {1, 2, 3, 4, 5, 6, 7}
    BY <2>1
  <2> QED
    BY <1>5, <2>1, <2>2 DEF StepFacts, RequestFacts, AwaitsFabric, Asking, ReplyStep
<1>6. CASE op = "cycle"
  <2>1. /\ Doing(op, 1) = "request" /\ Doing(op, 2) = "word" /\ Doing(op, 3) = "high"
        /\ Doing(op, 4) = "request" /\ Doing(op, 5) = "word" /\ Doing(op, 6) = "reply2"
        /\ Doing(op, 7) = "done" /\ LastStep(op) = 7
        /\ Steps[op][1].at = "CPU.A3" /\ Steps[op][4].at = "CPU.A2"
    BY <1>6 DEF Doing, Steps, Counter, Read, Done, LastStep
  <2>2. k \in {1, 2, 3, 4, 5, 6, 7}
    BY <2>1
  <2> QED
    BY <1>6, <2>1, <2>2 DEF StepFacts, RequestFacts, AwaitsFabric, Asking, ReplyStep
<1>7. CASE op = "run"
  <2>1. /\ Doing(op, 1) = "request" /\ Doing(op, 2) = "acknowledged" /\ Doing(op, 3) = "request"
        /\ Doing(op, 4) = "word" /\ Doing(op, 5) = "reply" /\ Doing(op, 6) = "note"
        /\ Doing(op, 7) = "done" /\ LastStep(op) = 7
        /\ Steps[op][1].at = "CPU.A1" /\ Steps[op][3].at = "CPU.A1"
        /\ Steps[op][1].op = "write" /\ Steps[op][3].op = "read"
    BY <1>7 DEF Doing, Steps, Write, Read, Reply, Done, LastStep
  <2>2. k \in {1, 2, 3, 4, 5, 6, 7}
    BY <2>1
  <2> QED
    BY <1>7, <2>1, <2>2 DEF StepFacts, RequestFacts, AwaitsFabric, Asking, ReplyStep
<1> QED
  BY <1>1, <1>2, <1>3, <1>4, <1>5, <1>6, <1>7 DEF Commands

-----------------------------------------------------------------------------
(* The commands and the answers on their way, over both FIFOs of each.     *)
CommandPath == Cat(f_control_reqs, fControlReq)
AnswerPath == Cat(fControlRsp, f_control_rsps)

Moving(g, m) == m = << >> \/ (g # << >> /\ m = <<Head(g)>>)

LEMMA Moved ==
  ASSUME NEW S, NEW g \in Seq(S), NEW m, Moving(g, m)
  PROVE  m \in Seq(S) /\ Without(g, m) \in Seq(S) /\ Cat(m, Without(g, m)) = g
<1>1. CASE m = << >>
  <2>1. Without(g, m) = g
    BY <1>1 DEF Without
  <2> QED
    BY <1>1, <2>1, CatEmpty
<1>2. CASE g # << >> /\ m = <<Head(g)>>
  <2>1. Without(g, m) = Tail(g)
    BY <1>2 DEF Without
  <2>2. m \in Seq(S) /\ Without(g, m) \in Seq(S)
    BY <1>2, <2>1
  <2> QED
    BY <1>2, <2>1, <2>2, HeadThenTail
<1> QED
  BY <1>1, <1>2 DEF Moving

(* The first d of f leave a path over f and g, d being 0 or 1; m moves     *)
(* from g to f; e joins at the end.                                        *)
Left(f, d) == IF d = 1 THEN Tail(f) ELSE f
Leave(f, d) == d \in {0, 1} /\ (d = 1 => f # << >>)

LEMMA LeftFacts ==
  ASSUME NEW S, NEW f \in Seq(S), NEW d, Leave(f, d)
  PROVE  /\ Left(f, d) \in Seq(S) /\ Len(Left(f, d)) \in Nat
         /\ Len(Left(f, d)) = Len(f) - d
         /\ \A k \in 1 .. Len(f) - d : Left(f, d)[k] = f[k + d]
<1>1. CASE d = 0
  BY <1>1 DEF Left
<1>2. CASE d = 1
  BY <1>2, TailFacts DEF Left, Leave
<1> QED
  BY <1>1, <1>2 DEF Leave

(* What moves from one FIFO of a path to the other stays on the path.      *)
LEMMA PathMoves ==
  ASSUME NEW S, NEW f \in Seq(S), NEW g \in Seq(S), NEW m, Moving(g, m), NEW e \in Seq(S),
         NEW d, Leave(f, d)
  PROVE  /\ Cat(Left(f, d), m) \in Seq(S) /\ Cat(Without(g, m), e) \in Seq(S)
         /\ Cat(Cat(Left(f, d), m), Cat(Without(g, m), e)) = Cat(Cat(Left(f, d), g), e)
<1>1. m \in Seq(S) /\ Without(g, m) \in Seq(S) /\ Cat(m, Without(g, m)) = g
  BY Moved
<1>2. Left(f, d) \in Seq(S)
  BY LeftFacts
<1>3. /\ Cat(Left(f, d), m) \in Seq(S) /\ Cat(Without(g, m), e) \in Seq(S)
      /\ Cat(Left(f, d), g) \in Seq(S)
  BY <1>1, <1>2, CatType
<1>4. Cat(Cat(Left(f, d), m), Without(g, m)) = Cat(Left(f, d), g)
  BY <1>1, <1>2, CatAssociative
<1>5. Cat(Cat(Left(f, d), m), Cat(Without(g, m), e)) = Cat(Cat(Cat(Left(f, d), m), Without(g, m)), e)
  BY <1>1, <1>3, CatAssociative
<1> QED
  BY <1>3, <1>4, <1>5

LEMMA PathElements ==
  ASSUME NEW S, NEW f \in Seq(S), NEW g \in Seq(S), NEW m, Moving(g, m), NEW e \in Seq(S),
         NEW d, Leave(f, d), NEW P, P = Cat(f, g),
         NEW Q, Q = Cat(Cat(Left(f, d), m), Cat(Without(g, m), e))
  PROVE  /\ Len(P) \in Nat /\ Len(Q) \in Nat /\ Len(e) \in Nat
         /\ P \in Seq(S) /\ Q \in Seq(S)
         /\ Len(Q) = Len(P) - d + Len(e)
         /\ \A k \in 1 .. Len(P) - d : Q[k] = P[k + d]
         /\ Len(e) = 1 => Q[Len(Q)] = e[1]
<1> DEFINE h == Left(f, d)
           R == Cat(h, g)
<1>1. h \in Seq(S) /\ Len(h) \in Nat /\ Len(h) = Len(f) - d /\ \A k \in 1 .. Len(f) - d : h[k] = f[k + d]
  BY LeftFacts
<1>2. Q = Cat(R, e)
  BY PathMoves
<1> HIDE DEF h, R
<1>3. /\ P \in Seq(S) /\ Len(P) = Len(f) + Len(g) /\ R \in Seq(S) /\ Len(R) = Len(h) + Len(g)
  BY <1>1, CatType DEF R
<1>4. Q \in Seq(S) /\ Len(Q) = Len(R) + Len(e)
  BY <1>2, <1>3, CatType
<1>5. d \in {0, 1} /\ Len(f) \in Nat /\ Len(g) \in Nat /\ Len(e) \in Nat
  BY DEF Leave
<1>9. \A j \in 1 .. Len(f) + Len(g) : P[j] = IF j <= Len(f) THEN f[j] ELSE g[j - Len(f)]
  BY CatElements
<1>10. \A j \in 1 .. Len(h) + Len(g) : R[j] = IF j <= Len(h) THEN h[j] ELSE g[j - Len(h)]
  BY <1>1, CatElements DEF R
<1>11. \A j \in 1 .. Len(R) + Len(e) : Q[j] = IF j <= Len(R) THEN R[j] ELSE e[j - Len(R)]
  BY <1>2, <1>3, CatElements
<1>6. ASSUME NEW k \in 1 .. Len(P) - d PROVE Q[k] = P[k + d]
  <2>1. k \in 1 .. Len(h) + Len(g) /\ k \in 1 .. Len(R) + Len(e) /\ k <= Len(R) /\ k + d \in 1 .. Len(f) + Len(g)
    BY <1>1, <1>3, <1>5
  <2>2. Q[k] = R[k]
    BY <1>11, <2>1
  <2>3. R[k] = IF k <= Len(h) THEN h[k] ELSE g[k - Len(h)]
    BY <1>10, <2>1
  <2>4. PICK j \in 1 .. Len(f) + Len(g) : j = k + d
    BY <2>1
  <2>5. P[j] = IF j <= Len(f) THEN f[j] ELSE g[j - Len(f)]
    BY <1>9
  <2>6. CASE k <= Len(h)
    <3>1. k \in 1 .. Len(f) - d /\ j <= Len(f)
      BY <1>1, <1>5, <2>4, <2>6
    <3>2. h[k] = f[j]
      BY <1>1, <2>4, <3>1
    <3> QED
      BY <2>2, <2>3, <2>4, <2>5, <2>6, <3>1, <3>2
  <2>7. CASE ~(k <= Len(h))
    <3>1. k - Len(h) = j - Len(f) /\ ~(j <= Len(f))
      BY <1>1, <1>5, <2>4, <2>7
    <3> QED
      BY <2>2, <2>3, <2>4, <2>5, <2>7, <3>1
  <2> QED
    BY <2>6, <2>7
<1>7. ASSUME Len(e) = 1 PROVE Q[Len(Q)] = e[1]
  <2>1. Len(Q) \in 1 .. Len(R) + Len(e) /\ ~(Len(Q) <= Len(R)) /\ Len(Q) - Len(R) = 1
    BY <1>1, <1>3, <1>4, <1>5, <1>7
  <2> QED
    BY <1>11, <2>1
<1>8. Len(P) \in Nat /\ Len(Q) \in Nat /\ Len(Q) = Len(P) - d + Len(e)
  BY <1>1, <1>3, <1>4, <1>5
<1> QED
  BY <1>3, <1>4, <1>5, <1>6, <1>7, <1>8

LEMMA PathHead ==
  ASSUME NEW S, NEW f \in Seq(S), NEW g \in Seq(S), f # << >>
  PROVE  Cat(f, g) # << >> /\ Head(Cat(f, g)) = Head(f) /\ Cat(f, g)[1] = Head(f)
<1>1. Len(f) \in Nat /\ Len(f) >= 1 /\ Head(f) = f[1] /\ Len(g) \in Nat
  BY TailFacts
<1>2. Cat(f, g) \in Seq(S) /\ Len(Cat(f, g)) = Len(f) + Len(g)
  BY CatType
<1>3. Cat(f, g)[1] = f[1]
  <2>1. 1 \in 1 .. Len(f) + Len(g) /\ 1 <= Len(f)
    BY <1>1
  <2> QED
    BY <2>1, CatElements
<1> QED
  BY <1>1, <1>2, <1>3

-----------------------------------------------------------------------------
(* The clock and the reset, as sim_main.cpp makes them.                    *)
ClockInv ==
    /\ main_time \in Times
    /\ CLK = IF main_time \in {6, 16} THEN 1 ELSE 0
    /\ RST_N \in {0, 1}
    /\ main_time \in {0, 1} => RST_N = 0
    /\ main_time = 16 => RST_N = 1

SoCType ==
    /\ DOMAIN soc = {"up", "runs", "mem", "instret", "sent"}
    /\ soc.instret \in Nat

(* Before the first edge, which comes with the reset.                      *)
BeforeReset ==
    /\ RST_N = 0 /\ ~soc.up /\ ~soc.runs
    /\ f_fabric_reqs = << >> /\ fControlRsp = << >> /\ f_control_rsps = << >>

(* After it: the driver's state machine.                                   *)
StateInv ==
    /\ state \in 0 .. 23
    /\ state # 0 \/ start_reg => running
    /\ state = 23 => CLK = 1 \/ gotFinish
    /\ RST_N = 0 => state = 0

Waiting == state \in {12, 14, 16, 18, 20}

(* The paths hold commands of the driver, the last of all but one.         *)
PathType ==
    /\ \E S : /\ \A r \in S : r.op \in Commands \/ (r.op = "shutdown" /\ state = 23)
              /\ f_control_reqs \in Seq(S) /\ fControlReq \in Seq(S)
    /\ \E T : fControlRsp \in Seq(T) /\ f_control_rsps \in Seq(T)

(* Command op at step k: what is on the fabric, and whether the processor  *)
(* may be running.                                                         *)
FabricOk(op, k, reqs, rsps, runs) ==
    /\ op \in Commands /\ k \in 1 .. LastStep(op)
    /\ AwaitsFabric(op, k) =>
         \/ /\ rsps = << >>
            /\ \E r : reqs = <<r>> /\ r.op = Steps[op][k - 1].op /\ r.at = Steps[op][k - 1].at
         \/ reqs = << >> /\ \E v : rsps = <<v>>
    /\ ~AwaitsFabric(op, k) => reqs = << >> /\ rsps = << >>
    /\ runs => op = "run" /\ k \in {2, 3, 4} /\ (k = 2 => rsps # << >>) /\ (k = 4 => reqs # << >>)

(* How far the two words of the count n of instructions have come.         *)
CountOk(k, rsps, word, high, n) ==
    /\ k = 2 /\ rsps # << >> => Head(rsps) = n \div 2
    /\ k = 3 => word = n \div 2
    /\ k > 3 => high = n \div 2
    /\ k = 5 /\ rsps # << >> => Head(rsps) = n % 2
    /\ k = 6 => word = n % 2

FabricInv ==
    /\ f_control_reqs = << >> =>
         step = 1 /\ f_fabric_reqs = << >> /\ f_fabric_rsps = << >> /\ ~soc.runs
    /\ f_control_reqs # << >> =>
         /\ FabricOk(Command.op, step, f_fabric_reqs, f_fabric_rsps, soc.runs)
         /\ Command.op = "instret" => CountOk(step, f_fabric_rsps, rg_word, rg_word_h, soc.instret)

(* Until the SoC has been reset the first command is the one that does it. *)
ResetInv ==
    ~soc.up =>
      /\ f_reset # "answered"
      /\ CommandPath = << >> => state = 0
      /\ CommandPath # << >> => CommandPath[1].op = "reset" /\ step \in {1, 2}

(* A question without its answer is the last command and the driver waits  *)
(* for it; an answer without its reader is to the question waited for.     *)
AskInv ==
    \A k \in 1 .. Len(CommandPath) :
        CommandPath[k].op \in Asking /\ (k = 1 => step <= ReplyStep(CommandPath[1].op)) =>
          /\ k = Len(CommandPath)
          /\ Waiting /\ Asked[state - 1] = CommandPath[k].op /\ AnswerPath = << >>

AnsInv ==
    AnswerPath # << >> =>
      /\ Waiting /\ Asked[state - 1] = AnswerPath[1].op
      /\ Len(AnswerPath) = 1 /\ fControlReq = << >>
      /\ AnswerPath[1].op = "instret" => AnswerPath[1].n = soc.instret

CoreInv == StateInv /\ PathType /\ FabricInv /\ ResetInv /\ AskInv /\ AnsInv

SimInv ==
    /\ ClockInv /\ SoCType
    /\ main_time \in {0, 1} => BeforeReset
    /\ main_time \notin {0, 1} => CoreInv

-----------------------------------------------------------------------------
(* What a rule of the driver does to the two FIFOs at its side: it sends,  *)
(* it takes an answer, or neither.                                         *)
(* A word of the image is sent, when the state machine enters state 8.     *)
Writes(r) ==
    /\ state \in {7, 9} /\ MoreWords /\ state' = 8 /\ UNCHANGED <<p_state, rg>>
    /\ c_mem_read32(p_state, rg.addr) # EXIT
    /\ r = ReqWrite(rg.addr, IF rg.addr = rg.exit_pc THEN EBREAK ELSE c_mem_read32(p_state, rg.addr))

WordSent(r) == r.op = "write" \/ state' = 8 => Writes(r)
NoWord == state' = 8 => state = 8

DriverSends(r) ==
    /\ fControlReq' = Cat(Without(fControlReq, MovingReq), <<r>>)
    /\ fControlRsp' = Cat(fControlRsp, MovingRsp)
    /\ ~Waiting /\ state' # 0
    /\ r.op \in Commands \/ (r.op = "shutdown" /\ state' = 23)
    /\ r.op \in Asking => Waiting' /\ Asked[state' - 1] = r.op
    /\ state = 0 => r.op = "reset"
    /\ WordSent(r)

DriverRests ==
    /\ fControlReq' = Without(fControlReq, MovingReq)
    /\ fControlRsp' = Cat(fControlRsp, MovingRsp)
    /\ Waiting \/ state = 0 => state' = state
    /\ NoWord

DriverHears ==
    /\ Waiting /\ fControlRsp # << >> /\ NoWord
    /\ fControlReq' = Without(fControlReq, MovingReq)
    /\ fControlRsp' = Cat(Tail(fControlRsp), MovingRsp)

LEMMA AskedFacts ==
  /\ DOMAIN Asked = {11, 13, 15, 17, 19}
  /\ \A s \in {11, 13, 15, 17, 19} : Asked[s] \in Asking
BY DEF Asked, Asking

LEMMA DriverSteps ==
  ASSUME StateInv, FSM, NEW S, fControlReq \in Seq(S), Moving(fControlReq, MovingReq)
  PROVE  /\ (\E r : DriverSends(r)) \/ DriverRests \/ DriverHears
         /\ state' \in 0 .. 23 /\ (state' # 0 \/ start_reg' => running')
<1> DEFINE Sends == \E r : DriverSends(r)
           Goes == state' \in 0 .. 23 /\ (state' # 0 \/ start_reg' => running')
           W == Without(fControlReq, MovingReq)
<1>1. state \in 0 .. 23 /\ (state # 0 \/ start_reg => running)
  BY DEF StateInv
<1>2. \A r : Append(W, r) = Cat(W, <<r>>)
  <2>1. W \in Seq(S)
    BY Moved
  <2>2. ASSUME NEW r PROVE Append(W, r) = Cat(W, <<r>>)
    <3>1. W \in Seq(S \cup {r}) /\ r \in S \cup {r}
      BY <2>1, SeqMonotonic
    <3>2. Append(W, r) = W \o <<r>>
      BY <3>1, AppendIsConcat
    <3> QED
      BY <3>2 DEF Cat
  <2> QED
    BY <2>2
<1> HIDE DEF W
<1>3. Quiet => /\ fControlReq' = W /\ fControlRsp' = Cat(fControlRsp, MovingRsp)
  BY DEF Quiet, NoRequest, NoAnswer, Cat, W
<1>4. ASSUME NEW r, Send(r)
      PROVE  fControlReq' = Cat(W, <<r>>) /\ fControlRsp' = Cat(fControlRsp, MovingRsp)
  BY <1>2, <1>4 DEF Send, NoAnswer, Cat, W
<1>5. ASSUME NEW r, Send(r), r.op \in Commands \ Asking, ~Waiting, state' # 0, state = 0 => r.op = "reset",
             WordSent(r)
      PROVE  Sends
  <2>1. DriverSends(r)
    BY <1>4, <1>5 DEF DriverSends, W
  <2> QED
    BY <2>1
<1>6. Quiet /\ (Waiting \/ state = 0 => state' = state) /\ (state' = 8 => state = 8) => DriverRests
  BY <1>3 DEF DriverRests, NoWord, W
<1> HIDE DEF Sends
<1>7. Commands \ Asking = {"reset", "logdelay", "write", "verbosity"}
  BY DEF Commands, Asking
<1> USE DEF Goto, Waiting
<1>a. CASE rl_auto_start
  BY <1>1, <1>6, <1>a DEF rl_auto_start
<1>b. CASE action_l172c10
  <2>1. state = 0 /\ state' = 1 /\ Send(Req("reset")) /\ UNCHANGED running /\ running
    BY <1>1, <1>b DEF action_l172c10
  <2>2. Sends
    <3>1. Req("reset").op = "reset"
      BY DEF Req
    <3>2. WordSent(Req("reset"))
      BY <2>1, <3>1 DEF WordSent
    <3> QED
      BY <1>5, <1>7, <2>1, <3>1, <3>2
  <2> QED
    BY <2>1, <2>2 DEF Sends
<1>c. CASE action_l178c10
  <2>1. state = 1 /\ state' = 2 /\ UNCHANGED running /\ running /\ (Send(Req("logdelay")) \/ Quiet)
    BY <1>1, <1>c DEF action_l178c10
  <2>2. Send(Req("logdelay")) => Sends
    <3>1. Req("logdelay").op = "logdelay"
      BY DEF Req
    <3>2. WordSent(Req("logdelay"))
      BY <2>1, <3>1 DEF WordSent
    <3> QED
      BY <1>5, <1>7, <2>1, <3>1, <3>2
  <2> QED
    BY <1>6, <2>1, <2>2 DEF Sends
<1>d. CASE action_l201c10
  BY <1>1, <1>6, <1>d DEF action_l201c10
<1>e. CASE action_l207c10
  BY <1>1, <1>6, <1>e DEF action_l207c10
<1>f. CASE action_l216c13
  BY <1>1, <1>6, <1>f DEF action_l216c13
<1>g. CASE action_l227c32
  BY <1>1, <1>6, <1>g DEF action_l227c32
<1>h. CASE action_f_init_l232c13
  BY <1>1, <1>6, <1>h DEF action_f_init_l232c13
<1>i. CASE action_l232c89
  <2> DEFINE w == c_mem_read32(p_state, rg.addr)
             r == ReqWrite(rg.addr, IF rg.addr = rg.exit_pc THEN EBREAK ELSE w)
  <2>1. state \in {7, 9} /\ UNCHANGED running /\ running
        /\ ((Quiet /\ UNCHANGED state) \/ (Send(r) /\ state' = 8 /\ w # EXIT))
        /\ MoreWords /\ UNCHANGED <<p_state, rg>>
    BY <1>1, <1>i DEF action_l232c89, InLoop
  <2>2. r.op = "write"
    BY DEF ReqWrite
  <2>4. Send(r) /\ state' = 8 /\ w # EXIT => WordSent(r)
    BY <2>1, Zenon DEF WordSent, Writes
  <2> HIDE DEF r, w
  <2>3. Send(r) /\ state' = 8 /\ w # EXIT => Sends
    BY <1>5, <1>7, <2>1, <2>2, <2>4
  <2> QED
    BY <1>6, <2>1, <2>3, SMTT(30) DEF Sends
<1>j. CASE action_f_update_l232c13
  BY <1>1, <1>6, <1>j DEF action_f_update_l232c13
<1>k. CASE action_l244c16
  BY <1>1, <1>6, <1>k DEF action_l244c16, InLoop
<1>l. CASE action_l248c10
  <2>1. state \in {4, 10} /\ state' = 11 /\ UNCHANGED running /\ running /\ Send(Req("verbosity"))
    BY <1>1, <1>l DEF action_l248c10, Verbosity
  <2>2. Sends
    <3>1. Req("verbosity").op = "verbosity"
      BY DEF Req
    <3>2. WordSent(Req("verbosity"))
      BY <2>1, <3>1 DEF WordSent
    <3> QED
      BY <1>5, <1>7, <2>1, <3>1, <3>2
  <2> QED
    BY <2>1, <2>2 DEF Sends
<1>m. CASE ask
  <2>1. state \in {11, 13, 15, 17, 19} /\ state' = state + 1 /\ Send(Req(Asked[state]))
        /\ UNCHANGED <<running, start_reg>>
    BY <1>m, AskedFacts DEF ask
  <2>2. Asked[state] \in Asking /\ state' - 1 = state
    BY <2>1, AskedFacts
  <2> DEFINE r == Req(Asked[state])
  <2>3. r.op = Asked[state] /\ Send(r)
    BY <2>1 DEF Req
  <2> HIDE DEF r
  <2>5. WordSent(r)
    BY <2>1, <2>2, <2>3 DEF WordSent, Asking
  <2>4. DriverSends(r)
    BY <1>4, <2>1, <2>2, <2>3, <2>5 DEF DriverSends, W, Commands, Asking
  <2> QED
    BY <1>1, <2>1, <2>4 DEF Sends
<1>n. CASE await
  <2>1. state - 1 \in {11, 13, 15, 17, 19} /\ state' = state + 1 /\ fControlRsp # << >>
        /\ UNCHANGED <<running, start_reg>>
        /\ fControlRsp' = Cat(Tail(fControlRsp), MovingRsp) /\ fControlReq' = W
    BY <1>n, AskedFacts DEF await, Cat, NoRequest, W
  <2> QED
    BY <1>1, <2>1 DEF DriverHears, NoWord, W
<1>o. CASE action_l160c53
  BY <1>1, <1>6, <1>o DEF action_l160c53
<1>p. CASE action_l261c10
  <2> DEFINE r == Req("shutdown")
  <2>1. /\ state \in {21, 22} /\ state' = 23 /\ UNCHANGED running /\ running
        /\ Send(r) /\ r.op = "shutdown"
    BY <1>1, <1>p DEF action_l261c10, ShutDown, Req
  <2> HIDE DEF r
  <2>2. DriverSends(r)
    BY <1>4, <2>1 DEF DriverSends, WordSent, W, Asking
  <2> QED
    BY <2>1, <2>2 DEF Sends
<1>q. CASE Stalled /\ Quiet /\ UNCHANGED fsmVars
  BY <1>1, <1>6, <1>q DEF fsmVars
<1> QED
  BY <1>a, <1>b, <1>c, <1>d, <1>e, <1>f, <1>g, <1>h, <1>i, <1>j, <1>k, <1>l, <1>m, <1>n, <1>o, <1>p, <1>q
     DEF FSM, Sends

-----------------------------------------------------------------------------
(* What a rule of the controller does: it leaves d = 1 command behind or   *)
(* none, and sends the responses e, one or none.                           *)
IsAnswer(e) ==
    \E v : /\ e = << [op |-> Command.op, n |-> v] >>
           /\ Command.op = "instret" => v = soc.instret

ControllerMoves(d, e) ==
    /\ Leave(f_control_reqs, d)
    /\ f_control_reqs' = Cat(Left(f_control_reqs, d), MovingReq)
    /\ f_control_rsps' = Cat(Without(f_control_rsps, MovingRsp), e)
    /\ d = 1 => step = LastStep(Command.op) /\ step' = 1
    /\ d = 0 => step' = step \/ (f_control_reqs # << >> /\ step < LastStep(Command.op) /\ step' = step + 1)
    /\ e # << >> => /\ IsAnswer(e)
                    /\ f_control_reqs # << >> /\ d = 0
                    /\ Command.op \in Asking /\ step = ReplyStep(Command.op) /\ step' = step + 1

ControllerOk == \E d, e : ControllerMoves(d, e)

LEMMA NowIs ==
  ASSUME FabricInv, NEW do, Now(do)
  PROVE  /\ f_control_reqs # << >> /\ Command.op \in Commands /\ step \in 1 .. LastStep(Command.op)
         /\ Doing(Command.op, step) = do
         /\ StepFacts(Command.op, step) /\ RequestFacts(Command.op, step)
<1>1. /\ f_control_reqs # << >> /\ Command.op \in Commands /\ step \in 1 .. LastStep(Command.op)
  BY DEF FabricInv, FabricOk, Now
<1>2. step # PowerUp
  BY <1>1 DEF LastStep, PowerUp
<1> QED
  BY <1>1, <1>2, CommandSteps DEF Now, Doing

LEMMA ControllerSteps ==
  ASSUME FabricInv, SoCType, ControllerEdge,
         NEW T, f_control_rsps \in Seq(T), Moving(f_control_rsps, MovingRsp)
  PROVE  ControllerOk
<1>1. Silent => f_control_rsps' = Cat(Without(f_control_rsps, MovingRsp), << >>)
  BY Moved, CatEmpty DEF Silent
<1>2. ASSUME f_control_reqs' = Cat(f_control_reqs, MovingReq), Silent,
             step' = step \/ (f_control_reqs # << >> /\ step < LastStep(Command.op) /\ step' = step + 1)
      PROVE  ControllerOk
  <2>1. ControllerMoves(0, << >>)
    BY <1>1, <1>2 DEF ControllerMoves, Leave, Left
  <2> QED
    BY <2>1 DEF ControllerOk
<1>3. Advance => f_control_reqs' = Cat(f_control_reqs, MovingReq) /\ step' = step + 1
  BY DEF Advance, Cat
<1>4. ASSUME NEW do, Now(do), do # "done", Advance, Silent
      PROVE  ControllerOk
  <2>1. step < LastStep(Command.op) /\ f_control_reqs # << >>
    BY <1>4, NowIs DEF StepFacts, LastStep
  <2> QED
    BY <1>2, <1>3, <1>4, <2>1
<1>5. CASE fabric_request
  BY <1>4, <1>5 DEF fabric_request
<1>6. CASE fabric_response
  BY <1>4, <1>6 DEF fabric_response
<1>7. CASE keep_high
  BY <1>4, <1>7 DEF keep_high
<1>8. CASE reply
  <2> DEFINE n == IF Now("reply") THEN rg_word ELSE 2 * rg_word_h + rg_word
             e == << [op |-> Command.op, n |-> n] >>
  <2>1. PICK do \in {"reply", "reply2"} : Now(do)
    BY <1>8 DEF reply
  <2>2. /\ f_control_reqs # << >> /\ Command.op \in Commands /\ step \in 1 .. LastStep(Command.op)
        /\ Doing(Command.op, step) = do /\ StepFacts(Command.op, step)
    BY <2>1, NowIs
  <2>3. Command.op \in Asking /\ step = ReplyStep(Command.op) /\ step < LastStep(Command.op)
    BY <2>1, <2>2 DEF StepFacts, LastStep, ReplyStep, Asking
  <2>4. Command.op = "instret" => n = soc.instret
    <3>1. SUFFICES ASSUME Command.op = "instret" PROVE n = soc.instret
      OBVIOUS
    <3>2. ~Now("reply")
      BY <2>2, <3>1, NowIs DEF StepFacts
    <3>3. step = 6
      BY <2>3, <3>1 DEF ReplyStep
    <3>4. rg_word_h = soc.instret \div 2 /\ rg_word = soc.instret % 2
      BY <2>2, <3>1, <3>3 DEF FabricInv, CountOk
    <3>5. soc.instret \in Nat
      BY DEF SoCType
    <3> QED
      BY <3>2, <3>4, <3>5
  <2>5. f_control_rsps' = Cat(Without(f_control_rsps, MovingRsp), e) /\ Advance
    BY <1>8 DEF reply, Cat
  <2> HIDE DEF n
  <2>6. ControllerMoves(0, e)
    <3>1. IsAnswer(e)
      BY <2>4 DEF IsAnswer
    <3>2. e # << >>
      OBVIOUS
    <3> HIDE DEF e
    <3>3. f_control_reqs' = Cat(Left(f_control_reqs, 0), MovingReq) /\ step' = step + 1
      BY <1>3, <2>5 DEF Left
    <3>4. Leave(f_control_reqs, 0)
      BY DEF Leave
    <3> QED
      BY <2>2, <2>3, <2>5, <3>1, <3>2, <3>3, <3>4 DEF ControllerMoves
  <2> QED
    BY <2>6 DEF ControllerOk
<1>9. CASE ask_reset
  BY <1>4, <1>9 DEF ask_reset
<1>10. CASE await_reset
  BY <1>4, <1>10 DEF await_reset
<1>11. CASE note
  BY <1>4, <1>11 DEF note
<1>12. CASE done
  <2>1. Now("done") /\ step' = 1 /\ f_control_reqs' = Cat(Tail(f_control_reqs), MovingReq) /\ Silent
    BY <1>12 DEF done, Cat
  <2>2. f_control_reqs # << >> /\ step = LastStep(Command.op)
    BY <2>1, NowIs DEF StepFacts
  <2>3. ControllerMoves(1, << >>)
    BY <1>1, <2>1, <2>2 DEF ControllerMoves, Leave, Left
  <2> QED
    BY <2>3 DEF ControllerOk
<1>13. CASE Blocked /\ f_control_reqs' = f_control_reqs \o MovingReq /\ Silent /\ step' = step
  BY <1>2, <1>13 DEF Cat
<1> QED
  BY <1>5, <1>6, <1>7, <1>8, <1>9, <1>10, <1>11, <1>12, <1>13 DEF ControllerEdge, Fires

-----------------------------------------------------------------------------
(* An edge, seen from the two paths: the driver sends s and takes h        *)
(* answers, the controller leaves d commands behind and sends e.           *)
IsCommand(s) ==
    \E r : /\ s = <<r>>
           /\ r.op \in Commands \/ (r.op = "shutdown" /\ state' = 23)
           /\ r.op \in Asking => Waiting' /\ Asked[state' - 1] = r.op
           /\ state = 0 => r.op = "reset"
           /\ WordSent(r)

DriverMoves(s, h) ==
    /\ Leave(fControlRsp, h)
    /\ fControlReq' = Cat(Without(fControlReq, MovingReq), s)
    /\ fControlRsp' = Cat(Left(fControlRsp, h), MovingRsp)
    /\ h = 1 => Waiting
    /\ s # << >> => IsCommand(s) /\ ~Waiting /\ state' # 0
    /\ s = << >> /\ h = 0 /\ (Waiting \/ state = 0) => state' = state
    /\ s = << >> => NoWord

DriverOk == \E s, h : DriverMoves(s, h)

LEMMA DriverPaths ==
  ASSUME (\E r : DriverSends(r)) \/ DriverRests \/ DriverHears,
         NEW S, fControlReq \in Seq(S), Moving(fControlReq, MovingReq)
  PROVE  DriverOk
<1>1. ASSUME NEW r, DriverSends(r) PROVE DriverOk
  <2> DEFINE s == <<r>>
  <2>1. IsCommand(s)
    BY <1>1 DEF DriverSends, IsCommand
  <2>2. s # << >>
    OBVIOUS
  <2>3. DriverMoves(s, 0)
    <3>1. fControlReq' = Cat(Without(fControlReq, MovingReq), s)
      BY <1>1 DEF DriverSends
    <3> HIDE DEF s
    <3> QED
      BY <1>1, <2>1, <2>2, <3>1 DEF DriverSends, DriverMoves, Leave, Left
  <2> QED
    BY <2>3 DEF DriverOk
<1>2. Cat(Without(fControlReq, MovingReq), << >>) = Without(fControlReq, MovingReq)
  BY Moved, CatEmpty
<1>3. CASE DriverRests
  <2>1. DriverMoves(<< >>, 0)
    BY <1>2, <1>3 DEF DriverRests, DriverMoves, Leave, Left
  <2> QED
    BY <2>1 DEF DriverOk
<1>4. CASE DriverHears
  <2>1. DriverMoves(<< >>, 1)
    BY <1>2, <1>4 DEF DriverHears, DriverMoves, Leave, Left
  <2> QED
    BY <2>1 DEF DriverOk
<1> QED
  BY <1>1, <1>3, <1>4

(* How a path goes on when d entries leave it and e joins it.              *)
PathGoesOn(P, Q, d, e) ==
    /\ Len(P) \in Nat /\ Len(Q) \in Nat /\ Len(e) \in {0, 1}
    /\ Len(Q) = Len(P) - d + Len(e)
    /\ \A k \in 1 .. Len(P) - d : Q[k] = P[k + d]
    /\ Len(e) = 1 => Q[Len(Q)] = e[1]
    /\ (P = << >> <=> Len(P) = 0) /\ (Q = << >> <=> Len(Q) = 0) /\ (e = << >> <=> Len(e) = 0)

LEMMA EntryPath ==
  ASSUME NEW S, NEW f \in Seq(S), NEW g \in Seq(S), NEW m, Moving(g, m),
         NEW e, e = << >> \/ \E x : e = <<x>>, NEW d, Leave(f, d)
  PROVE  /\ PathGoesOn(Cat(f, g), Cat(Cat(Left(f, d), m), Cat(Without(g, m), e)), d, e)
         /\ Cat(Left(f, d), m) \in Seq(S)
         /\ Cat(Without(g, m), e) \in Seq(S \cup {e[1]})
<1> DEFINE R == S \cup {e[1]}
           P == Cat(f, g)
           Q == Cat(Cat(Left(f, d), m), Cat(Without(g, m), e))
<1>1. f \in Seq(R) /\ g \in Seq(R)
  BY SeqMonotonic
<1>2. e \in Seq(R) /\ Len(e) \in {0, 1} /\ (e = << >> <=> Len(e) = 0)
  <2>1. CASE e = << >>
    BY <2>1
  <2>2. ASSUME NEW x, e = <<x>>
        PROVE  e \in Seq(R) /\ Len(e) = 1 /\ e # << >>
    <3>1. e[1] \in R /\ e[1] = x
      BY <2>2
    <3> HIDE DEF R
    <3> QED
      BY <2>2, <3>1
  <2> QED
    BY <2>1, <2>2
<1> HIDE DEF R
<1>3. /\ Len(P) \in Nat /\ Len(Q) \in Nat
      /\ P \in Seq(R) /\ Q \in Seq(R)
      /\ Len(Q) = Len(P) - d + Len(e)
      /\ \A k \in 1 .. Len(P) - d : Q[k] = P[k + d]
      /\ Len(e) = 1 => Q[Len(Q)] = e[1]
  BY <1>1, <1>2, PathElements
<1> HIDE DEF P, Q
<1>4. (P = << >> <=> Len(P) = 0) /\ (Q = << >> <=> Len(Q) = 0)
  BY <1>3, EmptySeq
<1>5. PathGoesOn(P, Q, d, e)
  BY <1>2, <1>3, <1>4 DEF PathGoesOn
<1>6. Cat(Left(f, d), m) \in Seq(S)
  BY LeftFacts, Moved, CatType
<1>7. Cat(Without(g, m), e) \in Seq(R)
  BY <1>1, <1>2, Moved, CatType
<1> QED
  BY <1>5, <1>6, <1>7 DEF P, Q, R

LEMMA EdgePaths ==
  ASSUME NEW S, f_control_reqs \in Seq(S), fControlReq \in Seq(S), \A x \in S : x.op \in Commands,
         NEW T, fControlRsp \in Seq(T), f_control_rsps \in Seq(T),
         Moving(fControlReq, MovingReq), Moving(f_control_rsps, MovingRsp),
         NEW s, NEW h, DriverMoves(s, h), NEW d, NEW e, ControllerMoves(d, e)
  PROVE  /\ PathType' /\ f_control_reqs' \in Seq(S)
         /\ PathGoesOn(CommandPath, CommandPath', d, s)
         /\ PathGoesOn(AnswerPath, AnswerPath', h, e)
<1>1. (s = << >> \/ \E x : s = <<x>>) /\ (e = << >> \/ \E x : e = <<x>>)
  BY DEF DriverMoves, IsCommand, ControllerMoves, IsAnswer
<1>2. /\ Leave(fControlRsp, h) /\ Leave(f_control_reqs, d)
      /\ fControlReq' = Cat(Without(fControlReq, MovingReq), s)
      /\ fControlRsp' = Cat(Left(fControlRsp, h), MovingRsp)
      /\ f_control_reqs' = Cat(Left(f_control_reqs, d), MovingReq)
      /\ f_control_rsps' = Cat(Without(f_control_rsps, MovingRsp), e)
  BY DEF DriverMoves, ControllerMoves
<1>3. /\ CommandPath' = Cat(f_control_reqs', fControlReq')
      /\ AnswerPath' = Cat(fControlRsp', f_control_rsps')
  BY DEF CommandPath, AnswerPath
<1>4. /\ PathGoesOn(CommandPath, CommandPath', d, s)
      /\ f_control_reqs' \in Seq(S) /\ fControlReq' \in Seq(S \cup {s[1]})
  BY <1>1, <1>2, <1>3, EntryPath DEF CommandPath
<1>5. /\ PathGoesOn(AnswerPath, AnswerPath', h, e)
      /\ fControlRsp' \in Seq(T) /\ f_control_rsps' \in Seq(T \cup {e[1]})
  BY <1>1, <1>2, <1>3, EntryPath DEF AnswerPath
<1>6. PathType'
  <2>1. \E R : /\ \A r \in R : r.op \in Commands \/ (r.op = "shutdown" /\ state' = 23)
               /\ f_control_reqs' \in Seq(R) /\ fControlReq' \in Seq(R)
    <3>1. CASE s = << >>
      <4>1. fControlReq' = Without(fControlReq, MovingReq)
        BY <1>2, <3>1, Moved, CatEmpty
      <4>2. fControlReq' \in Seq(S)
        BY <4>1, Moved
      <4> QED
        BY <1>4, <4>2
    <3>2. CASE s # << >>
      <4>1. \A r \in S \cup {s[1]} : r.op \in Commands \/ (r.op = "shutdown" /\ state' = 23)
        BY <3>2 DEF DriverMoves, IsCommand
      <4>2. f_control_reqs' \in Seq(S \cup {s[1]})
        BY <1>4, SeqMonotonic
      <4> QED
        BY <1>4, <4>1, <4>2
    <3> QED
      BY <3>1, <3>2
  <2>2. \E R : fControlRsp' \in Seq(R) /\ f_control_rsps' \in Seq(R)
    <3>1. fControlRsp' \in Seq(T \cup {e[1]})
      BY <1>5, SeqMonotonic
    <3> QED
      BY <1>5, <3>1
  <2> QED
    BY <2>1, <2>2 DEF PathType
<1> QED
  BY <1>4, <1>5, <1>6

-----------------------------------------------------------------------------
(* The command at the head of the controller's FIFO is the first of all.   *)
LEMMA FirstCommand ==
  ASSUME NEW S, f_control_reqs \in Seq(S), fControlReq \in Seq(S)
  PROVE  /\ f_control_reqs # << >> => CommandPath # << >> /\ CommandPath[1] = Command
         /\ Len(CommandPath) \in Nat /\ (CommandPath = << >> <=> Len(CommandPath) = 0)
         /\ f_control_reqs # << >> /\ Len(CommandPath) = 1 => fControlReq = << >>
<1>1. f_control_reqs # << >> => CommandPath # << >> /\ CommandPath[1] = Command
  BY PathHead DEF CommandPath, Command
<1>2. CommandPath \in Seq(S) /\ Len(CommandPath) = Len(f_control_reqs) + Len(fControlReq)
  BY CatType DEF CommandPath
<1>3. Len(f_control_reqs) \in Nat /\ Len(fControlReq) \in Nat
      /\ (f_control_reqs = << >> <=> Len(f_control_reqs) = 0) /\ (fControlReq = << >> <=> Len(fControlReq) = 0)
  BY EmptySeq
<1> QED
  BY <1>1, <1>2, <1>3, EmptySeq

LEMMA EdgeKeepsFabric ==
  ASSUME FabricInv, SoCType, ControllerEdge, UNCHANGED soc,
         NEW S, f_control_reqs \in Seq(S), MovingReq \in Seq(S), f_control_reqs' \in Seq(S),
         \A x \in S : x.op \in Commands
  PROVE  FabricInv'
<1>1. ASSUME f_control_reqs # << >>, f_control_reqs' = f_control_reqs \o MovingReq
      PROVE  f_control_reqs' # << >> /\ Command' = Command
  BY <1>1, PathHead DEF Command, Cat
<1>2. ASSUME step' = 1, f_fabric_reqs' = << >>, f_fabric_rsps' = << >>, ~soc.runs
      PROVE  FabricInv'
  <2>1. CASE f_control_reqs' = << >>
    BY <1>2, <2>1 DEF FabricInv
  <2>2. CASE f_control_reqs' # << >>
    <3>1. Command'.op \in Commands
      BY <2>2 DEF Command
    <3>2. 1 \in 1 .. LastStep(Command'.op) /\ ~AwaitsFabric(Command'.op, 1)
      <4>1. 1 \in 1 .. LastStep(Command'.op)
        BY DEF LastStep
      <4> QED
        BY <3>1, <4>1, CommandSteps DEF StepFacts
    <3>3. FabricOk(Command'.op, 1, << >>, << >>, soc.runs)
      BY <1>2, <3>1, <3>2 DEF FabricOk
    <3> QED
      BY <1>2, <2>2, <3>3 DEF FabricInv, CountOk
  <2> QED
    BY <2>1, <2>2
<1> DEFINE op == Command.op
           k == step
<1>3. ASSUME f_control_reqs # << >>
      PROVE  /\ FabricOk(op, k, f_fabric_reqs, f_fabric_rsps, soc.runs)
             /\ op = "instret" => CountOk(k, f_fabric_rsps, rg_word, rg_word_h, soc.instret)
  BY <1>3 DEF FabricInv
<1>4. ASSUME NEW do, Now(do), do # "done", Advance,
             FabricOk(op, k + 1, f_fabric_reqs', f_fabric_rsps', soc.runs),
             op = "instret" => CountOk(k + 1, f_fabric_rsps', rg_word', rg_word_h', soc.instret)
      PROVE  FabricInv'
  <2>1. f_control_reqs # << >>
    BY <1>4 DEF Now
  <2>2. f_control_reqs' # << >> /\ Command' = Command /\ step' = k + 1
    BY <1>1, <1>4, <2>1 DEF Advance
  <2> QED
    BY <1>4, <2>2 DEF FabricInv
<1>5. ASSUME NEW do, Now(do), do # "done"
      PROVE  /\ f_control_reqs # << >> /\ op \in Commands /\ k \in 1 .. LastStep(op) /\ k < LastStep(op)
             /\ k + 1 \in 1 .. LastStep(op) /\ Doing(op, k) = do
             /\ StepFacts(op, k) /\ RequestFacts(op, k)
  <2>1. /\ f_control_reqs # << >> /\ op \in Commands /\ k \in 1 .. LastStep(op) /\ Doing(op, k) = do
        /\ StepFacts(op, k) /\ RequestFacts(op, k)
    BY <1>5, NowIs
  <2> QED
    BY <1>5, <2>1 DEF StepFacts, LastStep
<1> HIDE DEF op, k
<1>6. CASE fabric_request
  <2>1. Now("request") /\ Advance /\ f_fabric_reqs' = Append(f_fabric_reqs, Request)
        /\ UNCHANGED <<f_fabric_rsps, rg_word, rg_word_h>>
    BY <1>6 DEF fabric_request
  <2>2. /\ f_control_reqs # << >> /\ op \in Commands /\ k \in 1 .. LastStep(op) /\ k < LastStep(op)
        /\ k + 1 \in 1 .. LastStep(op) /\ Doing(op, k) = "request"
        /\ StepFacts(op, k) /\ RequestFacts(op, k)
    BY <1>5, <2>1
  <2>3. AwaitsFabric(op, k + 1) /\ ~AwaitsFabric(op, k)
    BY <2>2 DEF StepFacts, AwaitsFabric
  <2>4. f_fabric_reqs = << >> /\ f_fabric_rsps = << >> /\ FabricOk(op, k, << >>, << >>, soc.runs)
    BY <1>3, <2>2, <2>3 DEF FabricOk
  <2>5. Request.op = Steps[op][k].op /\ Request.at = Steps[op][k].at
    BY DEF Request, op, k
  <2>6. f_fabric_reqs' = <<Request>> /\ f_fabric_rsps' = << >>
    BY <2>1, <2>4
  <2>7. soc.runs => op = "run" /\ k = 3
    BY <2>2, <2>4 DEF FabricOk, StepFacts
  <2>8. FabricOk(op, k + 1, f_fabric_reqs', f_fabric_rsps', soc.runs)
    BY <2>2, <2>3, <2>5, <2>6, <2>7 DEF FabricOk
  <2>9. op = "instret" => CountOk(k + 1, f_fabric_rsps', rg_word', rg_word_h', soc.instret)
    BY <1>3, <2>1, <2>2, <2>6 DEF CountOk, StepFacts
  <2> QED
    BY <1>4, <2>1, <2>8, <2>9
<1>7. CASE fabric_response
  <2>1. PICK do \in {"word", "acknowledged"} : Now(do)
    BY <1>7 DEF fabric_response
  <2>2. /\ Advance /\ f_fabric_rsps # << >> /\ f_fabric_rsps' = Tail(f_fabric_rsps)
        /\ rg_word' = (IF Now("word") THEN Head(f_fabric_rsps) ELSE rg_word)
        /\ UNCHANGED <<f_fabric_reqs, rg_word_h>>
    BY <1>7 DEF fabric_response
  <2>3. /\ f_control_reqs # << >> /\ op \in Commands /\ k \in 1 .. LastStep(op) /\ k < LastStep(op)
        /\ k + 1 \in 1 .. LastStep(op) /\ Doing(op, k) = do
        /\ StepFacts(op, k) /\ RequestFacts(op, k)
    BY <1>5, <2>1
  <2>4. ~AwaitsFabric(op, k + 1) /\ AwaitsFabric(op, k)
    BY <2>1, <2>3 DEF StepFacts, AwaitsFabric
  <2>5. f_fabric_reqs = << >> /\ \E v : f_fabric_rsps = <<v>>
    BY <1>3, <2>2, <2>3, <2>4 DEF FabricOk
  <2>6. f_fabric_reqs' = << >> /\ f_fabric_rsps' = << >>
    BY <2>2, <2>5
  <2>7. soc.runs => op = "run" /\ k = 2
    BY <1>3, <2>1, <2>3, <2>5 DEF FabricOk, StepFacts
  <2>8. FabricOk(op, k + 1, f_fabric_reqs', f_fabric_rsps', soc.runs)
    BY <2>3, <2>4, <2>6, <2>7 DEF FabricOk
  <2>9. ASSUME op = "instret" PROVE CountOk(k + 1, f_fabric_rsps', rg_word', rg_word_h', soc.instret)
    <3>1. k \in {2, 5} /\ Now("word")
      BY <2>1, <2>3, <2>9 DEF StepFacts
    <3>2. CountOk(k, f_fabric_rsps, rg_word, rg_word_h, soc.instret)
      BY <1>3, <2>3, <2>9
    <3> QED
      BY <2>2, <2>6, <3>1, <3>2 DEF CountOk
  <2> QED
    BY <1>4, <2>1, <2>2, <2>8, <2>9
<1>8. ASSUME NEW do, Now(do), do \notin {"done", "request", "word", "acknowledged"}, Advance,
             UNCHANGED <<f_fabric_reqs, f_fabric_rsps, rg_word>>,
             rg_word_h' = IF do = "high" THEN rg_word ELSE rg_word_h
      PROVE  FabricInv'
  <2>1. /\ f_control_reqs # << >> /\ op \in Commands /\ k \in 1 .. LastStep(op) /\ k < LastStep(op)
        /\ k + 1 \in 1 .. LastStep(op) /\ Doing(op, k) = do
        /\ StepFacts(op, k) /\ RequestFacts(op, k)
    BY <1>5, <1>8
  <2>2. ~AwaitsFabric(op, k + 1) /\ ~AwaitsFabric(op, k)
    BY <1>8, <2>1 DEF StepFacts, AwaitsFabric
  <2>3. f_fabric_reqs' = << >> /\ f_fabric_rsps' = << >> /\ f_fabric_rsps = << >> /\ ~soc.runs
    BY <1>3, <1>8, <2>1, <2>2 DEF FabricOk, StepFacts
  <2>4. FabricOk(op, k + 1, f_fabric_reqs', f_fabric_rsps', soc.runs)
    BY <2>1, <2>2, <2>3 DEF FabricOk
  <2>5. ASSUME op = "instret" PROVE CountOk(k + 1, f_fabric_rsps', rg_word', rg_word_h', soc.instret)
    <3>1. CountOk(k, f_fabric_rsps, rg_word, rg_word_h, soc.instret) /\ k \in {3, 6} /\ (k = 3 <=> do = "high")
      BY <1>3, <1>8, <2>1, <2>5 DEF StepFacts, LastStep
    <3> QED
      BY <1>8, <2>3, <3>1 DEF CountOk
  <2> QED
    BY <1>4, <1>8, <2>4, <2>5
<1>9. CASE keep_high
  BY <1>8, <1>9 DEF keep_high
<1>10. CASE reply
  BY <1>8, <1>10 DEF reply
<1>11. CASE ask_reset
  BY <1>8, <1>11 DEF ask_reset
<1>12. CASE await_reset
  BY <1>8, <1>12 DEF await_reset
<1>13. CASE note
  BY <1>8, <1>13 DEF note
<1>14. CASE done
  <2>1. Now("done") /\ step' = 1 /\ UNCHANGED <<f_fabric_reqs, f_fabric_rsps>>
    BY <1>14 DEF done
  <2>2. /\ f_control_reqs # << >> /\ op \in Commands /\ k \in 1 .. LastStep(op) /\ Doing(op, k) = "done"
        /\ StepFacts(op, k)
    BY <2>1, NowIs DEF op, k
  <2>3. ~AwaitsFabric(op, k) /\ k = LastStep(op)
    BY <2>2 DEF StepFacts, AwaitsFabric
  <2>4. f_fabric_reqs = << >> /\ f_fabric_rsps = << >> /\ ~soc.runs
    BY <1>3, <2>2, <2>3 DEF FabricOk, LastStep
  <2> QED
    BY <1>2, <2>1, <2>4
<1>15. CASE /\ Blocked /\ f_control_reqs' = f_control_reqs \o MovingReq
            /\ UNCHANGED <<f_fabric_reqs, f_fabric_rsps, step, rg_word, rg_word_h, f_reset>>
  <2>1. CASE f_control_reqs = << >>
    BY <1>2, <1>15, <2>1 DEF FabricInv
  <2>2. CASE f_control_reqs # << >>
    <3>1. f_control_reqs' # << >> /\ Command' = Command
      BY <1>1, <1>15, <2>2
    <3> QED
      BY <1>15, <2>2, <3>1 DEF FabricInv
  <2> QED
    BY <2>1, <2>2
<1> QED
  BY <1>6, <1>7, <1>9, <1>10, <1>11, <1>12, <1>13, <1>14, <1>15 DEF ControllerEdge, Fires

(* The command that resets the SoC does not end before the SoC has.        *)
LEMMA ResetWaits ==
  ASSUME FabricInv, ControllerEdge, f_reset # "answered"
  PROVE  /\ f_reset' # "answered"
         /\ f_control_reqs # << >> /\ Command.op = "reset" /\ step = 2 => step' = step
<1>1. f_reset' # "answered"
  BY DEF ControllerEdge, Fires, fabric_request, fabric_response, keep_high, reply, ask_reset,
         await_reset, note, done
<1>2. ASSUME f_control_reqs # << >>, Command.op = "reset", step = 2
      PROVE  step' = step
  <2>1. ASSUME NEW do, Now(do) PROVE do = "await_reset"
    BY <1>2, <2>1, NowIs DEF StepFacts
  <2> QED
    BY <2>1 DEF ControllerEdge, Fires, fabric_request, fabric_response, keep_high, reply,
                ask_reset, await_reset, note, done
<1> QED
  BY <1>1, <1>2

LEMMA EdgeKeepsReset ==
  ASSUME FabricInv, ResetInv, ControllerEdge, UNCHANGED soc,
         NEW S, f_control_reqs \in Seq(S), fControlReq \in Seq(S),
         NEW s, NEW h, DriverMoves(s, h), NEW d, NEW e, ControllerMoves(d, e),
         PathGoesOn(CommandPath, CommandPath', d, s)
  PROVE  ResetInv'
<1> DEFINE P == CommandPath
           Q == CommandPath'
<1>1. SUFFICES ASSUME ~soc.up
               PROVE  /\ f_reset' # "answered"
                      /\ Q = << >> => state' = 0
                      /\ Q # << >> => Q[1].op = "reset" /\ step' \in {1, 2}
  BY DEF ResetInv
<1>2. /\ f_reset # "answered"
      /\ P = << >> => state = 0
      /\ P # << >> => P[1].op = "reset" /\ step \in {1, 2}
  BY <1>1 DEF ResetInv
<1>3. /\ Len(P) \in Nat /\ Len(Q) \in Nat /\ Len(s) \in {0, 1}
      /\ Len(Q) = Len(P) - d + Len(s)
      /\ \A k \in 1 .. Len(P) - d : Q[k] = P[k + d]
      /\ Len(s) = 1 => Q[Len(Q)] = s[1]
      /\ (P = << >> <=> Len(P) = 0) /\ (Q = << >> <=> Len(Q) = 0) /\ (s = << >> <=> Len(s) = 0)
  BY DEF PathGoesOn
<1>4. f_control_reqs # << >> => P # << >> /\ P[1] = Command
  BY FirstCommand
<1> HIDE DEF P, Q
<1>5. d = 0
  <2>1. ASSUME d = 1 PROVE FALSE
    <3>1. f_control_reqs # << >> /\ step = LastStep(Command.op)
      BY <2>1 DEF ControllerMoves, Leave
    <3> QED
      BY <1>2, <1>4, <3>1 DEF LastStep
  <2> QED
    BY <2>1 DEF ControllerMoves, Leave
<1>6. step' = step \/ (f_control_reqs # << >> /\ step' = step + 1)
  BY <1>5 DEF ControllerMoves
<1>7. CASE P = << >>
  <2>1. state = 0 /\ step' = 1
    BY <1>2, <1>4, <1>6, <1>7 DEF FabricInv
  <2>2. h = 0
    BY <2>1 DEF DriverMoves, Leave, Waiting
  <2>3. CASE s = << >>
    BY <1>2, <1>3, <1>5, <1>7, <2>1, <2>2, <2>3, ResetWaits DEF DriverMoves
  <2>4. CASE s # << >>
    <3>1. Len(s) = 1 /\ s[1].op = "reset"
      BY <1>3, <2>1, <2>4 DEF DriverMoves, IsCommand
    <3>2. Q # << >> /\ Q[1] = s[1]
      BY <1>3, <1>5, <1>7, <3>1
    <3> QED
      BY <1>2, <2>1, <3>1, <3>2, ResetWaits
  <2> QED
    BY <2>3, <2>4
<1>8. CASE P # << >>
  <2>1. Q # << >> /\ Q[1] = P[1]
    BY <1>3, <1>5, <1>8
  <2>2. step' \in {1, 2}
    BY <1>2, <1>4, <1>6, <1>8, ResetWaits
  <2> QED
    BY <1>2, <1>8, <2>1, <2>2, ResetWaits
<1> QED
  BY <1>7, <1>8

(* A question is open until its answer has been sent.                      *)
LEMMA EdgeKeepsAnswers ==
  ASSUME FabricInv, AskInv, AnsInv, UNCHANGED soc,
         NEW S, f_control_reqs \in Seq(S), fControlReq \in Seq(S), Moving(fControlReq, MovingReq),
         NEW s, NEW h, DriverMoves(s, h), NEW d, NEW e, ControllerMoves(d, e),
         PathGoesOn(CommandPath, CommandPath', d, s), PathGoesOn(AnswerPath, AnswerPath', h, e)
  PROVE  AskInv' /\ AnsInv'
<1> DEFINE P == CommandPath
           Q == CommandPath'
           A == AnswerPath
           B == AnswerPath'
           Open(k) == P[k].op \in Asking /\ (k = 1 => step <= ReplyStep(P[1].op))
<1>1. /\ Len(P) \in Nat /\ Len(Q) \in Nat /\ Len(s) \in {0, 1}
      /\ Len(Q) = Len(P) - d + Len(s)
      /\ \A k \in 1 .. Len(P) - d : Q[k] = P[k + d]
      /\ Len(s) = 1 => Q[Len(Q)] = s[1]
      /\ (P = << >> <=> Len(P) = 0) /\ (Q = << >> <=> Len(Q) = 0) /\ (s = << >> <=> Len(s) = 0)
  BY DEF PathGoesOn
<1>2. /\ Len(A) \in Nat /\ Len(B) \in Nat /\ Len(e) \in {0, 1}
      /\ Len(B) = Len(A) - h + Len(e)
      /\ \A k \in 1 .. Len(A) - h : B[k] = A[k + h]
      /\ Len(e) = 1 => B[Len(B)] = e[1]
      /\ (A = << >> <=> Len(A) = 0) /\ (B = << >> <=> Len(B) = 0) /\ (e = << >> <=> Len(e) = 0)
  BY DEF PathGoesOn
<1>17. /\ Len(P) \in Nat /\ Len(Q) \in Nat /\ Len(s) \in {0, 1} /\ Len(Q) = Len(P) - d + Len(s)
  BY <1>1
<1>19. s = << >> <=> Len(s) = 0
  BY <1>1
<1>18. /\ Len(A) \in Nat /\ Len(B) \in Nat /\ Len(e) \in {0, 1} /\ Len(B) = Len(A) - h + Len(e)
       /\ (A = << >> <=> Len(A) = 0) /\ (B = << >> <=> Len(B) = 0) /\ (e = << >> <=> Len(e) = 0)
  BY <1>2
<1>3. \A k \in 1 .. Len(P) : Open(k) =>
         k = Len(P) /\ Waiting /\ Asked[state - 1] = P[k].op /\ A = << >>
  BY DEF AskInv
<1>4. A # << >> => /\ Waiting /\ Asked[state - 1] = A[1].op
                   /\ Len(A) = 1 /\ fControlReq = << >>
                   /\ A[1].op = "instret" => A[1].n = soc.instret
  BY DEF AnsInv
<1>5. f_control_reqs # << >> => P # << >> /\ P[1] = Command
  BY FirstCommand
<1>6. f_control_reqs # << >> /\ Len(P) = 1 => fControlReq = << >>
  BY FirstCommand
<1>7. SUFFICES /\ \A k \in 1 .. Len(Q) :
                     Q[k].op \in Asking /\ (k = 1 => step' <= ReplyStep(Q[1].op)) =>
                       k = Len(Q) /\ Waiting' /\ Asked[state' - 1] = Q[k].op /\ B = << >>
               /\ B # << >> => /\ Waiting' /\ Asked[state' - 1] = B[1].op
                               /\ Len(B) = 1 /\ fControlReq' = << >>
                               /\ B[1].op = "instret" => B[1].n = soc.instret
  BY DEF AskInv, AnsInv
<1> HIDE DEF P, Q, A, B
<1>8. /\ d \in {0, 1} /\ h \in {0, 1}
      /\ d = 1 => f_control_reqs # << >> /\ step = LastStep(Command.op) /\ step' = 1
      /\ d = 0 => step' = step \/ (f_control_reqs # << >> /\ step' = step + 1)
      /\ h = 1 => Waiting
      /\ s # << >> => ~Waiting
      /\ s = << >> /\ h = 0 /\ Waiting => state' = state
  BY DEF ControllerMoves, DriverMoves, Leave
<1>9. h = 1 => A # << >>
  <2>1. h = 1 => fControlRsp # << >>
    BY DEF DriverMoves, Leave
  <2> QED
    BY <2>1 DEF A, AnswerPath, Cat
<1>10. e # << >> => /\ IsAnswer(e) /\ f_control_reqs # << >> /\ d = 0
                    /\ Command.op \in Asking /\ step = ReplyStep(Command.op) /\ step' = step + 1
  BY DEF ControllerMoves
<1>11. f_control_reqs # << >> => step \in 1 .. LastStep(Command.op) /\ Command.op \in Commands
  BY DEF FabricInv, FabricOk
<1>12. f_control_reqs = << >> => step = 1
  BY DEF FabricInv
<1>13. \A op \in Asking : ReplyStep(op) \in {5, 6} /\ LastStep(op) = 7
  BY DEF Asking, ReplyStep, LastStep
(* A response answers the question that is open.                           *)
<1>14. ASSUME e # << >>
       PROVE  Len(P) = 1 /\ Waiting /\ Asked[state - 1] = Command.op /\ A = << >> /\ h = 0 /\ s = << >>
              /\ fControlReq = << >>
  <2>1. f_control_reqs # << >> /\ P # << >> /\ P[1] = Command /\ Open(1)
    BY <1>5, <1>10, <1>13, <1>14
  <2>2. 1 \in 1 .. Len(P)
    BY <1>1, <2>1
  <2>3. 1 = Len(P) /\ Waiting /\ Asked[state - 1] = P[1].op /\ A = << >>
    BY <1>3, <2>1, <2>2
  <2> QED
    BY <1>6, <1>8, <1>9, <2>1, <2>3
(* A question that is open after the edge was open before, or is new.      *)
<1>15. ASSUME NEW k \in 1 .. Len(Q), Q[k].op \in Asking, k = 1 => step' <= ReplyStep(Q[1].op)
       PROVE  k = Len(Q) /\ Waiting' /\ Asked[state' - 1] = Q[k].op /\ B = << >>
  <2>1. CASE k \in 1 .. Len(P) - d
    <3>1. PICK j \in 1 .. Len(P) : j = k + d
      BY <1>1, <1>8, <2>1
    <3>2. Q[k] = P[j]
      BY <1>1, <2>1, <3>1
    <3>3. Open(j)
      <4>1. j = 1 => k = 1 /\ d = 0
        BY <1>8, <3>1
      <4>2. j = 1 => step <= step' /\ Q[1] = P[1]
        <5>1. step \in Int
          BY <1>11, <1>12 DEF LastStep
        <5> QED
          BY <1>8, <3>1, <3>2, <4>1, <5>1
      <4>3. step \in Int /\ step' \in Int
        BY <1>8, <1>11, <1>12 DEF LastStep
      <4>4. j = 1 => ReplyStep(P[1].op) \in {5, 6}
        BY <1>13, <1>15, <3>2
      <4>5. j = 1 => step <= ReplyStep(P[1].op)
        BY <1>15, <4>1, <4>2, <4>3, <4>4
      <4> QED
        BY <1>15, <3>2, <4>5
    <3>4. j = Len(P) /\ Waiting /\ Asked[state - 1] = P[j].op /\ A = << >>
      BY <1>3, <3>3
    <3>5. s = << >> /\ h = 0 /\ state' = state
      BY <1>8, <1>9, <3>4
    <3>6. e = << >>
      <4>1. SUFFICES ASSUME e # << >> PROVE FALSE
        OBVIOUS
      <4>2. Len(P) = 1 /\ d = 0 /\ step = ReplyStep(Command.op) /\ step' = step + 1 /\ P[1] = Command
        BY <1>5, <1>10, <1>14, <4>1
      <4>3. k = 1 /\ Q[1] = Command
        BY <3>1, <3>2, <3>4, <4>2
      <4>4. Command.op \in Asking
        BY <1>10, <4>1
      <4> QED
        BY <1>13, <1>15, <4>2, <4>3, <4>4
    <3>7. k = Len(Q) /\ B = << >>
      <4>1. Len(s) = 0 /\ Len(A) = 0 /\ Len(e) = 0
        BY <1>18, <1>19, <3>4, <3>5, <3>6
      <4> QED
        BY <1>8, <1>17, <1>18, <3>1, <3>4, <3>5, <4>1
    <3>8. Waiting'
      BY <3>4, <3>5 DEF Waiting
    <3> QED
      BY <3>2, <3>4, <3>5, <3>7, <3>8
  <2>2. CASE k \notin 1 .. Len(P) - d
    <3>1. Len(s) = 1 /\ k = Len(Q) /\ Q[k] = s[1] /\ s # << >>
      <4>1. Len(s) = 1 /\ k = Len(Q)
        <5>1. d \in Int
          BY <1>8
        <5> DEFINE p == Len(P)
                   q == Len(Q)
                   n == Len(s)
        <5>2. /\ p \in Nat /\ q \in Nat /\ n \in {0, 1} /\ q = p - d + n
              /\ k \in 1 .. q /\ k \notin 1 .. p - d
          BY <1>17, <2>2
        <5> HIDE DEF p, q, n
        <5>3. n = 1 /\ k = q
          BY <5>1, <5>2
        <5> QED
          BY <5>3 DEF q, n
      <4>2. Q[Len(Q)] = s[1]
        BY <1>1, <4>1
      <4>3. s # << >>
        BY <1>19, <4>1
      <4> QED
        BY <4>1, <4>2, <4>3
    <3>2. ~Waiting /\ IsCommand(s)
      BY <3>1 DEF DriverMoves
    <3>3. Waiting' /\ Asked[state' - 1] = s[1].op
      BY <1>15, <3>1, <3>2 DEF IsCommand
    <3>4. A = << >> /\ h = 0 /\ e = << >>
      BY <1>4, <1>8, <1>14, <3>2
    <3>5. B = << >>
      BY <1>18, <3>4
    <3> QED
      BY <3>1, <3>3, <3>5
  <2> QED
    BY <2>1, <2>2
(* The answer after the edge has just been sent, or is not read yet.       *)
<1>16. ASSUME B # << >>
       PROVE  /\ Waiting' /\ Asked[state' - 1] = B[1].op
              /\ Len(B) = 1 /\ fControlReq' = << >>
              /\ B[1].op = "instret" => B[1].n = soc.instret
  <2>1. CASE e # << >>
    <3>1. Len(P) = 1 /\ Waiting /\ Asked[state - 1] = Command.op /\ A = << >> /\ h = 0 /\ s = << >>
          /\ fControlReq = << >>
      BY <1>14, <2>1
    <3>2. Len(B) = 1 /\ B[1] = e[1]
      <4>1. Len(A) = 0 /\ Len(e) = 1
        BY <1>18, <2>1, <3>1
      <4>2. Len(B) = 1
        BY <1>18, <3>1, <4>1
      <4> QED
        BY <1>2, <4>1, <4>2
    <3>3. e[1].op = Command.op /\ (Command.op = "instret" => e[1].n = soc.instret)
      BY <1>10, <2>1 DEF IsAnswer
    <3>4. state' = state /\ Waiting'
      BY <1>8, <3>1 DEF Waiting
    <3>5. fControlReq' = << >>
      BY <3>1, Moved DEF DriverMoves, Cat, MovingReq, Without
    <3> QED
      BY <3>1, <3>2, <3>3, <3>4, <3>5
  <2>2. CASE e = << >>
    <3>1. A # << >>
      BY <1>2, <1>8, <1>16, <2>2
    <3>2. h = 0 /\ Len(A) = 1
      BY <1>4, <1>8, <1>16, <1>18, <2>2, <3>1
    <3>3. Waiting /\ s = << >> /\ state' = state /\ fControlReq = << >>
      BY <1>4, <1>8, <3>1, <3>2
    <3>4. Len(B) = 1 /\ B[1] = A[1]
      BY <1>2, <2>2, <3>2
    <3>5. fControlReq' = << >> /\ Waiting'
      BY <3>3, Moved DEF DriverMoves, Cat, MovingReq, Without, Waiting
    <3> QED
      BY <1>4, <3>1, <3>3, <3>4, <3>5
  <2> QED
    BY <2>1, <2>2
<1> QED
  BY <1>15, <1>16

-----------------------------------------------------------------------------
(* An edge of the clock after the reset: the driver, the controller and    *)
(* what moves between them, in one step.                                   *)
LEMMA MovingFacts == Moving(fControlReq, MovingReq) /\ Moving(f_control_rsps, MovingRsp)
<1>1. Moving(fControlReq, MovingReq)
  <2>1. CASE fControlReq # << >> /\ Len(f_control_reqs) < Slots
    BY <2>1 DEF Moving, MovingReq
  <2>2. CASE ~(fControlReq # << >> /\ Len(f_control_reqs) < Slots)
    <3>1. MovingReq = << >>
      BY <2>2 DEF MovingReq
    <3> QED
      BY <3>1 DEF Moving
  <2> QED
    BY <2>1, <2>2
<1>2. Moving(f_control_rsps, MovingRsp)
  <2>1. CASE f_control_rsps # << >> /\ Len(fControlRsp) < Slots
    BY <2>1 DEF Moving, MovingRsp
  <2>2. CASE ~(f_control_rsps # << >> /\ Len(fControlRsp) < Slots)
    <3>1. MovingRsp = << >>
      BY <2>2 DEF MovingRsp
    <3> QED
      BY <3>1 DEF Moving
  <2> QED
    BY <2>1, <2>2
<1> QED
  BY <1>1, <1>2

LEMMA EdgeKeeps ==
  ASSUME CoreInv, SoCType, state # 23, FSM, ControllerEdge, UNCHANGED soc
  PROVE  /\ state' \in 0 .. 23 /\ (state' # 0 \/ start_reg' => running')
         /\ PathType' /\ FabricInv' /\ ResetInv' /\ AskInv' /\ AnsInv'
<1>1. StateInv /\ PathType /\ FabricInv /\ ResetInv /\ AskInv /\ AnsInv
  BY DEF CoreInv
<1>2. PICK S : /\ \A r \in S : r.op \in Commands
               /\ f_control_reqs \in Seq(S) /\ fControlReq \in Seq(S)
  BY <1>1 DEF PathType
<1>3. PICK T : fControlRsp \in Seq(T) /\ f_control_rsps \in Seq(T)
  BY <1>1 DEF PathType
<1>4. /\ (\E r : DriverSends(r)) \/ DriverRests \/ DriverHears
      /\ state' \in 0 .. 23 /\ (state' # 0 \/ start_reg' => running')
  BY <1>1, <1>2, MovingFacts, DriverSteps
<1>5. DriverOk
  BY <1>2, <1>4, MovingFacts, DriverPaths
<1>6. PICK s, h : DriverMoves(s, h)
  BY <1>5 DEF DriverOk
<1>7. ControllerOk
  BY <1>1, <1>3, MovingFacts, ControllerSteps
<1>8. PICK d, e : ControllerMoves(d, e)
  BY <1>7 DEF ControllerOk
<1>9. /\ PathType' /\ f_control_reqs' \in Seq(S)
      /\ PathGoesOn(CommandPath, CommandPath', d, s)
      /\ PathGoesOn(AnswerPath, AnswerPath', h, e)
  BY <1>2, <1>3, <1>6, <1>8, MovingFacts, EdgePaths
<1>10. MovingReq \in Seq(S)
  BY <1>2, MovingFacts, Moved
<1>11. FabricInv'
  BY <1>1, <1>2, <1>9, <1>10, EdgeKeepsFabric
<1>12. ResetInv'
  BY <1>1, <1>2, <1>6, <1>8, <1>9, EdgeKeepsReset
<1>13. AskInv' /\ AnsInv'
  BY <1>1, <1>2, <1>6, <1>8, <1>9, MovingFacts, EdgeKeepsAnswers
<1> QED
  BY <1>4, <1>9, <1>11, <1>12, <1>13

(* The edge with reset leaves all FIFOs empty and the SoC not yet reset.   *)
LEMMA ResetEdgeStarts ==
  ASSUME ResetEdge, RST_N' = 0, UNCHANGED soc, ~soc.up, ~soc.runs
  PROVE  CoreInv'
<1>1. /\ state' = 0 /\ running' = FALSE /\ start_reg' = FALSE /\ step' = 1
      /\ fControlReq' = << >> /\ fControlRsp' = << >>
      /\ f_control_reqs' = << >> /\ f_control_rsps' = << >>
      /\ f_fabric_reqs' = << >> /\ f_fabric_rsps' = << >> /\ f_reset' = "none"
  BY DEF ResetEdge, ControllerReset
<1>2. CommandPath' = << >> /\ AnswerPath' = << >>
  BY <1>1 DEF CommandPath, AnswerPath, Cat
<1>3. StateInv'
  BY <1>1 DEF StateInv
<1>4. PathType'
  <2>1. \A S : << >> \in Seq(S)
    OBVIOUS
  <2>2. \E S : /\ \A r \in S : r.op \in Commands \/ (r.op = "shutdown" /\ state' = 23)
               /\ f_control_reqs' \in Seq(S) /\ fControlReq' \in Seq(S)
    <3> WITNESS {}
    <3> QED
      BY <1>1, <2>1
  <2> QED
    BY <1>1, <2>1, <2>2 DEF PathType
<1>5. FabricInv'
  BY <1>1 DEF FabricInv
<1>6. ResetInv'
  BY <1>1, <1>2 DEF ResetInv
<1>7. AskInv'
  BY <1>2 DEF AskInv
<1>8. AnsInv'
  BY <1>2 DEF AnsInv
<1> QED
  BY <1>3, <1>4, <1>5, <1>6, <1>7, <1>8 DEF CoreInv

-----------------------------------------------------------------------------
LEMMA LaterFacts ==
  /\ main_time = 0 => Later = 1
  /\ main_time = 1 => Later = 6
  /\ main_time = 6 => Later = 11
  /\ main_time = 11 => Later = 16
  /\ main_time = 16 => Later = 11
<1>1. ASSUME NEW n \in Times, NEW t \in Times, main_time = n, n # 16,
             t > n, \A u \in Times : u > n => t <= u
      PROVE  Later = t
  <2> DEFINE OK(x) == x > main_time /\ \A u \in Times : u > main_time => x <= u
  <2>1. t \in Times /\ OK(t)
    BY <1>1
  <2>2. \A x \in Times : OK(x) => x = t
    BY <1>1 DEF Times
  <2>3. (CHOOSE x \in Times : OK(x)) = t
    <3> HIDE DEF OK
    <3> QED
      BY <2>1, <2>2
  <2> QED
    BY <1>1, <2>3 DEF Later, LastTime
<1> QED
  BY <1>1 DEF Times, Later, LastTime

LEMMA MainKeeps ==
  ASSUME SimInv, main
  PROVE  SimInv'
<1>1. /\ ClockInv /\ SoCType
      /\ main_time \in {0, 1} => BeforeReset
      /\ main_time \notin {0, 1} => CoreInv
  BY DEF SimInv
<1>2. /\ ~gotFinish
      /\ RST_N' = (IF main_time > 10 THEN 1 ELSE RST_N)
      /\ CLK' = (CASE main_time % 10 = 1 -> 1 [] main_time % 10 = 6 -> 0 [] OTHER -> CLK)
      /\ main_time' = Later
      /\ gotFinish' = (CLK' = 0 /\ auto_finish)
      /\ CLK = 0 /\ CLK' = 1 =>
           IF RST_N' = 0 THEN ResetEdge ELSE FSM /\ ConsoleEdge /\ ControllerEdge
      /\ ~(CLK = 0 /\ CLK' = 1) =>
           UNCHANGED <<fsmVars, fControlReq, fControlRsp, consoleVars, controlVars, uart>>
      /\ UNCHANGED soc
  BY DEF main, Deasserted
<1>3. SoCType'
  BY <1>1, <1>2 DEF SoCType
<1>4. main_time \in {0, 1, 6, 11, 16}
  BY <1>1 DEF ClockInv, Times
<1>5. ASSUME UNCHANGED <<fsmVars, fControlReq, fControlRsp, controlVars>>
      PROVE  /\ UNCHANGED <<state, running, start_reg>>
             /\ UNCHANGED <<fControlReq, fControlRsp>>
             /\ UNCHANGED <<f_control_reqs, f_control_rsps, f_fabric_reqs, f_fabric_rsps, step>>
             /\ UNCHANGED <<rg_word, rg_word_h, f_reset>>
  BY <1>5 DEF fsmVars, controlVars
<1>6. ASSUME CoreInv, UNCHANGED <<fsmVars, fControlReq, fControlRsp, controlVars>>
      PROVE  /\ PathType' /\ FabricInv' /\ ResetInv' /\ AskInv' /\ AnsInv'
             /\ state' \in 0 .. 23 /\ (state' # 0 \/ start_reg' => running')
  <2>1. CommandPath' = CommandPath /\ AnswerPath' = AnswerPath
    BY <1>5, <1>6 DEF CommandPath, AnswerPath
  <2>2. PathType'
    BY <1>5, <1>6 DEF CoreInv, PathType
  <2>3. FabricInv'
    BY <1>2, <1>5, <1>6 DEF CoreInv, FabricInv, Command
  <2>4. ResetInv'
    BY <1>2, <1>5, <1>6, <2>1 DEF CoreInv, ResetInv
  <2>5. AskInv' /\ AnsInv'
    BY <1>2, <1>5, <1>6, <2>1 DEF CoreInv, AskInv, AnsInv, Waiting
  <2> QED
    BY <1>5, <1>6, <2>2, <2>3, <2>4, <2>5 DEF CoreInv, StateInv
<1>7. CASE main_time = 0
  <2>1. CLK = 0 /\ RST_N = 0 /\ main_time' = 1 /\ RST_N' = 0 /\ CLK' = 0
    BY <1>1, <1>2, <1>7, LaterFacts DEF ClockInv
  <2>2. UNCHANGED <<f_fabric_reqs, fControlRsp, f_control_rsps>>
    BY <1>2, <2>1 DEF controlVars
  <2>3. ClockInv'
    BY <2>1 DEF ClockInv, Times
  <2> QED
    BY <1>1, <1>2, <1>3, <1>7, <2>1, <2>2, <2>3 DEF SimInv, BeforeReset
<1>8. CASE main_time = 1
  <2>1. CLK = 0 /\ RST_N = 0 /\ main_time' = 6 /\ RST_N' = 0 /\ CLK' = 1
    BY <1>1, <1>2, <1>8, LaterFacts DEF ClockInv
  <2>2. ClockInv'
    BY <2>1 DEF ClockInv, Times
  <2>3. ResetEdge /\ ~soc.up /\ ~soc.runs
    BY <1>1, <1>2, <1>8, <2>1 DEF BeforeReset
  <2>4. CoreInv'
    BY <1>2, <2>1, <2>3, ResetEdgeStarts
  <2> QED
    BY <1>3, <2>1, <2>2, <2>4 DEF SimInv
<1>9. CASE main_time \in {6, 16}
  <2>1. CLK = 1 /\ main_time' = 11 /\ CLK' = 0
    BY <1>1, <1>2, <1>9, LaterFacts DEF ClockInv
  <2>2. CoreInv /\ UNCHANGED <<fsmVars, fControlReq, fControlRsp, controlVars>>
    BY <1>1, <1>2, <1>9, <2>1
  <2>3. /\ PathType' /\ FabricInv' /\ ResetInv' /\ AskInv' /\ AnsInv'
        /\ state' \in 0 .. 23 /\ (state' # 0 \/ start_reg' => running')
    BY <1>6, <2>2
  <2>4. StateInv /\ state' = state
    BY <1>5, <2>2 DEF CoreInv
  <2>5. StateInv'
    <3>1. state = 23 => gotFinish'
      <4>1. SUFFICES ASSUME state = 23 PROVE gotFinish'
        OBVIOUS
      <4>2. RST_N = 1 /\ running
        BY <1>1, <1>2, <1>9, <2>4, <4>1 DEF StateInv, ClockInv
      <4> QED
        BY <1>2, <2>1, <4>1, <4>2 DEF auto_finish
    <3>2. RST_N' = 0 => state = 0
      BY <1>2, <1>9, <2>4 DEF StateInv
    <3> QED
      BY <2>3, <2>4, <3>1, <3>2 DEF StateInv
  <2>6. ClockInv'
    BY <1>1, <1>2, <1>9, <2>1 DEF ClockInv, Times
  <2> QED
    BY <1>3, <2>1, <2>3, <2>5, <2>6 DEF SimInv, CoreInv
<1>10. CASE main_time = 11
  <2>1. CLK = 0 /\ main_time' = 16 /\ CLK' = 1 /\ RST_N' = 1
    BY <1>1, <1>2, <1>10, LaterFacts DEF ClockInv
  <2>2. CoreInv /\ FSM /\ ControllerEdge /\ state # 23
    <3>1. CoreInv
      BY <1>1, <1>10
    <3>2. state # 23
      BY <1>2, <2>1, <3>1 DEF CoreInv, StateInv
    <3> QED
      BY <1>2, <2>1, <3>1, <3>2
  <2>3. /\ PathType' /\ FabricInv' /\ ResetInv' /\ AskInv' /\ AnsInv'
        /\ state' \in 0 .. 23 /\ (state' # 0 \/ start_reg' => running')
    BY <1>1, <1>2, <2>2, EdgeKeeps
  <2>4. StateInv'
    BY <2>1, <2>3 DEF StateInv
  <2>5. ClockInv'
    BY <2>1 DEF ClockInv, Times
  <2> QED
    BY <1>3, <2>1, <2>3, <2>4, <2>5 DEF SimInv, CoreInv
<1> QED
  BY <1>4, <1>7, <1>8, <1>9, <1>10

-----------------------------------------------------------------------------
(* The rest of the SoC.  It acts only when there has been an edge.         *)
LEMMA Acting ==
  ASSUME SimInv, Simulating
  PROVE  main_time \notin {0, 1} /\ CoreInv
BY DEF SimInv, ClockInv, Simulating

LEMMA SoCResetsKeeps ==
  ASSUME SimInv, SoCResets
  PROVE  SimInv'
<1>1. CoreInv /\ main_time \notin {0, 1} /\ ClockInv /\ SoCType
  BY Acting DEF SoCResets, SimInv
<1>2. /\ UNCHANGED <<driverVars, f_control_reqs, f_control_rsps, f_fabric_reqs, f_fabric_rsps,
                     step, rg_word, rg_word_h>>
      /\ soc' = [soc EXCEPT !.up = TRUE]
  BY DEF SoCResets
<1>3. /\ UNCHANGED <<main_time, CLK, RST_N, gotFinish, state, running, start_reg>>
      /\ UNCHANGED <<fControlReq, fControlRsp>>
      /\ UNCHANGED <<f_control_reqs, f_control_rsps, f_fabric_reqs, f_fabric_rsps, step, rg_word, rg_word_h>>
  BY <1>2 DEF driverVars, clockVars, fsmVars
<1>4. SoCType' /\ soc'.up /\ soc'.runs = soc.runs /\ soc'.instret = soc.instret
  BY <1>1, <1>2 DEF SoCType
<1>5. CommandPath' = CommandPath /\ AnswerPath' = AnswerPath
  BY <1>3 DEF CommandPath, AnswerPath
<1>6. ClockInv' /\ StateInv' /\ PathType'
  BY <1>1, <1>3 DEF ClockInv, StateInv, PathType, CoreInv
<1>7. FabricInv'
  BY <1>1, <1>3, <1>4 DEF CoreInv, FabricInv, Command
<1>8. ResetInv'
  BY <1>4 DEF ResetInv
<1>9. AskInv' /\ AnsInv'
  BY <1>1, <1>3, <1>4, <1>5 DEF CoreInv, AskInv, AnsInv, Waiting
<1> QED
  BY <1>1, <1>3, <1>4, <1>6, <1>7, <1>8, <1>9 DEF SimInv, CoreInv

(* What the SoC answers is the answer to the request of the step before.   *)
LEMMA TargetAnswersKeeps ==
  ASSUME SimInv, TargetAnswers
  PROVE  SimInv'
<1>1. CoreInv /\ main_time \notin {0, 1} /\ ClockInv /\ SoCType
  BY Acting DEF TargetAnswers, SimInv
<1> DEFINE r == Head(f_fabric_reqs)
           op == Command.op
<1>2. /\ UNCHANGED <<driverVars, f_control_reqs, f_control_rsps, step, rg_word, rg_word_h, f_reset>>
      /\ f_fabric_reqs # << >> /\ f_fabric_reqs' = Tail(f_fabric_reqs)
      /\ ~(r.op = "read" /\ r.at = "CPU.A1" /\ soc.runs)
      /\ f_fabric_rsps' = Append(f_fabric_rsps, Value(r.at))
      /\ soc' = [soc EXCEPT !.runs = @ \/ (r.op = "write" /\ r.at = "CPU.A1"),
                            !.mem = IF r.op = "write" /\ r.at = "memory"
                                    THEN Overwritten(@, r.addr, r.word) ELSE @]
  BY DEF TargetAnswers
<1>3. /\ UNCHANGED <<main_time, CLK, RST_N, gotFinish, state, running, start_reg>>
      /\ UNCHANGED <<fControlReq, fControlRsp>>
      /\ UNCHANGED <<f_control_reqs, f_control_rsps, step, rg_word, rg_word_h, f_reset>>
  BY <1>2 DEF driverVars, clockVars, fsmVars
<1>4. SoCType' /\ soc'.up = soc.up /\ soc'.instret = soc.instret
      /\ soc'.runs = (soc.runs \/ (r.op = "write" /\ r.at = "CPU.A1"))
  BY <1>1, <1>2 DEF SoCType
<1>5. CommandPath' = CommandPath /\ AnswerPath' = AnswerPath
  BY <1>3 DEF CommandPath, AnswerPath
<1>6. ClockInv' /\ StateInv' /\ PathType'
  BY <1>1, <1>3 DEF ClockInv, StateInv, PathType, CoreInv
<1>7. ResetInv' /\ AskInv' /\ AnsInv'
  BY <1>1, <1>3, <1>4, <1>5 DEF CoreInv, ResetInv, AskInv, AnsInv, Waiting
<1>8. /\ f_control_reqs # << >>
      /\ FabricOk(op, step, f_fabric_reqs, f_fabric_rsps, soc.runs)
      /\ op = "instret" => CountOk(step, f_fabric_rsps, rg_word, rg_word_h, soc.instret)
  BY <1>1, <1>2 DEF CoreInv, FabricInv
<1>9. /\ op \in Commands /\ step \in 1 .. LastStep(op) /\ AwaitsFabric(op, step)
      /\ f_fabric_rsps = << >>
      /\ \E x : f_fabric_reqs = <<x>> /\ x.op = Steps[op][step - 1].op /\ x.at = Steps[op][step - 1].at
  BY <1>2, <1>8 DEF FabricOk
<1>10. r.op = Steps[op][step - 1].op /\ r.at = Steps[op][step - 1].at
       /\ f_fabric_reqs' = << >> /\ f_fabric_rsps' = <<Value(r.at)>>
  BY <1>2, <1>9
<1>11. step - 1 \in 1 .. LastStep(op) /\ step - 1 < LastStep(op) /\ (step - 1) + 1 = step
  <2>1. step # 1 /\ LastStep(op) \in Nat
    BY <1>9, CommandSteps DEF StepFacts, LastStep
  <2> QED
    BY <1>9, <2>1
<1>12. StepFacts(op, step - 1) /\ RequestFacts(op, step - 1) /\ StepFacts(op, step)
  BY <1>9, <1>11, CommandSteps
<1>13. Doing(op, step - 1) = "request"
  BY <1>9, <1>11, <1>12 DEF StepFacts
<1> HIDE DEF r, op
<1>14. FabricOk(op, step, f_fabric_reqs', f_fabric_rsps', soc'.runs)
  <2>1. soc.runs => op = "run" /\ step = 4
    BY <1>2, <1>8, <1>9, <1>12 DEF FabricOk, StepFacts, AwaitsFabric
  <2>2. r.op = "write" /\ r.at = "CPU.A1" => op = "run" /\ step = 2
    BY <1>10, <1>11, <1>12, <1>13 DEF RequestFacts
  <2>3. soc.runs => r.op = "read" /\ r.at = "CPU.A1"
    BY <1>10, <1>11, <1>12, <1>13, <2>1 DEF RequestFacts
  <2>4. ~soc.runs
    BY <1>2, <2>3 DEF r
  <2>5. f_fabric_rsps' # << >> /\ \E v : f_fabric_rsps' = <<v>>
    BY <1>10
  <2>6. soc'.runs => op = "run" /\ step = 2
    BY <1>4, <2>2, <2>4
  <2> QED
    BY <1>9, <1>10, <2>5, <2>6 DEF FabricOk
<1>15. ASSUME op = "instret" PROVE CountOk(step, f_fabric_rsps', rg_word, rg_word_h, soc.instret)
  <2>1. step \in {2, 5} /\ r.at = IF step = 2 THEN "CPU.A7" ELSE "CPU.A6"
    BY <1>10, <1>11, <1>12, <1>13, <1>15 DEF StepFacts, RequestFacts
  <2>2. Head(f_fabric_rsps') = IF step = 2 THEN soc.instret \div 2 ELSE soc.instret % 2
    BY <1>10, <2>1 DEF Value
  <2>3. CountOk(step, f_fabric_rsps, rg_word, rg_word_h, soc.instret)
    BY <1>8, <1>15 DEF op
  <2> QED
    BY <2>1, <2>2, <2>3 DEF CountOk
<1>16. FabricInv'
  <2>1. f_control_reqs' # << >> /\ Command'.op = op
    BY <1>3, <1>8 DEF Command, op
  <2> QED
    BY <1>3, <1>4, <1>14, <1>15, <2>1 DEF FabricInv
<1> QED
  BY <1>1, <1>3, <1>4, <1>6, <1>7, <1>16 DEF SimInv, CoreInv

(* The count of instructions changes while nobody is told it.              *)
LEMMA ProgramStopsKeeps ==
  ASSUME SimInv, ProgramStops
  PROVE  SimInv'
<1>1. CoreInv /\ main_time \notin {0, 1} /\ ClockInv /\ SoCType
  BY Acting DEF ProgramStops, SimInv
<1>2. UNCHANGED <<driverVars, controlVars>> /\ soc.runs
  BY DEF ProgramStops
<1>3. /\ UNCHANGED <<main_time, CLK, RST_N, gotFinish, state, running, start_reg>>
      /\ UNCHANGED <<fControlReq, fControlRsp>>
      /\ UNCHANGED <<f_control_reqs, f_control_rsps, f_fabric_reqs, f_fabric_rsps, step, rg_word>>
      /\ UNCHANGED <<rg_word_h, f_reset>>
  BY <1>2 DEF driverVars, controlVars, clockVars, fsmVars
<1>4. SoCType' /\ soc'.up = soc.up /\ ~soc'.runs
  <2>1. PICK n \in 0 .. 3 : soc' = [soc EXCEPT !.runs = FALSE, !.instret = n]
    BY DEF ProgramStops
  <2> QED
    BY <1>1, <2>1 DEF SoCType
<1>5. CommandPath' = CommandPath /\ AnswerPath' = AnswerPath
  BY <1>3 DEF CommandPath, AnswerPath
<1>6. ClockInv' /\ StateInv' /\ PathType'
  BY <1>1, <1>3 DEF ClockInv, StateInv, PathType, CoreInv
<1>7. ResetInv' /\ AskInv'
  BY <1>1, <1>3, <1>4, <1>5 DEF CoreInv, ResetInv, AskInv, Waiting
<1>8. /\ f_control_reqs # << >> /\ Command.op = "run" /\ step \in {2, 3, 4}
      /\ FabricOk(Command.op, step, f_fabric_reqs, f_fabric_rsps, soc.runs)
  BY <1>1, <1>2 DEF CoreInv, FabricInv, FabricOk
<1>9. AnsInv'
  <2>1. PICK S : f_control_reqs \in Seq(S) /\ fControlReq \in Seq(S)
    BY <1>1 DEF CoreInv, PathType
  <2>2. 1 \in 1 .. Len(CommandPath) /\ CommandPath[1].op = "run"
    BY <1>8, <2>1, FirstCommand
  <2>3. CommandPath[1].op \in Asking /\ step <= ReplyStep(CommandPath[1].op)
    BY <1>8, <2>2 DEF Asking, ReplyStep
  <2>4. AnswerPath = << >>
    BY <1>1, <2>2, <2>3 DEF CoreInv, AskInv
  <2> QED
    BY <1>5, <2>4 DEF AnsInv
<1>10. FabricInv'
  <2>1. FabricOk(Command.op, step, f_fabric_reqs, f_fabric_rsps, soc'.runs)
    BY <1>4, <1>8 DEF FabricOk
  <2>2. f_control_reqs' # << >> /\ Command' = Command
    BY <1>3, <1>8 DEF Command
  <2> QED
    BY <1>3, <1>8, <2>1, <2>2 DEF FabricInv
<1> QED
  BY <1>1, <1>3, <1>4, <1>6, <1>7, <1>9, <1>10 DEF SimInv, CoreInv

(* The UART, and steps that change nothing.                                *)
LEMMA OthersKeep ==
  ASSUME SimInv, UNCHANGED <<driverVars, controlVars>>,
         DOMAIN soc' = DOMAIN soc, soc'.up = soc.up, soc'.runs = soc.runs, soc'.instret = soc.instret
  PROVE  SimInv'
<1>1. /\ UNCHANGED <<main_time, CLK, RST_N, gotFinish, state, running, start_reg>>
      /\ UNCHANGED <<fControlReq, fControlRsp>>
      /\ UNCHANGED <<f_control_reqs, f_control_rsps, f_fabric_reqs, f_fabric_rsps, step, rg_word>>
      /\ UNCHANGED <<rg_word_h, f_reset>>
  BY DEF driverVars, controlVars, clockVars, fsmVars
<1>2. CommandPath' = CommandPath /\ AnswerPath' = AnswerPath
  BY <1>1 DEF CommandPath, AnswerPath
<1>3. ClockInv' /\ SoCType'
  BY <1>1 DEF SimInv, ClockInv, SoCType
<1>4. main_time \in {0, 1} => BeforeReset'
  BY <1>1 DEF SimInv, BeforeReset
<1>5. ASSUME CoreInv PROVE CoreInv'
  <2>1. StateInv' /\ PathType'
    BY <1>1, <1>5 DEF CoreInv, StateInv, PathType
  <2>2. FabricInv'
    BY <1>1, <1>5 DEF CoreInv, FabricInv, Command
  <2>3. ResetInv' /\ AskInv' /\ AnsInv'
    BY <1>1, <1>2, <1>5 DEF CoreInv, ResetInv, AskInv, AnsInv, Waiting
  <2> QED
    BY <2>1, <2>2, <2>3 DEF CoreInv
<1> QED
  BY <1>1, <1>3, <1>4, <1>5 DEF SimInv

-----------------------------------------------------------------------------
LEMMA InitInv == Init => SimInv
BY DEF Init, ControllerInit, SimInv, ClockInv, Times, SoCType, BeforeReset

LEMMA NextKeeps == SimInv /\ [Next]_vars => SimInv'
<1> SUFFICES ASSUME SimInv, [Next]_vars PROVE SimInv'
  OBVIOUS
<1>1. CASE main
  BY <1>1, MainKeeps
<1>2. CASE SoCResets
  BY <1>2, SoCResetsKeeps
<1>3. CASE TargetAnswers
  BY <1>3, TargetAnswersKeeps
<1>4. CASE ProgramStops
  BY <1>4, ProgramStopsKeeps
<1>5. CASE ns16550_init
  BY <1>5, OthersKeep DEF ns16550_init
<1>6. CASE ns16550_txchar
  <2>1. UNCHANGED <<driverVars, controlVars>> /\ soc' = [soc EXCEPT !.sent = @ + 1]
    BY <1>6 DEF ns16550_txchar
  <2>2. DOMAIN soc = {"up", "runs", "mem", "instret", "sent"}
    BY DEF SimInv, SoCType
  <2>3. DOMAIN soc' = DOMAIN soc /\ soc'.up = soc.up /\ soc'.runs = soc.runs /\ soc'.instret = soc.instret
    BY <2>1, <2>2
  <2> QED
    BY <2>1, <2>3, OthersKeep
<1>7. CASE UNCHANGED vars
  BY <1>7, OthersKeep DEF vars
<1> QED
  BY <1>1, <1>2, <1>3, <1>4, <1>5, <1>6, <1>7 DEF Next

LEMMA AlwaysSimInv == Spec => []SimInv
<1>1. Init => SimInv
  BY InitInv
<1>2. SimInv /\ [Next]_vars => SimInv'
  BY NextKeeps
<1> QED
  BY <1>1, <1>2, PTL DEF Spec

(* Whatever the file, the settings and the program: nothing goes out on    *)
(* the fabric, and the processor does not run, before the SoC is reset.    *)
THEOREM ResetComesFirst == Spec => []ResetFirst
<1>1. SimInv => ResetFirst
  <2>1. SUFFICES ASSUME SimInv, f_fabric_reqs # << >> \/ soc.runs, ~soc.up PROVE FALSE
    BY DEF ResetFirst
  <2>2. CoreInv
    BY <2>1 DEF SimInv, BeforeReset
  <2>3. /\ f_control_reqs # << >>
        /\ FabricOk(Command.op, step, f_fabric_reqs, f_fabric_rsps, soc.runs)
    BY <2>1, <2>2 DEF CoreInv, FabricInv
  <2>4. PICK S : f_control_reqs \in Seq(S) /\ fControlReq \in Seq(S)
    BY <2>2 DEF CoreInv, PathType
  <2>5. Command.op = "reset" /\ step \in {1, 2}
    BY <2>1, <2>2, <2>3, <2>4, FirstCommand DEF CoreInv, ResetInv
  <2>6. StepFacts("reset", step)
    BY <2>5, CommandSteps DEF Commands, LastStep
  <2>7. ~AwaitsFabric("reset", step)
    BY <2>5, <2>6 DEF StepFacts, AwaitsFabric
  <2> QED
    BY <2>1, <2>3, <2>5, <2>7 DEF FabricOk
<1> QED
  BY <1>1, AlwaysSimInv, PTL

(* An answer on its way to the driver is always the one and only answer to *)
(* the question it has asked last, and says how many instructions the      *)
(* processor has retired by now.                                           *)
THEOREM AnswersAreWanted == Spec => []AnswersWanted
<1>1. SimInv => AnswersWanted
  <2>1. SUFFICES ASSUME SimInv PROVE AnswersWanted
    OBVIOUS
  <2>2. AnswerPath = fControlRsp \o f_control_rsps
    BY DEF AnswerPath, Cat
  <2>3. main_time \in {0, 1} => AnswerPath = << >>
    BY <2>1, <2>2 DEF SimInv, BeforeReset
  <2>4. main_time \notin {0, 1} => AnsInv
    BY <2>1 DEF SimInv, CoreInv
  <2>5. Waiting => state - 1 \in DOMAIN Asked
    BY AskedFacts DEF Waiting
  <2> QED
    BY <2>2, <2>3, <2>4, <2>5 DEF AnsInv, AnswersWanted
<1> QED
  BY <1>1, AlwaysSimInv, PTL

-----------------------------------------------------------------------------
(* The console: characters, and what is made of each of them.              *)
Codes == 0 .. 255
Shown == [escaped : BOOLEAN, code : Codes]
PutChar == [c \in Codes |-> c_putchar(c)]
Receive == [c \in Codes |-> Received(c)]

LEMMA CharFacts == PutChar \in [Codes -> Seq(Shown)] /\ Receive \in [Codes -> Seq(Codes)]
<1>1. ASSUME NEW c \in Codes PROVE c_putchar(c) \in Seq(Shown)
  <2>1. Raw(c) \in Shown /\ Escaped(c) \in Shown
    BY DEF Raw, Escaped, Shown
  <2> QED
    BY <2>1 DEF c_putchar
<1>2. ASSUME NEW c \in Codes PROVE Received(c) \in Seq(Codes)
  BY DEF Received
<1> QED
  BY <1>1, <1>2 DEF PutChar, Receive

(* One element more.                                                       *)
First(n, s) == SubSeq(s, 1, n)

LEMMA MapExtends ==
  ASSUME NEW X, NEW S, NEW g \in [X -> Seq(S)], NEW s \in Seq(X), NEW n \in Nat, n < Len(s),
         NEW x, x = s[n + 1]
  PROVE  /\ First(n, s) \in Seq(X)
         /\ FlatMap(g, First(n + 1, s)) = Cat(FlatMap(g, First(n, s)), g[x])
<1> DEFINE a == First(n, s)
           b == First(n + 1, s)
<1>1. Len(s) \in Nat /\ n + 1 \in 1 .. Len(s) /\ \A i \in 1 .. Len(s) : s[i] \in X
  OBVIOUS
<1>2. \A i \in 1 .. n + 1 : s[i] \in X
  BY <1>1
<1>3. a \in Seq(X) /\ Len(a) = n /\ \A i \in 1 .. n : a[i] = s[i]
  BY <1>1, <1>2 DEF First
<1>4. b \in Seq(X) /\ Len(b) = n + 1 /\ \A i \in 1 .. n + 1 : b[i] = s[i]
  BY <1>1, <1>2 DEF First
<1>5. x \in X
  BY <1>1
<1> HIDE DEF a, b
<1>6. b = Append(a, x)
  <2> DEFINE t == Append(a, x)
  <2>1. t \in Seq(X) /\ Len(t) = n + 1 /\ t[n + 1] = x /\ \A i \in 1 .. n : t[i] = a[i]
    BY <1>3, <1>5, AppendProperties
  <2> HIDE DEF t
  <2>2. ASSUME NEW i \in 1 .. n + 1 PROVE b[i] = t[i]
    <3>1. i = n + 1 \/ i \in 1 .. n
      OBVIOUS
    <3> QED
      BY <1>3, <1>4, <2>1, <3>1
  <2>3. b = t
    BY <1>4, <2>1, <2>2, SeqEqual
  <2> QED
    BY <2>3 DEF t
<1>7. FlatMap(g, Append(a, x)) = Cat(FlatMap(g, a), g[x])
  BY <1>3, <1>5, FlatMapAppend, SMTT(30)
<1> QED
  BY <1>3, <1>6, <1>7 DEF a, b

LEMMA CharsExtend ==
  ASSUME NEW s \in Seq(Codes), NEW n \in Nat, n < Len(s), NEW x, x = s[n + 1]
  PROVE  /\ FlatMap(Receive, First(n + 1, s)) = Cat(FlatMap(Receive, First(n, s)), Receive[x])
         /\ FlatMap(PutChar, First(n + 1, s)) = Cat(FlatMap(PutChar, First(n, s)), PutChar[x])
         /\ First(n, s) \in Seq(Codes)
<1>1. ASSUME NEW T, NEW g \in [Codes -> Seq(T)]
      PROVE  FlatMap(g, First(n + 1, s)) = Cat(FlatMap(g, First(n, s)), g[x]) /\ First(n, s) \in Seq(Codes)
  BY MapExtends
<1> QED
  BY <1>1, CharFacts

-----------------------------------------------------------------------------
(* What has been typed is on its way to the UART: the characters that have *)
(* been read, the NULs among them left out, then ends of the file.         *)
InPath == Cat(uart.rx, f_from_console)
OutPath == Cat(f_to_console, uart.tx)
Given == Len(env.stdin) - Len(stdin)
TypedSoFar == FlatMap(Receive, First(Given, env.stdin))

InputInv ==
    /\ env.stdin \in Seq(Codes) /\ stdin \in Seq(Codes) /\ Given \in Nat
    /\ \A i \in 1 .. Len(stdin) : stdin[i] = env.stdin[Given + i]
    /\ uart.rx \in Seq(Codes) /\ f_from_console \in Seq(Codes)
    /\ \E e \in Seq({EOF}) : InPath = Cat(TypedSoFar, e) /\ (e # << >> => stdin = << >>)

(* What the program has written is printed or on its way to be: o is on    *)
(* the terminal and path before it, of the first n characters of s.        *)
Wrote(o, path, s, n) == Cat(o, FlatMap(PutChar, path)) = FlatMap(PutChar, First(n, s))

OutputInv ==
    /\ env.output \in Seq(Codes) /\ stdout \in Seq(Shown)
    /\ f_to_console \in Seq(Codes) /\ uart.tx \in Seq(Codes)
    /\ soc.sent \in 0 .. Len(env.output)
    /\ Wrote(stdout, OutPath, env.output, soc.sent)

(* The number of edges it takes to print it, and the number that is left.  *)
Pending(a, b) == a + b + IF a = 0 /\ b # 0 THEN 1 ELSE 0
Backlog == Pending(Len(f_to_console), Len(uart.tx))
EdgesLeft(s) == IF s < 21 THEN 21 - s ELSE 0

DrainInv ==
    /\ Len(f_to_console) <= 2 /\ Len(uart.tx) <= 2
    /\ state >= 17 => Backlog <= EdgesLeft(state)
    /\ gotFinish => state = 23

ConsoleInv ==
    /\ DOMAIN uart = {"rx", "tx", "dlab"}
    /\ main_time \in {0, 1} =>
         f_from_console = << >> /\ f_to_console = << >> /\ uart.rx = << >> /\ uart.tx = << >>
    /\ InputInv /\ OutputInv /\ DrainInv

-----------------------------------------------------------------------------
LEMMA MovesInOut == Moving(f_from_console, MovingIn) /\ Moving(uart.tx, MovingOut)
BY DEF Moving, MovingIn, MovingOut

LEMMA UartEdge ==
  ASSUME DOMAIN uart = {"rx", "tx", "dlab"}, console_cnx
  PROVE  /\ DOMAIN uart' = {"rx", "tx", "dlab"}
         /\ uart'.rx = Cat(uart.rx, MovingIn) /\ uart'.tx = Without(uart.tx, MovingOut)
BY DEF console_cnx, Cat

LEMMA TypingMoves ==
  ASSUME InputInv, DOMAIN uart = {"rx", "tx", "dlab"}, console_cnx,
         NEW c \in Codes, Typing(c)
  PROVE  /\ uart'.rx \in Seq(Codes) /\ f_from_console' \in Seq(Codes)
         /\ InPath' = Cat(InPath, Received(c))
<1>1. Received(c) \in Seq(Codes)
  BY DEF Received
<1>2. f_from_console' = Cat(Without(f_from_console, MovingIn), Received(c))
  BY DEF Typing, Cat
<1>3. Left(uart.rx, 0) = uart.rx /\ Leave(uart.rx, 0)
  BY DEF Left, Leave
<1>4. uart.rx \in Seq(Codes) /\ f_from_console \in Seq(Codes)
  BY DEF InputInv
<1>5. /\ Cat(uart.rx, MovingIn) \in Seq(Codes)
      /\ Cat(Without(f_from_console, MovingIn), Received(c)) \in Seq(Codes)
      /\ Cat(Cat(uart.rx, MovingIn), Cat(Without(f_from_console, MovingIn), Received(c)))
            = Cat(Cat(uart.rx, f_from_console), Received(c))
  BY <1>1, <1>3, <1>4, MovesInOut, PathMoves
<1>6. InPath' = Cat(uart'.rx, f_from_console')
  BY DEF InPath
<1> QED
  BY <1>2, <1>5, <1>6, UartEdge DEF InPath

LEMMA InputKept ==
  ASSUME InputInv, DOMAIN uart = {"rx", "tx", "dlab"}, console_cnx, rl_from_console,
         UNCHANGED env
  PROVE  InputInv'
<1>1. /\ env.stdin \in Seq(Codes) /\ stdin \in Seq(Codes) /\ Given \in Nat
      /\ \A i \in 1 .. Len(stdin) : stdin[i] = env.stdin[Given + i]
      /\ Len(stdin) \in Nat /\ Len(env.stdin) \in Nat
  BY DEF InputInv
<1>2. PICK e \in Seq({EOF}) : InPath = Cat(TypedSoFar, e) /\ (e # << >> => stdin = << >>)
  BY DEF InputInv
<1>3. e \in Seq(Codes) /\ <<EOF>> \in Seq(Codes) /\ <<EOF>> \in Seq({EOF})
  <2>1. Len(e) \in Nat /\ \A i \in 1 .. Len(e) : e[i] \in {EOF}
    OBVIOUS
  <2>2. {EOF} \subseteq Codes
    BY DEF EOF, Codes
  <2>3. e = [i \in 1 .. Len(e) |-> e[i]] /\ \A i \in 1 .. Len(e) : e[i] \in Codes
    BY <2>1, <2>2
  <2>4. e \in Seq(Codes)
    BY <2>1, <2>3
  <2> QED
    BY <2>2, <2>4
<1>4. First(Given, env.stdin) \in Seq(Codes)
  <2>1. Given <= Len(env.stdin)
    BY <1>1 DEF Given
  <2> QED
    BY <1>1, <2>1 DEF First
<1>5. TypedSoFar \in Seq(Codes)
  BY <1>4, CharFacts, FlatMapType DEF TypedSoFar
<1>6. ASSUME NEW c \in Codes, Typing(c), stdin' = stdin, c # 0 => stdin = << >> /\ c = EOF
      PROVE  InputInv'
  <2>1. Given' = Given /\ TypedSoFar' = TypedSoFar
    BY <1>6 DEF Given, TypedSoFar
  <2>2. /\ uart'.rx \in Seq(Codes) /\ f_from_console' \in Seq(Codes)
        /\ InPath' = Cat(InPath, Received(c))
    BY <1>6, TypingMoves
  <2>3. Received(c) \in Seq({EOF}) /\ Received(c) \in Seq(Codes)
    <3>1. CASE c = 0
      BY <3>1 DEF Received
    <3>2. CASE c # 0
      <4>1. Received(c) = <<EOF>>
        BY <1>6, <3>2 DEF Received
      <4> QED
        BY <1>3, <4>1
    <3> QED
      BY <3>1, <3>2
  <2>4. Cat(e, Received(c)) \in Seq({EOF})
    BY <2>3, CatType
  <2>5. InPath' = Cat(TypedSoFar, Cat(e, Received(c)))
    BY <1>2, <1>3, <1>5, <2>2, <2>3, CatAssociative
  <2>6. Cat(e, Received(c)) # << >> => stdin = << >>
    <3>1. CASE c = 0
      <4>1. Cat(e, Received(c)) = e
        BY <1>3, <3>1, CatEmpty DEF Received
      <4> QED
        BY <1>2, <4>1
    <3> QED
      BY <1>6, <3>1
  <2> QED
    BY <1>1, <1>6, <2>1, <2>2, <2>4, <2>5, <2>6 DEF InputInv
<1>7. ASSUME stdin # << >>, Typing(Head(stdin)), stdin' = Tail(stdin)
      PROVE  InputInv'
  <2>1. /\ Head(stdin) \in Codes /\ Head(stdin) = stdin[1] /\ Len(stdin) >= 1
        /\ Tail(stdin) \in Seq(Codes) /\ Len(Tail(stdin)) = Len(stdin) - 1
        /\ \A i \in 1 .. Len(stdin) - 1 : Tail(stdin)[i] = stdin[i + 1]
    BY <1>1, <1>7, TailFacts
  <2>2. Given' = Given + 1 /\ Given < Len(env.stdin)
    BY <1>1, <1>7, <2>1 DEF Given
  <2>3. Head(stdin) = env.stdin[Given + 1]
    BY <1>1, <2>1
  <2>4. /\ uart'.rx \in Seq(Codes) /\ f_from_console' \in Seq(Codes)
        /\ InPath' = Cat(InPath, Received(Head(stdin)))
    BY <1>7, <2>1, TypingMoves
  <2>5. Receive[Head(stdin)] = Received(Head(stdin)) /\ Received(Head(stdin)) \in Seq(Codes)
    BY <2>1 DEF Receive, Received
  <2>6. TypedSoFar' = Cat(TypedSoFar, Received(Head(stdin)))
    <3>1. FlatMap(Receive, First(Given + 1, env.stdin))
            = Cat(FlatMap(Receive, First(Given, env.stdin)), Receive[Head(stdin)])
      <4> SUFFICES ASSUME NEW s \in Seq(Codes), s = env.stdin, NEW n \in Nat, n = Given,
                          NEW x, x = Head(stdin)
                   PROVE  FlatMap(Receive, First(n + 1, s)) = Cat(FlatMap(Receive, First(n, s)), Receive[x])
        BY <1>1
      <4>1. n < Len(s) /\ x = s[n + 1]
        BY <2>2, <2>3
      <4> QED
        BY <4>1, CharsExtend
    <3>2. TypedSoFar' = FlatMap(Receive, First(Given', env.stdin))
      BY DEF TypedSoFar, Receive, First
    <3> QED
      BY <2>2, <2>3, <2>5, <3>1, <3>2 DEF TypedSoFar
  <2>7. InPath = TypedSoFar
    BY <1>2, <1>5, <1>7, CatEmpty
  <2>8. InPath' = Cat(TypedSoFar', << >>)
    <3>1. TypedSoFar' \in Seq(Codes)
      BY <1>5, <2>5, <2>6, CatType
    <3> QED
      BY <2>4, <2>6, <2>7, <3>1, CatEmpty
  <2>9. \A i \in 1 .. Len(stdin') : stdin'[i] = env.stdin[Given' + i]
    <3>1. ASSUME NEW i \in 1 .. Len(stdin) - 1 PROVE Tail(stdin)[i] = env.stdin[(Given + 1) + i]
      <4>1. i + 1 \in 1 .. Len(stdin) /\ (Given + 1) + i = Given + (i + 1)
        BY <1>1
      <4> QED
        BY <1>1, <2>1, <4>1
    <3> QED
      BY <1>7, <2>1, <2>2, <3>1
  <2>10. << >> \in Seq({EOF})
    OBVIOUS
  <2> QED
    BY <1>1, <1>7, <2>1, <2>2, <2>4, <2>8, <2>9, <2>10, SMTT(30) DEF InputInv
<1>8. CASE Len(f_from_console) = Slots
  <2>1. Typing(0) /\ stdin' = stdin /\ 0 \in Codes
    BY <1>8 DEF rl_from_console, Codes
  <2> QED
    BY <1>6, <2>1
<1>9. CASE Len(f_from_console) # Slots
  <2>1. PICK r \in c_trygetchar(stdin, env.stdin_ends) : stdin' = r[2] /\ Typing(r[1])
    BY <1>9 DEF rl_from_console
  <2>2. \/ r[1] = 0 /\ r[2] = stdin
        \/ stdin # << >> /\ r[1] = Head(stdin) /\ r[2] = Tail(stdin)
        \/ stdin = << >> /\ r[1] = EOF /\ r[2] = stdin
    BY DEF c_trygetchar
  <2>3. 0 \in Codes /\ EOF \in Codes
    BY DEF Codes, EOF
  <2> QED
    BY <1>6, <1>7, <2>1, <2>2, <2>3
<1> QED
  BY <1>8, <1>9

LEMMA TailOfPath ==
  ASSUME NEW S, NEW f \in Seq(S), NEW g \in Seq(S), f # << >>
  PROVE  Tail(Cat(f, g)) = Cat(Tail(f), g)
<1> DEFINE p == Cat(f, g)
           q == Cat(Tail(f), g)
<1>1. /\ Len(f) \in Nat /\ Len(f) >= 1 /\ Tail(f) \in Seq(S) /\ Len(Tail(f)) = Len(f) - 1
      /\ \A k \in 1 .. Len(f) - 1 : Tail(f)[k] = f[k + 1]
      /\ Len(g) \in Nat
  BY TailFacts
<1>2. p \in Seq(S) /\ Len(p) = Len(f) + Len(g) /\ q \in Seq(S) /\ Len(q) = Len(f) - 1 + Len(g)
  BY <1>1, CatType
<1>3. \A k \in 1 .. Len(f) + Len(g) : p[k] = IF k <= Len(f) THEN f[k] ELSE g[k - Len(f)]
  BY CatElements
<1>4. \A k \in 1 .. Len(Tail(f)) + Len(g) :
         q[k] = IF k <= Len(Tail(f)) THEN Tail(f)[k] ELSE g[k - Len(Tail(f))]
  BY <1>1, CatElements
<1> HIDE DEF p, q
<1>5. p # << >>
  BY <1>1, <1>2
<1>6. /\ Tail(p) \in Seq(S) /\ Len(Tail(p)) = Len(p) - 1
      /\ \A k \in 1 .. Len(p) - 1 : Tail(p)[k] = p[k + 1]
  BY <1>2, <1>5, TailFacts
<1>7. ASSUME NEW k \in 1 .. Len(q) PROVE Tail(p)[k] = q[k]
  <2>1. k + 1 \in 1 .. Len(f) + Len(g) /\ k \in 1 .. Len(p) - 1 /\ k \in 1 .. Len(Tail(f)) + Len(g)
    BY <1>1, <1>2
  <2>2. Tail(p)[k] = IF k + 1 <= Len(f) THEN f[k + 1] ELSE g[(k + 1) - Len(f)]
    BY <1>3, <1>6, <2>1
  <2>3. q[k] = IF k <= Len(f) - 1 THEN Tail(f)[k] ELSE g[k - (Len(f) - 1)]
    BY <1>1, <1>4, <2>1
  <2>4. CASE k <= Len(f) - 1
    <3>1. k \in 1 .. Len(f) - 1 /\ k + 1 <= Len(f)
      BY <1>1, <2>4
    <3>2. Tail(f)[k] = f[k + 1]
      BY <1>1, <3>1
    <3> QED
      BY <2>2, <2>3, <2>4, <3>1, <3>2
  <2>5. CASE ~(k <= Len(f) - 1)
    <3>1. ~(k + 1 <= Len(f)) /\ (k + 1) - Len(f) = k - (Len(f) - 1)
      BY <1>1, <2>5
    <3> QED
      BY <2>2, <2>3, <2>5, <3>1
  <2> QED
    BY <2>4, <2>5
<1>8. Tail(p) = q
  BY <1>1, <1>2, <1>6, <1>7, SeqEqual
<1> QED
  BY <1>8 DEF p, q

(* What an edge does to the path of the characters that go out.            *)
LEMMA OutMoves ==
  ASSUME OutputInv, DOMAIN uart = {"rx", "tx", "dlab"}, console_cnx, rl_to_console
  PROVE  /\ f_to_console' \in Seq(Codes) /\ uart'.tx \in Seq(Codes)
         /\ f_to_console = << >> => OutPath' = OutPath /\ stdout' = stdout
         /\ f_to_console # << >> =>
              /\ OutPath' = Tail(OutPath) /\ OutPath # << >> /\ Head(OutPath) = Head(f_to_console)
              /\ stdout' = Cat(stdout, c_putchar(Head(OutPath)))
<1> DEFINE d == IF f_to_console = << >> THEN 0 ELSE 1
<1>1. f_to_console \in Seq(Codes) /\ uart.tx \in Seq(Codes) /\ << >> \in Seq(Codes)
  BY DEF OutputInv
<1>2. Leave(f_to_console, d)
  BY DEF Leave
<1>3. f_to_console' = Cat(Left(f_to_console, d), MovingOut)
  <2>1. CASE f_to_console = << >>
    <3>1. MovingOut \in Seq(Codes)
      BY <1>1, MovesInOut, Moved
    <3> QED
      BY <2>1, <3>1, CatEmpty DEF rl_to_console, Left
  <2>2. CASE f_to_console # << >>
    BY <2>2 DEF rl_to_console, Left, Cat
  <2> QED
    BY <2>1, <2>2
<1>4. uart'.tx = Without(uart.tx, MovingOut)
  BY UartEdge
<1> HIDE DEF d
<1>5. /\ MovingOut \in Seq(Codes) /\ Without(uart.tx, MovingOut) \in Seq(Codes)
      /\ Cat(MovingOut, Without(uart.tx, MovingOut)) = uart.tx
  BY <1>1, MovesInOut, Moved
<1>6. Left(f_to_console, d) \in Seq(Codes)
  BY <1>1, <1>2, LeftFacts
<1>7. Cat(Left(f_to_console, d), MovingOut) \in Seq(Codes)
  BY <1>5, <1>6, CatType
<1>8. Cat(Cat(Left(f_to_console, d), MovingOut), Without(uart.tx, MovingOut))
         = Cat(Left(f_to_console, d), Cat(MovingOut, Without(uart.tx, MovingOut)))
  BY <1>5, <1>6, CatAssociative
<1>9. OutPath' = Cat(Left(f_to_console, d), uart.tx)
  <2>1. OutPath' = Cat(f_to_console', uart'.tx)
    BY DEF OutPath
  <2> QED
    BY <1>3, <1>4, <1>5, <1>8, <2>1
<1>10. CASE f_to_console = << >>
  <2>1. OutPath' = OutPath
    BY <1>9, <1>10 DEF d, Left, OutPath
  <2>2. stdout' = stdout
    BY <1>10 DEF rl_to_console
  <2> QED
    BY <1>3, <1>4, <1>5, <1>7, <1>10, <2>1, <2>2
<1>11. CASE f_to_console # << >>
  <2>1. Left(f_to_console, d) = Tail(f_to_console)
    BY <1>11 DEF d, Left
  <2>2. OutPath' = Tail(OutPath)
    BY <1>1, <1>9, <1>11, <2>1, TailOfPath DEF OutPath
  <2>3. OutPath # << >> /\ Head(OutPath) = Head(f_to_console)
    BY <1>1, <1>11, PathHead DEF OutPath
  <2>4. stdout' = Cat(stdout, c_putchar(Head(f_to_console)))
    BY <1>11 DEF rl_to_console, Cat
  <2> QED
    BY <1>3, <1>4, <1>5, <1>7, <1>11, <2>2, <2>3, <2>4
<1> QED
  BY <1>10, <1>11

LEMMA CharShown ==
  ASSUME NEW p \in Seq(Codes), p # << >>, NEW x, x = Head(p)
  PROVE  FlatMap(PutChar, p) = Cat(PutChar[x], FlatMap(PutChar, Tail(p)))
<1>1. ASSUME NEW T, NEW g \in [Codes -> Seq(T)]
      PROVE  FlatMap(g, p) = Cat(g[x], FlatMap(g, Tail(p)))
  BY FlatMapHead
<1> QED
  BY <1>1, CharFacts

LEMMA OutputKept ==
  ASSUME OutputInv, DOMAIN uart = {"rx", "tx", "dlab"}, console_cnx, rl_to_console,
         UNCHANGED <<env, soc>>
  PROVE  OutputInv'
<1>1. /\ OutPath \in Seq(Codes) /\ stdout \in Seq(Shown)
      /\ Cat(stdout, FlatMap(PutChar, OutPath)) = FlatMap(PutChar, First(soc.sent, env.output))
  BY CatType DEF OutputInv, OutPath, Wrote
<1>2. /\ f_to_console' \in Seq(Codes) /\ uart'.tx \in Seq(Codes)
      /\ f_to_console = << >> => OutPath' = OutPath /\ stdout' = stdout
      /\ f_to_console # << >> =>
           /\ OutPath' = Tail(OutPath) /\ OutPath # << >> /\ Head(OutPath) = Head(f_to_console)
           /\ stdout' = Cat(stdout, c_putchar(Head(OutPath)))
  BY OutMoves
<1>3. stdout' \in Seq(Shown) /\ Cat(stdout', FlatMap(PutChar, OutPath')) = Cat(stdout, FlatMap(PutChar, OutPath))
  <2>1. CASE f_to_console = << >>
    BY <1>1, <1>2, <2>1
  <2>2. CASE f_to_console # << >>
    <3> SUFFICES ASSUME NEW p \in Seq(Codes), p = OutPath, p # << >>,
                        NEW x, x = Head(p), OutPath' = Tail(p),
                        NEW o \in Seq(Shown), o = stdout, stdout' = Cat(o, c_putchar(x))
                 PROVE  /\ stdout' \in Seq(Shown)
                        /\ Cat(stdout', FlatMap(PutChar, OutPath')) = Cat(o, FlatMap(PutChar, p))
      BY <1>1, <1>2, <2>2
    <3>1. x \in Codes /\ Tail(p) \in Seq(Codes)
      BY TailFacts
    <3>2. PutChar[x] = c_putchar(x) /\ c_putchar(x) \in Seq(Shown)
      BY <3>1, CharFacts DEF PutChar
    <3>3. FlatMap(PutChar, p) = Cat(c_putchar(x), FlatMap(PutChar, Tail(p)))
      BY <3>2, CharShown
    <3>4. FlatMap(PutChar, Tail(p)) \in Seq(Shown)
      BY <3>1, CharFacts, FlatMapType
    <3>5. Cat(Cat(o, c_putchar(x)), FlatMap(PutChar, Tail(p)))
            = Cat(o, Cat(c_putchar(x), FlatMap(PutChar, Tail(p))))
      BY <3>2, <3>4, CatAssociative
    <3>6. Cat(o, c_putchar(x)) \in Seq(Shown)
      BY <3>2, CatType
    <3> QED
      BY <3>3, <3>5, <3>6
  <2> QED
    BY <2>1, <2>2
<1>4. Wrote(stdout', OutPath', env.output, soc.sent)
  BY <1>1, <1>3 DEF Wrote
<1>5. Wrote(stdout, OutPath, env.output, soc.sent)' = Wrote(stdout', OutPath', env.output, soc.sent)
  BY DEF Wrote, FlatMap, PutChar, First, Cat
<1> QED
  BY <1>2, <1>3, <1>4, <1>5 DEF OutputInv

-----------------------------------------------------------------------------
(* Time enough to print what was written before the processor stopped.     *)
LEMMA RunsAt16 ==
  ASSUME SimInv, soc.runs
  PROVE  state = 16
<1>1. CoreInv
  BY DEF SimInv, BeforeReset
<1>2. /\ f_control_reqs # << >>
      /\ FabricOk(Command.op, step, f_fabric_reqs, f_fabric_rsps, soc.runs)
  BY <1>1 DEF CoreInv, FabricInv
<1>3. PICK S : f_control_reqs \in Seq(S) /\ fControlReq \in Seq(S)
  BY <1>1 DEF CoreInv, PathType
<1>4. Command.op = "run" /\ step \in {2, 3, 4}
  BY <1>2 DEF FabricOk
<1>5. CommandPath # << >> /\ CommandPath[1] = Command
  BY <1>2, <1>3, PathHead DEF CommandPath, Command
<1>6. 1 \in 1 .. Len(CommandPath)
  <2>1. CommandPath \in Seq(S)
    BY <1>3, CatType DEF CommandPath
  <2> QED
    BY <1>5, <2>1
<1>7. Waiting /\ Asked[state - 1] = "run"
  <2>1. CommandPath[1].op \in Asking /\ step <= ReplyStep(CommandPath[1].op)
    BY <1>4, <1>5 DEF Asking, ReplyStep
  <2> QED
    BY <1>1, <1>4, <1>5, <1>6, <2>1 DEF CoreInv, AskInv
<1> QED
  BY <1>7 DEF Waiting, Asked

LEMMA FSMGoesOn ==
  ASSUME FSM, state \in 0 .. 23
  PROVE  \/ state' = state \/ state' = state + 1
         \/ state' \in 0 .. 11 \/ (state \in {21, 22} /\ state' = 23)
<1>1. CASE Stalled /\ Quiet /\ UNCHANGED fsmVars
  BY <1>1 DEF fsmVars
<1>2. CASE ask \/ await
  BY <1>2 DEF ask, await, Goto
<1>3. CASE action_l160c53 \/ action_l261c10
  BY <1>3 DEF action_l160c53, action_l261c10, ShutDown, Goto
<1>4. CASE \/ rl_auto_start \/ action_l172c10 \/ action_l178c10 \/ action_l201c10
           \/ action_l207c10 \/ action_l216c13 \/ action_l227c32 \/ action_f_init_l232c13
  BY <1>4 DEF rl_auto_start, action_l172c10, action_l178c10, action_l201c10, action_l207c10,
              action_l216c13, action_l227c32, action_f_init_l232c13, Goto
<1>5. CASE action_l232c89 \/ action_f_update_l232c13 \/ action_l244c16 \/ action_l248c10
  <2>1. CASE action_l232c89
    <3>1. UNCHANGED state \/ Goto(8)
      BY <2>1 DEF action_l232c89
    <3> QED
      BY <3>1 DEF Goto
  <2> QED
    BY <1>5, <2>1 DEF action_f_update_l232c13, action_l244c16, action_l248c10, Goto
<1> QED
  BY <1>1, <1>2, <1>3, <1>4, <1>5 DEF FSM

Falls(a, b, c, d) ==
    \/ b # 0 /\ a < 2 /\ d = b - 1 /\ c = IF a = 0 THEN 1 ELSE a
    \/ (b = 0 \/ a >= 2) /\ d = b /\ c = IF a = 0 THEN 0 ELSE a - 1

LEMMA PendingFalls ==
  ASSUME NEW a \in 0 .. 2, NEW b \in 0 .. 2, NEW c \in Nat, NEW d \in Nat, Falls(a, b, c, d)
  PROVE  /\ c <= 2 /\ d <= 2 /\ Pending(a, b) \in Nat /\ Pending(c, d) \in 0 .. 4
         /\ Pending(c, d) <= IF Pending(a, b) = 0 THEN 0 ELSE Pending(a, b) - 1
BY DEF Pending, Falls

LEMMA ShortFifo ==
  ASSUME NEW S, NEW s \in Seq(S)
  PROVE  Len(s) \in Nat /\ (Len(s) <= 2 => Len(s) \in 0 .. 2)
<1>1. Len(s) \in Nat
  OBVIOUS
<1>2. \A n \in Nat : n <= 2 => n \in 0 .. 2
  OBVIOUS
<1> QED
  BY <1>1, <1>2

LEMMA BacklogFalls ==
  ASSUME Slots = 2, OutputInv, Len(f_to_console) <= 2, Len(uart.tx) <= 2,
         DOMAIN uart = {"rx", "tx", "dlab"}, console_cnx, rl_to_console
  PROVE  /\ Len(f_to_console)' <= 2 /\ Len(uart.tx)' <= 2
         /\ Backlog \in Nat /\ Backlog' \in 0 .. 4
         /\ Backlog' <= IF Backlog = 0 THEN 0 ELSE Backlog - 1
<1> SUFFICES ASSUME NEW f \in Seq(Codes), f = f_to_console, NEW g \in Seq(Codes), g = uart.tx,
                    NEW h, h = f_to_console', NEW t, t = uart'.tx,
                    NEW m, m = MovingOut
             PROVE  /\ Len(h) <= 2 /\ Len(t) <= 2
                    /\ Backlog \in Nat /\ Backlog' \in 0 .. 4
                    /\ Backlog' <= IF Backlog = 0 THEN 0 ELSE Backlog - 1
  BY DEF OutputInv
<1>1. h \in Seq(Codes) /\ t \in Seq(Codes)
  BY OutMoves
<1>2. t = Without(g, m) /\ m = IF g # << >> /\ Len(f) < 2 THEN <<Head(g)>> ELSE << >>
  BY UartEdge DEF MovingOut
<1>3. IF f = << >> THEN h = m ELSE h = Tail(f) \o m
  BY DEF rl_to_console
<1>4. /\ Len(f) \in Nat /\ Len(g) \in Nat /\ Len(h) \in Nat /\ Len(t) \in Nat
      /\ Len(f) <= 2 /\ Len(g) <= 2
      /\ (f = << >>) <=> (Len(f) = 0)
      /\ (g = << >>) <=> (Len(g) = 0)
      /\ (h = << >>) <=> (Len(h) = 0)
      /\ (t = << >>) <=> (Len(t) = 0)
  BY <1>1
<1>5. Len(f) \in 0 .. 2 /\ Len(g) \in 0 .. 2 /\ Len(h) \in Nat /\ Len(t) \in Nat
  BY <1>1, ShortFifo
<1>6. Backlog = Pending(Len(f), Len(g)) /\ Backlog' = Pending(Len(h), Len(t))
  BY DEF Backlog, Pending
<1>7. CASE g # << >> /\ Len(f) < 2
  <2>1. m \in Seq(Codes) /\ Len(m) = 1
    BY <1>2, <1>7
  <2>2. Len(t) = Len(g) - 1
    BY <1>2, <1>7, <2>1 DEF Without
  <2>3. Len(h) = IF Len(f) = 0 THEN 1 ELSE Len(f)
    <3>1. CASE f # << >>
      BY <1>3, <2>1, <3>1
    <3> QED
      BY <1>3, <2>1, <3>1
  <2>4. Len(g) # 0
    BY <1>4, <1>7
  <2>5. Falls(Len(f), Len(g), Len(h), Len(t))
    BY <1>7, <2>2, <2>3, <2>4 DEF Falls
  <2> QED
    BY <1>5, <1>6, <2>5, PendingFalls
<1>8. CASE ~(g # << >> /\ Len(f) < 2)
  <2>1. m = << >>
    BY <1>2, <1>8
  <2>2. Len(t) = Len(g)
    BY <1>2, <2>1 DEF Without
  <2>3. Len(h) = IF Len(f) = 0 THEN 0 ELSE Len(f) - 1
    <3>1. CASE f # << >>
      BY <1>3, <2>1, <3>1
    <3> QED
      BY <1>3, <2>1, <3>1
  <2>4. Len(g) = 0 \/ Len(f) >= 2
    BY <1>4, <1>8
  <2>5. Falls(Len(f), Len(g), Len(h), Len(t))
    BY <2>2, <2>3, <2>4 DEF Falls
  <2> QED
    BY <1>5, <1>6, <2>5, PendingFalls
<1> QED
  BY <1>7, <1>8

LEMMA InitConsole == Init => ConsoleInv
<1> SUFFICES ASSUME Init PROVE ConsoleInv
  OBVIOUS
<1>1. /\ env \in Envs /\ state = 10 /\ gotFinish = FALSE
      /\ f_from_console = << >> /\ f_to_console = << >>
      /\ uart = [rx |-> << >>, tx |-> << >>, dlab |-> TRUE]
      /\ stdin = env.stdin /\ stdout = << >> /\ soc.sent = 0
  BY DEF Init
<1>2. env.stdin \in Seq(Codes) /\ env.output \in Seq(Codes)
  BY <1>1, SimDriverAssumption DEF Codes
<1>3. /\ DOMAIN uart = {"rx", "tx", "dlab"} /\ uart.rx = << >> /\ uart.tx = << >>
      /\ \A T : << >> \in Seq(T)
  BY <1>1
<1>4. \A T : Cat(<< >>, << >>) = << >>
  BY <1>3, CatEmpty
<1>5. \A s \in Seq(Codes) : First(0, s) = << >>
  BY DEF First
<1>6. InputInv
  <2>1. Given = 0 /\ \A i \in 1 .. Len(stdin) : stdin[i] = env.stdin[Given + i]
    BY <1>1, <1>2 DEF Given
  <2>2. TypedSoFar = << >>
    BY <1>2, <1>5, <2>1, FlatMapEmpty DEF TypedSoFar
  <2>3. InPath = Cat(TypedSoFar, << >>)
    BY <1>1, <1>3, <1>4, <2>2 DEF InPath
  <2> QED
    BY <1>1, <1>2, <1>3, <2>1, <2>3 DEF InputInv
<1>7. OutputInv
  <2>1. OutPath = << >>
    BY <1>1, <1>3, <1>4 DEF OutPath
  <2>2. FlatMap(PutChar, << >>) = << >>
    BY FlatMapEmpty
  <2>3. Cat(stdout, FlatMap(PutChar, OutPath)) = FlatMap(PutChar, First(soc.sent, env.output))
    BY <1>1, <1>2, <1>4, <1>5, <2>1, <2>2
  <2> QED
    BY <1>1, <1>2, <1>3, <2>3 DEF OutputInv, Wrote
<1>8. DrainInv
  BY <1>1, <1>3 DEF DrainInv
<1> QED
  BY <1>1, <1>3, <1>6, <1>7, <1>8 DEF ConsoleInv

LEMMA DrainKept ==
  ASSUME Slots = 2, DrainInv, OutputInv, DOMAIN uart = {"rx", "tx", "dlab"}, console_cnx, rl_to_console,
         FSM, state \in 0 .. 23, ~gotFinish, ~gotFinish'
  PROVE  DrainInv'
<1>1. /\ Len(f_to_console) <= 2 /\ Len(uart.tx) <= 2
      /\ state >= 17 => Backlog <= EdgesLeft(state)
  BY DEF DrainInv
<1>2. /\ Len(f_to_console)' <= 2 /\ Len(uart.tx)' <= 2
      /\ Backlog \in Nat /\ Backlog' \in 0 .. 4
      /\ Backlog' <= IF Backlog = 0 THEN 0 ELSE Backlog - 1
  BY <1>1, BacklogFalls
<1>3. \/ state' = state \/ state' = state + 1
      \/ state' \in 0 .. 11 \/ (state \in {21, 22} /\ state' = 23)
  BY FSMGoesOn
<1>4. ASSUME state' >= 17 PROVE Backlog' <= EdgesLeft(state')
  <2> SUFFICES ASSUME NEW s, s = state, NEW t, t = state', NEW a, a = Backlog, NEW b, b = Backlog'
               PROVE  b <= EdgesLeft(t)
    OBVIOUS
  <2>1. /\ s \in 0 .. 23 /\ t >= 17 /\ a \in Nat /\ b \in 0 .. 4
        /\ s >= 17 => a <= EdgesLeft(s)
        /\ b <= IF a = 0 THEN 0 ELSE a - 1
        /\ t = s \/ t = s + 1 \/ t \in 0 .. 11 \/ (s \in {21, 22} /\ t = 23)
    BY <1>1, <1>2, <1>3, <1>4
  <2> QED
    BY <2>1 DEF EdgesLeft
<1>5. EdgesLeft(state)' = EdgesLeft(state')
  BY DEF EdgesLeft
<1> QED
  BY <1>2, <1>4, <1>5 DEF DrainInv

(* Steps that leave the console alone, on one side or on both.             *)
LEMMA InputSame ==
  ASSUME InputInv, UNCHANGED <<env, stdin, f_from_console>>, uart'.rx = uart.rx
  PROVE  InputInv'
<1>1. Given' = Given /\ InPath' = InPath
  BY DEF Given, InPath
<1>2. TypedSoFar' = TypedSoFar
  BY DEF Given, TypedSoFar
<1> QED
  BY <1>1, <1>2 DEF InputInv

LEMMA OutputSame ==
  ASSUME OutputInv, UNCHANGED <<env, stdout, f_to_console>>, uart'.tx = uart.tx, soc'.sent = soc.sent
  PROVE  OutputInv'
<1>1. OutPath' = OutPath
  BY DEF OutPath
<1>2. Wrote(stdout, OutPath, env.output, soc.sent)' = Wrote(stdout, OutPath, env.output, soc.sent)
  BY <1>1 DEF Wrote, FlatMap, PutChar, First, Cat
<1> QED
  BY <1>2 DEF OutputInv

LEMMA ConsoleRests ==
  ASSUME ConsoleInv, UNCHANGED driverVars, soc'.sent = soc.sent,
         uart'.rx = uart.rx, uart'.tx = uart.tx, DOMAIN uart' = DOMAIN uart
  PROVE  ConsoleInv'
<1>1. /\ UNCHANGED <<env, main_time, gotFinish, state>>
      /\ UNCHANGED <<f_from_console, f_to_console, stdin, stdout>>
  BY DEF driverVars, clockVars, fsmVars, consoleVars
<1>2. InputInv'
  BY <1>1, InputSame DEF ConsoleInv
<1>3. OutputInv'
  BY <1>1, OutputSame DEF ConsoleInv
<1>4. DrainInv'
  BY <1>1 DEF ConsoleInv, DrainInv, Backlog, Pending, EdgesLeft
<1> QED
  BY <1>1, <1>2, <1>3, <1>4 DEF ConsoleInv

LEMMA MainKeepsConsole ==
  ASSUME Slots = 2, SimInv, SimInv', ConsoleInv, main
  PROVE  ConsoleInv'
<1>1. /\ ClockInv /\ ClockInv' /\ SoCType
      /\ main_time \in {0, 1} => BeforeReset
      /\ main_time \notin {0, 1} => CoreInv
  BY DEF SimInv
<1>2. /\ ~gotFinish
      /\ RST_N' = (IF main_time > 10 THEN 1 ELSE RST_N)
      /\ CLK' = (CASE main_time % 10 = 1 -> 1 [] main_time % 10 = 6 -> 0 [] OTHER -> CLK)
      /\ main_time' = Later
      /\ gotFinish' = (CLK' = 0 /\ auto_finish)
      /\ CLK = 0 /\ CLK' = 1 =>
           IF RST_N' = 0 THEN ResetEdge ELSE FSM /\ ConsoleEdge /\ ControllerEdge
      /\ ~(CLK = 0 /\ CLK' = 1) =>
           UNCHANGED <<fsmVars, fControlReq, fControlRsp, consoleVars, controlVars, uart>>
      /\ UNCHANGED env /\ UNCHANGED soc
  BY DEF main, Deasserted
<1>3. main_time \in {0, 1, 6, 11, 16}
  BY <1>1 DEF ClockInv, Times
<1>4. /\ DOMAIN uart = {"rx", "tx", "dlab"}
      /\ main_time \in {0, 1} =>
           f_from_console = << >> /\ f_to_console = << >> /\ uart.rx = << >> /\ uart.tx = << >>
      /\ InputInv /\ OutputInv /\ DrainInv
  BY DEF ConsoleInv
<1>5. CLK' = 1 => ~gotFinish'
  <2>1. CLK' = 1 => CLK' # 0
    OBVIOUS
  <2> QED
    BY <1>2, <2>1, Zenon
<1>6. CASE main_time \in {0, 6, 16}
  <2>1. CLK' = 0 \/ CLK = 1
    BY <1>1, <1>2, <1>6 DEF ClockInv
  <2>2. /\ UNCHANGED <<f_from_console, f_to_console, stdin, stdout, uart>> /\ UNCHANGED state
        /\ soc'.sent = soc.sent
    BY <1>1, <1>2, <2>1 DEF fsmVars, consoleVars, ClockInv
  <2>3. main_time' \in {0, 1} => main_time \in {0, 1}
    BY <1>2, <1>6, LaterFacts
  <2>4. InputInv'
    BY <1>2, <1>4, <2>2, InputSame
  <2>5. OutputInv'
    BY <1>2, <1>4, <2>2, OutputSame
  <2>6. gotFinish' => state' = 23
    BY <1>2, <2>2 DEF auto_finish
  <2>7. DrainInv'
    BY <1>4, <2>2, <2>6 DEF DrainInv, Backlog, Pending, EdgesLeft
  <2> QED
    BY <1>4, <2>2, <2>3, <2>4, <2>5, <2>7 DEF ConsoleInv
<1>7. CASE main_time = 1
  <2>1. CLK = 0 /\ CLK' = 1 /\ RST_N' = 0 /\ main_time' = 6
    BY <1>1, <1>2, <1>7, LaterFacts DEF ClockInv
  <2>2. /\ f_from_console' = << >> /\ f_to_console' = << >>
        /\ uart' = [uart EXCEPT !.rx = << >>, !.tx = << >>] /\ state' = 0
        /\ UNCHANGED <<stdin, stdout>>
    BY <1>2, <2>1 DEF ResetEdge
  <2>3. UNCHANGED <<f_from_console, f_to_console>> /\ uart'.rx = uart.rx /\ uart'.tx = uart.tx
        /\ DOMAIN uart' = {"rx", "tx", "dlab"} /\ soc'.sent = soc.sent
    BY <1>2, <1>4, <1>7, <2>2
  <2>4. InputInv'
    BY <1>2, <1>4, <2>2, <2>3, InputSame
  <2>5. OutputInv'
    BY <1>2, <1>4, <2>2, <2>3, OutputSame
  <2>6. ~gotFinish'
    BY <1>5, <2>1
  <2>7. DrainInv'
    BY <1>4, <2>2, <2>3, <2>6 DEF DrainInv
  <2> QED
    BY <2>1, <2>3, <2>4, <2>5, <2>7 DEF ConsoleInv
<1>8. CASE main_time = 11
  <2>1. CLK = 0 /\ CLK' = 1 /\ RST_N' = 1 /\ main_time' = 16
    BY <1>1, <1>2, <1>8, LaterFacts DEF ClockInv
  <2>2. FSM /\ console_cnx /\ rl_to_console /\ rl_from_console
    BY <1>2, <2>1 DEF ConsoleEdge
  <2>3. state \in 0 .. 23
    BY <1>1, <1>8 DEF CoreInv, StateInv
  <2>4. ~gotFinish'
    BY <1>5, <2>1
  <2>5. InputInv'
    BY <1>2, <1>4, <2>2, InputKept
  <2>6. OutputInv'
    BY <1>2, <1>4, <2>2, OutputKept
  <2>7. DrainInv'
    BY <1>2, <1>4, <2>2, <2>3, <2>4, DrainKept
  <2>8. DOMAIN uart' = {"rx", "tx", "dlab"}
    BY <1>4, <2>2, UartEdge
  <2> QED
    BY <2>1, <2>5, <2>6, <2>7, <2>8 DEF ConsoleInv
<1> QED
  BY <1>3, <1>6, <1>7, <1>8

(* A character more, as a sequence of its own.                             *)
One(x) == <<x>>

LEMMA OneMore ==
  ASSUME NEW S, NEW x \in S
  PROVE  One(x) \in Seq(S) /\ \A q \in Seq(S) : Append(q, x) = Cat(q, One(x))
<1>1. One(x) \in Seq(S)
  BY DEF One
<1>2. ASSUME NEW q \in Seq(S) PROVE Append(q, x) = q \o <<x>>
  BY AppendIsConcat
<1> QED
  BY <1>1, <1>2 DEF One, Cat

LEMMA CharWritten ==
  ASSUME NEW q \in Seq(Codes), NEW x \in Codes
  PROVE  FlatMap(PutChar, Cat(q, One(x))) = Cat(FlatMap(PutChar, q), PutChar[x])
<1>1. FlatMap(PutChar, Append(q, x)) = Cat(FlatMap(PutChar, q), PutChar[x])
  BY CharFacts, FlatMapAppend
<1>2. Append(q, x) = Cat(q, One(x))
  BY OneMore
<1> QED
  BY <1>1, <1>2

LEMMA OutputGrows ==
  ASSUME NEW f \in Seq(Codes), NEW g \in Seq(Codes), NEW o \in Seq(Shown),
         NEW s \in Seq(Codes), NEW n \in Nat, n < Len(s), NEW x \in Codes, x = s[n + 1],
         Wrote(o, Cat(f, g), s, n)
  PROVE  Cat(g, One(x)) \in Seq(Codes) /\ Wrote(o, Cat(f, Cat(g, One(x))), s, n + 1)
<1>1. One(x) \in Seq(Codes)
  BY OneMore
<1>2. PutChar[x] \in Seq(Shown) /\ PutChar \in [Codes -> Seq(Shown)]
  BY CharFacts
<1>3. Cat(g, One(x)) \in Seq(Codes) /\ Cat(f, g) \in Seq(Codes)
  BY <1>1, CatType
<1>4. Cat(f, Cat(g, One(x))) = Cat(Cat(f, g), One(x))
  BY <1>1, CatAssociative
<1>5. FlatMap(PutChar, Cat(Cat(f, g), One(x))) = Cat(FlatMap(PutChar, Cat(f, g)), PutChar[x])
  BY <1>3, CharWritten
<1>6. FlatMap(PutChar, First(n + 1, s)) = Cat(FlatMap(PutChar, First(n, s)), PutChar[x])
  BY CharsExtend
<1>7. FlatMap(PutChar, Cat(f, g)) \in Seq(Shown)
  BY <1>2, <1>3, FlatMapType
<1>8. Cat(o, Cat(FlatMap(PutChar, Cat(f, g)), PutChar[x]))
        = Cat(Cat(o, FlatMap(PutChar, Cat(f, g))), PutChar[x])
  BY <1>2, <1>7, CatAssociative
<1> QED
  BY <1>3, <1>4, <1>5, <1>6, <1>8 DEF Wrote

(* The program writes a character: the processor runs, so the driver has   *)
(* not come to the state in which it waits no more.                        *)
LEMMA TxKeepsConsole ==
  ASSUME Slots = 2, SimInv, ConsoleInv, ns16550_txchar
  PROVE  ConsoleInv'
<1>1. /\ soc.runs /\ soc.sent < Len(env.output) /\ Len(uart.tx) < 2 /\ ~gotFinish
      /\ uart' = [uart EXCEPT !.tx = Append(@, env.output[soc.sent + 1])]
      /\ soc' = [soc EXCEPT !.sent = @ + 1]
      /\ UNCHANGED <<driverVars, controlVars>>
  BY DEF ns16550_txchar, Simulating
<1>2. /\ UNCHANGED <<env, main_time, gotFinish, state>>
      /\ UNCHANGED <<f_from_console, f_to_console, stdin, stdout>>
  BY <1>1 DEF driverVars, clockVars, fsmVars, consoleVars
<1>3. main_time \notin {0, 1}
  BY Acting DEF ns16550_txchar
<1>4. DOMAIN uart = {"rx", "tx", "dlab"} /\ DOMAIN soc = {"up", "runs", "mem", "instret", "sent"}
  BY DEF ConsoleInv, SimInv, SoCType
<1>5. /\ DOMAIN uart' = {"rx", "tx", "dlab"} /\ uart'.rx = uart.rx
      /\ uart'.tx = Append(uart.tx, env.output[soc.sent + 1]) /\ soc'.sent = soc.sent + 1
  BY <1>1, <1>4
<1>6. InputInv'
  BY <1>2, <1>5, InputSame DEF ConsoleInv
<1>7. OutputInv'
  <2>1. OutputInv
    BY DEF ConsoleInv
  <2> SUFFICES ASSUME NEW f \in Seq(Codes), f = f_to_console, NEW g \in Seq(Codes), g = uart.tx,
                      NEW o \in Seq(Shown), o = stdout, NEW s \in Seq(Codes), s = env.output,
                      NEW n \in Nat, n = soc.sent, NEW x \in Codes, x = s[n + 1], n < Len(s)
               PROVE  OutputInv'
    BY <1>1, <2>1 DEF OutputInv
  <2>2. uart'.tx = Cat(g, One(x)) /\ soc'.sent = n + 1
    BY <1>5, OneMore
  <2>3. Wrote(o, Cat(f, g), s, n)
    BY <2>1 DEF OutputInv, OutPath
  <2>4. Cat(g, One(x)) \in Seq(Codes) /\ Wrote(o, Cat(f, Cat(g, One(x))), s, n + 1)
    BY <2>3, OutputGrows
  <2>5. Wrote(stdout, OutPath, env.output, soc.sent)' = Wrote(o, Cat(f, Cat(g, One(x))), s, n + 1)
    BY <1>2, <2>2 DEF Wrote, FlatMap, PutChar, First, OutPath, Cat
  <2>6. n + 1 \in 0 .. Len(s)
    OBVIOUS
  <2> QED
    BY <1>2, <2>1, <2>2, <2>4, <2>5, <2>6 DEF OutputInv
<1>8. DrainInv'
  <2>1. state' = 16 /\ ~gotFinish'
    BY <1>1, <1>2, RunsAt16
  <2>2. Len(f_to_console)' <= 2
    BY <1>2 DEF ConsoleInv, DrainInv
  <2>3. Len(uart.tx)' <= 2
    <3>1. uart.tx \in Seq(Codes) /\ env.output[soc.sent + 1] \in Codes
      BY <1>1 DEF ConsoleInv, OutputInv
    <3>2. Len(Append(uart.tx, env.output[soc.sent + 1])) = Len(uart.tx) + 1 /\ Len(uart.tx) \in Nat
      BY <3>1
    <3> QED
      BY <1>1, <1>5, <3>2
  <2> QED
    BY <2>1, <2>2, <2>3 DEF DrainInv
<1> QED
  BY <1>2, <1>3, <1>5, <1>6, <1>7, <1>8 DEF ConsoleInv

LEMMA NextKeepsConsole ==
  ASSUME Slots = 2, SimInv, SimInv', ConsoleInv, [Next]_vars
  PROVE  ConsoleInv'
<1>1. DOMAIN soc = {"up", "runs", "mem", "instret", "sent"} /\ DOMAIN uart = {"rx", "tx", "dlab"}
  BY DEF SimInv, SoCType, ConsoleInv
<1>2. CASE main
  BY <1>2, MainKeepsConsole
<1>3. CASE SoCResets
  <2>1. UNCHANGED driverVars /\ UNCHANGED uart /\ soc' = [soc EXCEPT !.up = TRUE]
    BY <1>3 DEF SoCResets
  <2> QED
    BY <1>1, <2>1, ConsoleRests
<1>4. CASE TargetAnswers
  <2>1. UNCHANGED driverVars /\ UNCHANGED uart
    BY <1>4 DEF TargetAnswers
  <2>2. soc'.sent = soc.sent
    <3>1. \E r, m : soc' = [soc EXCEPT !.runs = r, !.mem = m]
      BY <1>4 DEF TargetAnswers
    <3> QED
      BY <1>1, <3>1
  <2> QED
    BY <2>1, <2>2, ConsoleRests
<1>5. CASE ProgramStops
  <2>1. UNCHANGED driverVars /\ UNCHANGED uart
    BY <1>5 DEF ProgramStops
  <2>2. PICK n : soc' = [soc EXCEPT !.runs = FALSE, !.instret = n]
    BY <1>5 DEF ProgramStops
  <2> QED
    BY <1>1, <2>1, <2>2, ConsoleRests
<1>6. CASE ns16550_init
  <2>1. UNCHANGED driverVars /\ UNCHANGED soc /\ uart' = [uart EXCEPT !.dlab = FALSE]
    BY <1>6 DEF ns16550_init
  <2> QED
    BY <1>1, <2>1, ConsoleRests
<1>7. CASE ns16550_txchar
  BY <1>7, TxKeepsConsole
<1>8. CASE UNCHANGED vars
  BY <1>8, ConsoleRests DEF vars
<1> QED
  BY <1>2, <1>3, <1>4, <1>5, <1>6, <1>7, <1>8 DEF Next

(* What ConsoleInv says of the two streams is what is meant.               *)
LEMMA TypedIs ==
  ASSUME InputInv
  PROVE  Typed = TypedSoFar /\ TypedSoFar \in Seq(Codes)
<1> SUFFICES ASSUME NEW s \in Seq(Codes), s = env.stdin, NEW n \in Nat, n = Given, n <= Len(s)
             PROVE  Typed = TypedSoFar /\ TypedSoFar \in Seq(Codes)
  <2>1. Len(stdin) \in Nat /\ Len(env.stdin) \in Nat /\ env.stdin \in Seq(Codes) /\ Given \in Nat
    BY DEF InputInv
  <2>2. Given <= Len(env.stdin)
    BY <2>1 DEF Given
  <2> QED
    BY <2>1, <2>2
<1> DEFINE q == First(n, s)
<1>1. q \in Seq(Codes) /\ DOMAIN q = 1 .. n /\ \A k \in 1 .. n : q[k] = s[k] /\ s[k] \in Codes
  BY DEF First
<1> HIDE DEF q
<1>2. [k \in DOMAIN q |-> Receive[q[k]]] = [k \in 1 .. n |-> Received(s[k])]
  <2>1. \A k \in 1 .. n : Receive[q[k]] = Received(s[k])
    BY <1>1 DEF Receive
  <2> QED
    BY <1>1, <2>1
<1>3. TypedSoFar = FlatMap(Receive, q)
  BY DEF TypedSoFar, q
<1>4. FlatMap(Receive, q) \in Seq(Codes)
  BY <1>1, CharFacts, FlatMapType
<1>5. Typed = FlattenSeq([k \in 1 .. n |-> Received(s[k])])
  BY DEF Typed, Given
<1> QED
  BY <1>2, <1>3, <1>4, <1>5 DEF FlatMap

LEMMA PrintedIs ==
  ASSUME NEW q \in Seq(Codes)
  PROVE  Printed(q) = FlatMap(PutChar, q)
<1>1. \A k \in DOMAIN q : PutChar[q[k]] = c_putchar(q[k])
  BY DEF PutChar
<1>2. [k \in DOMAIN q |-> PutChar[q[k]]] = [k \in DOMAIN q |-> c_putchar(q[k])]
  BY <1>1
<1> QED
  BY <1>2 DEF Printed, FlatMap

LEMMA PrefixIs ==
  ASSUME NEW S, NEW T, T \subseteq S, NEW p \in Seq(S), NEW e \in Seq(T), NEW a, a = Cat(p, e)
  PROVE  IsPrefix(p, a) /\ \A k \in Len(p) + 1 .. Len(a) : e # << >> /\ a[k] \in T
<1>1. e \in Seq(S) /\ Len(e) \in Nat /\ Len(p) \in Nat /\ \A k \in 1 .. Len(e) : e[k] \in T
  <2>1. Len(e) \in Nat /\ \A k \in 1 .. Len(e) : e[k] \in T
    OBVIOUS
  <2>2. e = [k \in 1 .. Len(e) |-> e[k]] /\ \A k \in 1 .. Len(e) : e[k] \in S
    BY <2>1
  <2> QED
    BY <2>1, <2>2
<1>2. a \in Seq(S) /\ Len(a) = Len(p) + Len(e)
  BY <1>1, CatType
<1>3. \A k \in 1 .. Len(p) + Len(e) : a[k] = IF k <= Len(p) THEN p[k] ELSE e[k - Len(p)]
  BY <1>1, CatElements
<1>4. SubSeq(p, 1, Len(p)) = p
  BY SubSeqFull
<1>5. SubSeq(a, 1, Len(p)) = p
  <2> DEFINE b == SubSeq(a, 1, Len(p))
  <2>1. b \in Seq(S) /\ Len(b) = Len(p) /\ \A k \in 1 .. Len(p) : b[k] = a[k]
    BY <1>1, <1>2
  <2> HIDE DEF b
  <2>2. \A k \in 1 .. Len(p) : b[k] = p[k]
    <3>1. \A k \in 1 .. Len(p) : k \in 1 .. Len(p) + Len(e) /\ k <= Len(p)
      BY <1>1
    <3> QED
      BY <1>3, <2>1, <3>1
  <2>3. b = p
    BY <2>1, <2>2, SeqEqual
  <2> QED
    BY <2>3 DEF b
<1>6. ASSUME NEW k \in Len(p) + 1 .. Len(a) PROVE e # << >> /\ a[k] \in T
  <2>1. k \in 1 .. Len(p) + Len(e) /\ ~(k <= Len(p)) /\ k - Len(p) \in 1 .. Len(e)
    BY <1>1, <1>2
  <2>2. a[k] = e[k - Len(p)]
    BY <1>3, <2>1
  <2>3. Len(e) # 0
    BY <1>1, <2>1
  <2>4. e # << >>
    BY <2>3
  <2> QED
    BY <1>1, <2>1, <2>2, <2>4
<1> QED
  BY <1>1, <1>2, <1>4, <1>5, <1>6 DEF IsPrefix

(* With the FIFOs of the code, of two slots each, and whatever is typed    *)
(* and written: characters go through the console in order, none lost or   *)
(* doubled, and all that the program wrote has been printed at the end.    *)
THEOREM ConsoleGoesInOrder ==
  ASSUME Slots = 2
  PROVE  Spec => []ConsoleInOrder
<1>1. Init => SimInv /\ ConsoleInv
  BY InitInv, InitConsole
<1>2. SimInv /\ ConsoleInv /\ [Next]_vars => SimInv' /\ ConsoleInv'
  BY NextKeeps, NextKeepsConsole
<1>3. ConsoleInv => ConsoleInOrder
  <2> SUFFICES ASSUME ConsoleInv PROVE ConsoleInOrder
    OBVIOUS
  <2>1. InputInv /\ OutputInv /\ DrainInv
    BY DEF ConsoleInv
  <2>2. PICK e \in Seq({EOF}) : InPath = Cat(TypedSoFar, e) /\ (e # << >> => stdin = << >>)
    BY <2>1 DEF InputInv
  <2>3. Typed = TypedSoFar /\ TypedSoFar \in Seq(Codes) /\ Arrived = InPath
    BY <2>1, TypedIs DEF Arrived, InPath, Cat
  <2>4. /\ IsPrefix(Typed, Arrived)
        /\ \A i \in Len(Typed) + 1 .. Len(Arrived) : stdin = << >> /\ Arrived[i] = EOF
    <3>1. {EOF} \subseteq Codes
      BY DEF EOF, Codes
    <3>2. ASSUME NEW T, T \subseteq Codes, NEW r \in Seq(T), NEW p \in Seq(Codes), NEW a, a = Cat(p, r)
          PROVE  IsPrefix(p, a) /\ \A k \in Len(p) + 1 .. Len(a) : r # << >> /\ a[k] \in T
      BY <3>2, PrefixIs
    <3>3. /\ IsPrefix(Typed, Arrived)
          /\ \A k \in Len(Typed) + 1 .. Len(Arrived) : e # << >> /\ Arrived[k] \in {EOF}
      BY <2>2, <2>3, <3>1, <3>2
    <3> QED
      BY <2>2, <3>3
  <2>5. OutPath \in Seq(Codes) /\ First(soc.sent, env.output) \in Seq(Codes)
    <3>1. /\ env.output \in Seq(Codes) /\ soc.sent \in 0 .. Len(env.output)
          /\ f_to_console \in Seq(Codes) /\ uart.tx \in Seq(Codes)
      BY <2>1 DEF OutputInv
    <3>2. ASSUME NEW s \in Seq(Codes), NEW n \in 0 .. Len(s) PROVE First(n, s) \in Seq(Codes)
      BY DEF First
    <3> QED
      BY <3>1, <3>2, CatType DEF OutPath
  <2>6. stdout \o Printed(f_to_console \o uart.tx) = Printed(SubSeq(env.output, 1, soc.sent))
    <3>1. Wrote(stdout, OutPath, env.output, soc.sent)
      BY <2>1 DEF OutputInv
    <3>2. Cat(stdout, Printed(OutPath)) = Printed(First(soc.sent, env.output))
      BY <2>5, <3>1, PrintedIs DEF Wrote
    <3> QED
      BY <3>2 DEF Cat, OutPath, First
  <2>7. gotFinish => f_to_console \o uart.tx = << >>
    <3> SUFFICES ASSUME gotFinish PROVE f_to_console \o uart.tx = << >>
      OBVIOUS
    <3>1. Backlog <= 0
      BY <2>1 DEF DrainInv, EdgesLeft
    <3>2. f_to_console \in Seq(Codes) /\ uart.tx \in Seq(Codes)
      BY <2>1 DEF OutputInv
    <3>3. Len(f_to_console) = 0 /\ Len(uart.tx) = 0
      <4>1. Len(f_to_console) \in Nat /\ Len(uart.tx) \in Nat
        BY <3>2
      <4>2. \A m, n \in Nat : Pending(m, n) <= 0 => m = 0 /\ n = 0
        BY DEF Pending
      <4> QED
        BY <3>1, <4>1, <4>2 DEF Backlog
    <3> QED
      BY <3>2, <3>3
  <2> QED
    BY <2>4, <2>6, <2>7 DEF ConsoleInOrder
<1> QED
  BY <1>1, <1>2, <1>3, PTL DEF Spec

-----------------------------------------------------------------------------
(* The model after the first k sections have been scanned.                 *)
Covers(elf, k, a) == At(elf, k) <= a /\ a < At(elf, k) + Size(elf, k)
CoveringTo(elf, k, a) == {j \in Sections(elf) : j <= k /\ Covers(elf, j, a)}

ByteRight(elf, k, a, byte) ==
    \/ CoveringTo(elf, k, a) = {} /\ byte = Unspecified
    \/ \E j \in CoveringTo(elf, k, a) :
         /\ \A h \in CoveringTo(elf, k, a) : h <= j
         /\ byte = elf.sections[j].bytes[a - At(elf, j) + 1]

Fields == {"base_addr", "limit", "memp", "min_addr", "max_addr", "pc_start", "pc_exit"}

MemoryRight(elf, k, m) ==
    /\ DOMAIN m = Fields /\ m.base_addr = 0 /\ m.limit = MemSize
    /\ DOMAIN m.memp = 0 .. MemSize - 1
    /\ \A a \in 0 .. MemSize - 1 : ByteRight(elf, k, a, m.memp[a])

BoundsRight(elf, k, m) ==
    LET S == {j \in Sections(elf) : j <= k} IN
    /\ m.min_addr \in Nat /\ m.max_addr \in Nat /\ m.max_addr <= MemSize + 4
    /\ \A j \in S : m.min_addr <= At(elf, j) /\ At(elf, j) + Size(elf, j) + 4 <= m.max_addr
    /\ S = {} => m.min_addr = NoAddr /\ m.max_addr = 0
    /\ S # {} => \E j \in S : m.min_addr = At(elf, j)

ExitRight(m) == m.pc_exit \in Nat /\ (m.pc_exit = NoAddr \/ m.pc_exit % 4 = 0)

(* What the driver gets: the image, and what it asks for of it.            *)
Image(e, m) ==
    LET elf == e.SIM_ELF_FILENAME IN
    /\ elf # NULL /\ m # NULL
    /\ DOMAIN m.memp = 0 .. MemSize - 1
    /\ m.base_addr = 0 /\ m.limit = MemSize
    /\ \A a \in 0 .. MemSize - 1 : m.memp[a] = ImageByte(elf, a)
    /\ m.min_addr \in Nat /\ m.max_addr \in Nat /\ m.max_addr <= MemSize + 4
    /\ m.max_addr > 0 => m.min_addr % 4 = 0
    /\ \A a \in 0 .. MemSize - 1 : Covering(elf, a) # {} => m.min_addr <= a /\ a < m.max_addr
    /\ ExitRight(m)

-----------------------------------------------------------------------------
(* The driver's registers, in each state.                                  *)
Registers == {"elf_file_loaded", "min_addr", "max_addr", "exit_pc", "addr", "start_instret",
              "end_instret"}

LoopOk ==
    /\ rg.addr \in Nat /\ rg.addr >= rg.min_addr
    /\ rg.max_addr > 0 => rg.addr % 4 = 0
    /\ state = 8 => rg.addr < rg.max_addr /\ rg.addr + 4 <= MemSize
    /\ state > 9 => rg.max_addr <= rg.addr

HostInv ==
    /\ env \in Envs /\ DOMAIN rg = Registers
    /\ main_time \in {0, 1} => ~rg.elf_file_loaded
    /\ state = 3 => p_state = c_mem_init(0, MemSize)
    /\ state \in 5 .. 9 => rg.elf_file_loaded
    /\ rg.elf_file_loaded =>
         /\ state >= 4 /\ Image(env, p_state)
         /\ state > 4 => /\ rg.min_addr = p_state.min_addr /\ rg.max_addr = p_state.max_addr
                         /\ rg.exit_pc = p_state.pc_exit
         /\ state > 6 => LoopOk

(* The bytes the driver sends: the image, with the breakpoint.             *)
Wanted(a) == IF a \in p_state.pc_exit .. p_state.pc_exit + 3 THEN EBREAK[a - p_state.pc_exit + 1]
             ELSE p_state.memp[a]

WordRight(r) ==
    /\ r.addr \in Nat /\ r.addr + 4 <= MemSize /\ DOMAIN r.word = 1 .. 4
    /\ \A i \in 1 .. 4 : r.word[i] = Wanted(r.addr + i - 1)

(* Command k of the path will still write the byte at a.                   *)
Owed(k, a) ==
    /\ CommandPath[k].op = "write"
    /\ CommandPath[k].addr <= a /\ a < CommandPath[k].addr + 4
    /\ k = 1 => step = 1 \/ (step = 2 /\ f_fabric_reqs # << >>)

SentTo == IF state = 8 THEN rg.addr + 4 ELSE rg.addr

WritesRight ==
    \A k \in 1 .. Len(CommandPath) :
        CommandPath[k].op = "write" => rg.elf_file_loaded /\ state > 6 /\ WordRight(CommandPath[k])

RequestRight ==
    f_fabric_reqs # << >> /\ Head(f_fabric_reqs).at = "memory" =>
      Head(f_fabric_reqs).addr = Command.addr /\ Head(f_fabric_reqs).word = Command.word

SentRight ==
    rg.elf_file_loaded /\ state > 6 =>
      \A a \in 0 .. MemSize - 1 : rg.min_addr <= a /\ a < SentTo =>
         soc.mem[a] = Wanted(a) \/ \E k \in 1 .. Len(CommandPath) : Owed(k, a)

ImageInv ==
    /\ HostInv /\ DOMAIN soc.mem = 0 .. MemSize - 1
    /\ WritesRight /\ RequestRight /\ SentRight
-----------------------------------------------------------------------------
(* The loop of the loader.  f[k] is the model after k sections.            *)
Fresh == [c_mem_init(0, MemSize) EXCEPT !.min_addr = NoAddr, !.max_addr = 0,
                                        !.pc_start = NoAddr, !.pc_exit = NoAddr]

Loads(f, elf, n, start, exit) ==
    \A k \in 0 .. n : f[k] = IF k = 0 THEN Fresh ELSE Scan(f[k - 1], elf.sections[k], start, exit)

IsLoop(f, elf, n, start, exit) ==
    f = [k \in 0 .. n |-> IF k = 0 THEN Fresh ELSE Scan(f[k - 1], elf.sections[k], start, exit)]

LEMMA LoadsExists ==
  ASSUME NEW elf, NEW start, NEW exit, NEW n \in Nat
  PROVE  \E f : IsLoop(f, elf, n, start, exit)
<1> DEFINE Next1(m, k) == Scan(m, elf.sections[k], start, exit)
           Solves(f, m) == f = [k \in 0 .. m |-> IF k = 0 THEN Fresh ELSE Next1(f[k - 1], k)]
           S == {m \in Nat : \E f : Solves(f, m)}
<1>1. 0 \in S
  <2> DEFINE f == [k \in 0 .. 0 |-> Fresh]
  <2>1. f = [k \in 0 .. 0 |-> IF k = 0 THEN Fresh ELSE Next1(f[k - 1], k)]
    <3> HIDE DEF Next1
    <3> QED
      OBVIOUS
  <2> QED
    BY <2>1
<1>2. ASSUME NEW m \in Nat, m \in S
      PROVE  m + 1 \in S
  <2> HIDE DEF Next1
  <2>1. PICK g : Solves(g, m)
    BY <1>2
  <2> DEFINE f == [k \in 0 .. m + 1 |-> IF k = m + 1 THEN Next1(g[m], m + 1) ELSE g[k]]
  <2>2. \A k \in 0 .. m : g[k] = IF k = 0 THEN Fresh ELSE Next1(g[k - 1], k)
    BY <2>1
  <2>3. ASSUME NEW k \in 0 .. m + 1
        PROVE  f[k] = IF k = 0 THEN Fresh ELSE Next1(f[k - 1], k)
    <3>1. CASE k = m + 1
      <4>1. k # 0 /\ k - 1 = m /\ m \in 0 .. m + 1 /\ m # m + 1
        BY <3>1
      <4>2. f[k] = Next1(g[m], m + 1) /\ f[m] = g[m]
        BY <3>1, <4>1
      <4> HIDE DEF f
      <4> QED
        BY <3>1, <4>1, <4>2
    <3>2. CASE k # m + 1 /\ k # 0
      <4>1. k \in 0 .. m /\ k - 1 \in 0 .. m + 1 /\ k - 1 # m + 1
        BY <3>2
      <4>2. f[k] = g[k] /\ f[k - 1] = g[k - 1]
        BY <3>2, <4>1
      <4> HIDE DEF f
      <4> QED
        BY <2>2, <3>2, <4>1, <4>2
    <3>3. CASE k = 0
      <4>1. 0 \in 0 .. m + 1 /\ 0 # m + 1 /\ 0 \in 0 .. m
        OBVIOUS
      <4>2. f[0] = g[0]
        BY <4>1
      <4> HIDE DEF f
      <4> QED
        BY <2>2, <3>3, <4>1, <4>2
    <3> QED
      BY <3>1, <3>2, <3>3
  <2>4. f = [k \in 0 .. m + 1 |-> f[k]]
    OBVIOUS
  <2> HIDE DEF f
  <2>5. f = [k \in 0 .. m + 1 |-> IF k = 0 THEN Fresh ELSE Next1(f[k - 1], k)]
    BY <2>3, <2>4
  <2> QED
    BY <2>5
<1>3. Nat \subseteq S
  <2> HIDE DEF S
  <2> QED
    BY <1>1, <1>2, NatsIn
<1>4. n \in S
  BY <1>3
<1> QED
  BY <1>4 DEF IsLoop

Count(elf, n) == n = Len(elf.sections)
StartName(e) == IF e.SIM_ELF_START_SYM = Unset THEN "_start" ELSE e.SIM_ELF_START_SYM
LoadOf(e) == c_mem_load_elf(c_mem_init(0, MemSize), e.SIM_ELF_FILENAME, 32,
                            e.SIM_ELF_START_SYM, e.SIM_ELF_EXIT_SYM)

LEMMA LoadedIs ==
  ASSUME NEW e, NEW n \in Nat, Count(e.SIM_ELF_FILENAME, n), LoadOf(e) # EXIT
  PROVE  \E f : Loads(f, e.SIM_ELF_FILENAME, n, StartName(e), ExitName(e)) /\ LoadOf(e) = f[n]
<1> DEFINE elf == e.SIM_ELF_FILENAME
           start == StartName(e)
           exit == ExitName(e)
           F(f) == f = [k \in 0 .. Len(elf.sections) |->
                          IF k = 0 THEN Fresh ELSE Scan(f[k - 1], elf.sections[k], start, exit)]
           after == CHOOSE f : F(f)
           r == LoadOf(e)
<1>1. r = EXIT \/ r = after[Len(elf.sections)]
  BY DEF LoadOf, c_mem_load_elf, Fresh, StartName, ExitName
<1>2. \E f : F(f)
  <2>1. PICK f : IsLoop(f, elf, n, start, exit)
    BY LoadsExists, Zenon
  <2>2. F(f)
    BY <2>1, Zenon DEF IsLoop, Count
  <2> QED
    BY <2>2, Zenon
<1>3. F(after)
  <2> HIDE DEF F
  <2> QED
    BY <1>2
<1>4. Loads(after, elf, n, start, exit)
  <2> HIDE DEF after
  <2> QED
    BY <1>3, Zenon DEF Loads, Count
<1>5. r = after[n]
  <2> HIDE DEF after, r
  <2>1. r # EXIT
    BY DEF r
  <2> QED
    BY <1>1, <2>1, Zenon DEF Count
<1> HIDE DEF after
<1> QED
  BY <1>4, <1>5, Zenon
-----------------------------------------------------------------------------
(* One section.                                                            *)
LEMMA WindowFacts ==
  ASSUME NEW s, s.addr \in Nat
  PROVE  sh_addr(s) \in Nat /\ (s.addr < Window => sh_addr(s) = s.addr)
BY MemModelAssumption DEF sh_addr

LEMMA MaxOfTwo ==
  ASSUME NEW x \in Int, NEW y \in Int
  PROVE  Max({x, y}) = IF x >= y THEN x ELSE y
<1> DEFINE z == IF x >= y THEN x ELSE y
<1>1. z \in {x, y} /\ \A u \in {x, y} : z >= u
  OBVIOUS
<1>2. \A v \in {x, y} : (\A u \in {x, y} : v >= u) => v = z
  OBVIOUS
<1> HIDE DEF z
<1>3. Max({x, y}) = z
  BY <1>1, <1>2 DEF Max
<1> QED
  BY <1>3 DEF z

Placed(s, A, L) == A = sh_addr(s) /\ L = Len(s.bytes)

(* t is m with section q, which is loadable, after the first k.            *)
Loading(elf, n, k, q, m, t) ==
    /\ n \in Nat /\ DOMAIN elf.sections = 1 .. n /\ SectionsFit(elf) /\ LowestFound(elf)
    /\ k \in Nat /\ q = k + 1 /\ q \in Sections(elf)
    /\ MemoryRight(elf, k, m) /\ BoundsRight(elf, k, m)
    /\ t = LoadSection(m, elf.sections[q]) /\ t # EXIT

LEMMA SectionPlace ==
  ASSUME NEW elf, SectionsFit(elf), NEW q \in Sections(elf)
  PROVE  /\ At(elf, q) \in Nat /\ Size(elf, q) \in Nat /\ At(elf, q) + Size(elf, q) < AddrMod
         /\ DOMAIN elf.sections[q].bytes = 1 .. Size(elf, q)
<1>1. /\ elf.sections[q].addr \in Nat /\ \E B : elf.sections[q].bytes \in Seq(B)
      /\ At(elf, q) + Size(elf, q) + 4 < AddrMod
  BY Zenon DEF SectionsFit
<1>2. At(elf, q) \in Nat
  BY <1>1, WindowFacts DEF At
<1>3. Size(elf, q) \in Nat /\ DOMAIN elf.sections[q].bytes = 1 .. Size(elf, q)
  BY <1>1 DEF Size
<1>4. At(elf, q) + Size(elf, q) < AddrMod
  BY <1>1, <1>2, <1>3, MemModelAssumption
<1> QED
  BY <1>2, <1>3, <1>4

IsLoaded(elf, q, m, t) ==
    /\ DOMAIN t = Fields /\ t.base_addr = 0 /\ t.limit = MemSize /\ t.pc_exit = m.pc_exit
    /\ At(elf, q) + Size(elf, q) <= MemSize
    /\ t.memp = Overwritten(m.memp, At(elf, q), elf.sections[q].bytes)
    /\ t.min_addr = (IF elf.sections[q].addr < m.min_addr THEN At(elf, q) ELSE m.min_addr)
    /\ t.max_addr = Max({m.max_addr, At(elf, q) + Size(elf, q) + 4})

LEMMA SectionFields ==
  ASSUME NEW elf, NEW n, NEW k, NEW q, NEW m, NEW t, Loading(elf, n, k, q, m, t)
  PROVE  IsLoaded(elf, q, m, t)
<1> DEFINE s == elf.sections[q]
           A == At(elf, q)
           L == Size(elf, q)
<1>7. Placed(s, A, L)
  BY DEF Placed, At, Size
<1>8. A \in Nat /\ L \in Nat /\ A + L < AddrMod
  BY SectionPlace, Zenon DEF Loading
<1>9. t = LoadSection(m, s) /\ t # EXIT /\ DOMAIN m = Fields /\ m.base_addr = 0 /\ m.limit = MemSize
  BY DEF Loading, MemoryRight
<1> HIDE DEF A, L, s
<1>1. ~bad_addr(m, A, L)
  BY <1>7, <1>8, <1>9 DEF LoadSection, Placed
<1>2. A + L <= MemSize
  <2>1. (A + L) % AddrMod = A + L
    <3> DEFINE x == A + L
    <3>1. x \in Nat /\ x < AddrMod /\ AddrMod \in Nat \ {0}
      BY <1>8, MemModelAssumption
    <3> HIDE DEF x
    <3>2. x % AddrMod = x
      BY <3>1
    <3> QED
      BY <3>2 DEF x
  <2>2. ~(m.limit < (A + L) % AddrMod)
    BY <1>1, <1>9 DEF bad_addr
  <2> DEFINE x == A + L
  <2>3. x \in Nat /\ MemSize \in Nat /\ ~(MemSize < x)
    BY <1>8, <1>9, <2>1, <2>2, SimDriverAssumption
  <2> HIDE DEF x
  <2>4. x <= MemSize
    BY <2>3
  <2> QED
    BY <2>4 DEF x
<1>3. t = [m EXCEPT !.memp = Overwritten(m.memp, A - 0, s.bytes),
                    !.min_addr = IF s.addr < m.min_addr THEN A ELSE m.min_addr,
                    !.max_addr = Max({m.max_addr, A + L + 4})]
  BY <1>1, <1>7, <1>8, <1>9 DEF LoadSection, Placed
<1>4. A - 0 = A
  BY <1>8
<1> DEFINE u == Overwritten(m.memp, A, s.bytes)
           v == IF s.addr < m.min_addr THEN A ELSE m.min_addr
           w == Max({m.max_addr, A + L + 4})
<1>5. t = [m EXCEPT !.memp = u, !.min_addr = v, !.max_addr = w]
  BY <1>3, <1>4
<1> HIDE DEF u, v, w
<1>6. /\ DOMAIN t = Fields /\ t.base_addr = 0 /\ t.limit = MemSize
      /\ t.memp = u /\ t.min_addr = v /\ t.max_addr = w /\ t.pc_exit = m.pc_exit
  BY <1>5, <1>9 DEF Fields
<1> QED
  BY <1>2, <1>6 DEF IsLoaded, u, v, w, A, L, s

LEMMA LoadedMemory ==
  ASSUME NEW elf, NEW n, NEW k, NEW q, NEW m, NEW t, Loading(elf, n, k, q, m, t)
  PROVE  MemoryRight(elf, q, t)
<1> DEFINE b == elf.sections[q].bytes
           A == At(elf, q)
           L == Size(elf, q)
           memp == m.memp
           N == Overwritten(memp, A, b)
<1>10. /\ n \in Nat /\ DOMAIN elf.sections = 1 .. n /\ k \in Nat /\ q = k + 1 /\ q \in Sections(elf)
       /\ SectionsFit(elf)
  BY DEF Loading
<1>11. DOMAIN memp = 0 .. MemSize - 1 /\ \A a \in 0 .. MemSize - 1 : ByteRight(elf, k, a, memp[a])
  BY DEF Loading, MemoryRight
<1>12. A \in Nat /\ L \in Nat /\ DOMAIN b = 1 .. L
  BY <1>10, SectionPlace, Zenon
<1>13. t.memp = N /\ DOMAIN t = Fields /\ t.base_addr = 0 /\ t.limit = MemSize
  <2>1. IsLoaded(elf, q, m, t)
    BY SectionFields, Zenon
  <2> QED
    BY <2>1 DEF IsLoaded
<1> HIDE DEF A, L, memp
<1>2. DOMAIN N = 0 .. MemSize - 1
  BY <1>11 DEF Overwritten
<1>3. ASSUME NEW a \in 0 .. MemSize - 1
      PROVE  N[a] = IF Covers(elf, q, a) THEN b[a - A + 1] ELSE memp[a]
  <2>1. a \in Int /\ (a - A + 1 \in 1 .. L <=> A <= a /\ a < A + L)
    BY <1>12, SimDriverAssumption
  <2>2. N[a] = IF a - A + 1 \in DOMAIN b THEN b[a - A + 1] ELSE memp[a]
    BY <1>11 DEF Overwritten
  <2>3. Covers(elf, q, a) <=> A <= a /\ a < A + L
    BY DEF Covers, A, L
  <2> HIDE DEF N
  <2> QED
    BY <1>12, <2>1, <2>2, <2>3
<1>4. ASSUME NEW a \in 0 .. MemSize - 1
      PROVE  ByteRight(elf, q, a, N[a])
  <2> DEFINE K == CoveringTo(elf, k, a)
             Q == CoveringTo(elf, q, a)
  <2>1. Q = K \cup {j \in Sections(elf) : j = q /\ Covers(elf, q, a)}
    <3>1. \A j \in Sections(elf) : j <= q <=> j <= k \/ j = q
      BY <1>10 DEF Sections
    <3> QED
      BY <3>1, Zenon DEF CoveringTo
  <2>2. \A j \in K : j <= k /\ j \in Nat
    <3>1. \A j \in Sections(elf) : j \in 1 .. n
      BY <1>10 DEF Sections
    <3> QED
      BY <1>10, <3>1 DEF CoveringTo
  <2>3. ByteRight(elf, k, a, memp[a])
    BY <1>11
  <2>4. CASE Covers(elf, q, a)
    <3>1. q \in Q /\ \A h \in Q : h <= q
      BY <1>10, <2>1, <2>2, <2>4
    <3>2. N[a] = b[a - At(elf, q) + 1]
      BY <1>3, <2>4 DEF A
    <3> HIDE DEF N, Q
    <3> QED
      BY <3>1, <3>2 DEF ByteRight, Q
  <2>5. CASE ~Covers(elf, q, a)
    <3>1. Q = K
      BY <2>1, <2>5
    <3>2. N[a] = memp[a]
      BY <1>3, <2>5
    <3> HIDE DEF N
    <3> QED
      BY <2>3, <3>1, <3>2 DEF ByteRight
  <2> QED
    BY <2>4, <2>5
<1> HIDE DEF N
<1> QED
  BY <1>2, <1>4, <1>13 DEF MemoryRight

LEMMA LoadedBounds ==
  ASSUME NEW elf, NEW n, NEW k, NEW q, NEW m, NEW t, Loading(elf, n, k, q, m, t)
  PROVE  BoundsRight(elf, q, t)
<1> DEFINE K == {j \in Sections(elf) : j <= k}
           Q == {j \in Sections(elf) : j <= q}
           lo == m.min_addr
           hi == m.max_addr
           at(j) == At(elf, j)
           size(j) == Size(elf, j)
           top(j) == at(j) + size(j) + 4
           addr == elf.sections[q].addr
           A == At(elf, q)
           L == Size(elf, q)
<1>13. /\ n \in Nat /\ DOMAIN elf.sections = 1 .. n /\ k \in Nat /\ q = k + 1 /\ q \in Sections(elf)
       /\ SectionsFit(elf) /\ LowestFound(elf) /\ BoundsRight(elf, k, m)
  BY DEF Loading
<1>14. /\ A + L <= MemSize /\ t.min_addr = (IF addr < lo THEN A ELSE lo)
       /\ t.max_addr = Max({hi, A + L + 4})
  <2>1. IsLoaded(elf, q, m, t)
    BY SectionFields, Zenon
  <2> QED
    BY <2>1 DEF IsLoaded
<1>15. A \in Nat /\ L \in Nat
  BY <1>13, SectionPlace
<1>1. /\ lo \in Nat /\ hi \in Nat /\ hi <= MemSize + 4
      /\ \A j \in K : lo <= at(j) /\ top(j) <= hi
      /\ K = {} => lo = NoAddr /\ hi = 0
      /\ K # {} => \E j \in K : lo = at(j)
  BY <1>13 DEF BoundsRight
<1>2. /\ \A j \in Sections(elf) : j \in 1 .. n /\ (j <= q <=> j <= k \/ j = q)
      /\ Q = K \cup {q} /\ K \subseteq Sections(elf) /\ \A j \in K : j <= k /\ j < q
  <2>1. \A j \in Sections(elf) : j \in 1 .. n /\ (j <= q <=> j <= k \/ j = q)
    BY <1>13 DEF Sections
  <2>2. Q = K \cup {q} /\ K \subseteq Sections(elf) /\ \A j \in K : j <= k
    <3>1. q \in Sections(elf)
      BY <1>13
    <3> QED
      BY <2>1, <3>1, Zenon
  <2>3. \A j \in K : j < q
    <3>1. \A j \in K : j \in 1 .. n /\ j <= k
      BY <2>1, <2>2, Zenon
    <3> HIDE DEF K
    <3> QED
      BY <1>13, <3>1
  <2> QED
    BY <2>1, <2>2, <2>3, Zenon
<1>3. addr \in Nat /\ addr < NoAddr /\ A \in Nat /\ (addr < Window => A = addr)
  <2>1. addr \in Nat /\ addr < NoAddr
    BY <1>13 DEF SectionsFit
  <2>2. A = sh_addr(elf.sections[q])
    BY DEF At
  <2> QED
    BY <2>1, <2>2, WindowFacts
<1>4. addr >= Window => (\A j \in Sections(elf) : q <= j) \/ (\E j \in Sections(elf) : j < q /\ at(j) <= A)
  BY <1>13, Zenon DEF LowestFound
<1>5. \A j \in Sections(elf) : at(j) \in Nat /\ size(j) \in Nat
  <2>1. ASSUME NEW j \in Sections(elf) PROVE at(j) \in Nat /\ size(j) \in Nat
    <3>1. elf.sections[j].addr \in Nat /\ \E B : elf.sections[j].bytes \in Seq(B)
      BY <1>13, Zenon DEF SectionsFit
    <3>2. At(elf, j) \in Nat
      BY <3>1, WindowFacts, Zenon DEF At
    <3>3. Size(elf, j) \in Nat
      <4>1. \A b : (\E B : b \in Seq(B)) => Len(b) \in Nat
        OBVIOUS
      <4> QED
        BY <3>1, <4>1, Zenon DEF Size
    <3> QED
      BY <3>2, <3>3
  <2> QED
    BY <2>1
<1>6. t.max_addr = (IF hi >= A + L + 4 THEN hi ELSE A + L + 4) /\ t.max_addr \in Nat
      /\ t.max_addr <= MemSize + 4
  <2>1. t.max_addr = (IF hi >= A + L + 4 THEN hi ELSE A + L + 4)
    <3>1. hi \in Int /\ A + L + 4 \in Int
      BY <1>1, <1>15
    <3>2. t.max_addr = Max({hi, A + L + 4})
      BY <1>14
    <3> HIDE DEF hi
    <3> QED
      BY <3>1, <3>2, MaxOfTwo
  <2>2. MemSize \in Nat /\ hi \in Nat /\ hi <= MemSize + 4
    BY <1>1, SimDriverAssumption, Zenon
  <2>3. A + L + 4 \in Nat /\ A + L + 4 <= MemSize + 4
    <3> HIDE DEF A, L
    <3> QED
      BY <1>14, <1>15, <2>2
  <2> HIDE DEF hi
  <2> QED
    BY <2>1, <2>2, <2>3
<1> DEFINE low == t.min_addr
           high == t.max_addr
<1>7. low = IF addr < lo THEN A ELSE lo
  BY <1>14
<1>8. A = at(q) /\ L = size(q) /\ Window \in Nat
  BY MemModelAssumption
<1>11. K = {} => lo = NoAddr
  BY <1>1
<1>12. hi \in Nat
  BY <1>1
<1> HIDE DEF at, size, K, Q, lo, hi, addr, low, high
(* The new lowest address is one of them, and no higher than any.          *)
<1>9. low \in Nat /\ low <= A /\ (\A j \in K : low <= at(j)) /\ \E j \in Q : low = at(j)
  <2>1. CASE K = {}
    <3>1. low = A
      BY <1>3, <1>7, <1>11, <2>1
    <3> QED
      BY <1>2, <1>3, <1>8, <2>1, <3>1
  <2>2. CASE K # {} /\ addr < lo
    <3>1. PICK i \in K : lo = at(i)
      BY <1>1, <2>2
    <3>2. low = A
      BY <1>7, <2>2
    <3>3. A <= lo
      <4>1. CASE addr < Window
        BY <1>1, <1>3, <2>2, <4>1
      <4>2. CASE addr >= Window
        <5>1. ~(q <= i) /\ i \in Sections(elf)
          <6>1. i \in Sections(elf) /\ i \in 1 .. n /\ i < q
            BY <1>2, <3>1, Zenon
          <6> QED
            BY <1>13, <6>1
        <5>2. PICK j \in Sections(elf) : j < q /\ at(j) <= A
          BY <1>4, <4>2, <5>1
        <5>3. at(i) < Window
          <6>1. elf.sections[i].addr \in Nat
            BY <1>13, <5>1 DEF SectionsFit
          <6>2. elf.sections[i].addr % Window < Window
            BY <6>1, MemModelAssumption
          <6> QED
            BY <6>2 DEF at, At, sh_addr
        <5> QED
          BY <1>1, <1>3, <1>8, <2>2, <3>1, <4>2, <5>3
      <4> QED
        BY <1>3, <1>8, <4>1, <4>2
    <3>4. \A j \in K : A <= at(j)
      <4>1. \A j \in K : lo <= at(j) /\ at(j) \in Nat /\ lo \in Nat
        BY <1>1, <1>2, <1>5, Zenon
      <4> QED
        BY <1>3, <3>3, <4>1
    <3> QED
      BY <1>2, <1>3, <1>8, <3>2, <3>4
  <2>3. CASE K # {} /\ ~(addr < lo)
    <3>1. PICK i \in K : lo = at(i)
      BY <1>1, <2>3
    <3>2. low = lo
      BY <1>7, <2>3
    <3>3. lo <= A
      <4>1. CASE addr < Window
        BY <1>1, <1>3, <2>3, <4>1
      <4>2. CASE addr >= Window
        <5>1. ~(q <= i) /\ i \in Sections(elf)
          <6>1. i \in Sections(elf) /\ i \in 1 .. n /\ i < q
            BY <1>2, <3>1, Zenon
          <6> QED
            BY <1>13, <6>1
        <5>2. PICK j \in Sections(elf) : j < q /\ at(j) <= A
          BY <1>4, <4>2, <5>1
        <5>3. j \in K
          <6>1. j \in 1 .. n /\ j <= k
            <7>1. j \in 1 .. n /\ j < q
              BY <1>2, <5>2, Zenon
            <7> QED
              BY <1>13, <7>1
          <6> QED
            BY <6>1, Zenon DEF K
        <5>4. lo <= at(j) /\ at(j) \in Nat /\ lo \in Nat
          BY <1>1, <1>5, <5>2, <5>3, Zenon
        <5> QED
          BY <1>3, <5>2, <5>4
      <4> QED
        BY <1>3, <1>8, <4>1, <4>2
    <3> QED
      BY <1>1, <1>2, <3>1, <3>2, <3>3
  <2> QED
    BY <2>1, <2>2, <2>3
<1>10. \A j \in Q : low <= at(j) /\ top(j) <= high
  <2>1. ASSUME NEW j \in Q PROVE low <= at(j) /\ top(j) <= high
    <3>1. CASE j = q
      BY <1>6, <1>8, <1>9, <1>12, <3>1 DEF high
    <3>2. CASE j \in K
      <4>1. top(j) <= hi /\ at(j) \in Nat /\ size(j) \in Nat
        BY <1>1, <1>2, <1>5, <3>2, Zenon
      <4>2. low <= at(j)
        BY <1>9, <3>2
      <4>3. hi <= high /\ high \in Nat
        BY <1>6, <1>12 DEF high
      <4> DEFINE u == top(j)
      <4>4. u \in Nat /\ u <= hi
        BY <4>1
      <4> HIDE DEF u
      <4>5. u <= high
        BY <1>12, <4>3, <4>4
      <4> QED
        BY <4>2, <4>5 DEF u
    <3> QED
      BY <1>2, <3>1, <3>2
  <2> QED
    BY <2>1
<1> QED
  BY <1>2, <1>6, <1>9, <1>10 DEF BoundsRight, at, size, Q, low, high
LEMMA SkippedSection ==
  ASSUME NEW elf, NEW n \in Nat, DOMAIN elf.sections = 1 .. n, NEW k \in Nat, NEW q, q = k + 1,
         q \notin Sections(elf), NEW m, MemoryRight(elf, k, m), BoundsRight(elf, k, m),
         NEW t, DOMAIN t = Fields, t.base_addr = m.base_addr, t.limit = m.limit, t.memp = m.memp,
         t.min_addr = m.min_addr, t.max_addr = m.max_addr
  PROVE  MemoryRight(elf, q, t) /\ BoundsRight(elf, q, t)
<1>1. \A j \in Sections(elf) : j <= q <=> j <= k
  BY DEF Sections
<1>2. \A a : CoveringTo(elf, q, a) = CoveringTo(elf, k, a)
  BY <1>1, Zenon DEF CoveringTo
<1>3. {j \in Sections(elf) : j <= q} = {j \in Sections(elf) : j <= k}
  BY <1>1, Zenon
<1>4. MemoryRight(elf, q, t)
  <2>1. \A a, b : ByteRight(elf, k, a, b) <=> ByteRight(elf, q, a, b)
    BY <1>2, Zenon DEF ByteRight
  <2>2. /\ m.base_addr = 0 /\ m.limit = MemSize /\ DOMAIN m.memp = 0 .. MemSize - 1
        /\ \A a \in 0 .. MemSize - 1 : ByteRight(elf, k, a, m.memp[a])
    BY DEF MemoryRight
  <2>3. \A a \in 0 .. MemSize - 1 : ByteRight(elf, q, a, t.memp[a])
    BY <2>1, <2>2
  <2> QED
    BY <2>2, <2>3 DEF MemoryRight
<1>5. BoundsRight(elf, q, t)
  BY <1>3, Zenon DEF BoundsRight
<1> QED
  BY <1>4, <1>5

LEMMA SymbolsFound ==
  ASSUME NEW m, DOMAIN m = Fields, ExitRight(m), NEW s, NEW start, NEW exit,
         NEW B, s.syms \in Seq(B),
         \A i \in DOMAIN s.syms : s.syms[i].name = exit => s.syms[i].value \in Nat /\ s.syms[i].value % 4 = 0,
         NEW t, t = FindSymbols(m, s, start, exit)
  PROVE  /\ DOMAIN t = Fields /\ t.base_addr = m.base_addr /\ t.limit = m.limit /\ t.memp = m.memp
         /\ t.min_addr = m.min_addr /\ t.max_addr = m.max_addr /\ ExitRight(t)
<1> DEFINE N == {i \in DOMAIN s.syms : s.syms[i].name = exit}
           v == IF exit = start THEN m.pc_exit ELSE IF N = {} THEN m.pc_exit ELSE s.syms[Max(N)].value
           u == IF {i \in DOMAIN s.syms : s.syms[i].name = start} = {} THEN m.pc_start
                ELSE s.syms[Max({i \in DOMAIN s.syms : s.syms[i].name = start})].value
<1>1. t = [m EXCEPT !.pc_start = u, !.pc_exit = v]
  BY DEF FindSymbols
<1>2. N # {} => Max(N) \in N
  <2>1. N \subseteq 1 .. Len(s.syms) /\ Len(s.syms) \in Nat
    OBVIOUS
  <2> HIDE DEF N
  <2> QED
    BY <2>1, MaxFacts, Zenon
<1>3. v = m.pc_exit \/ (v \in Nat /\ v % 4 = 0)
  BY <1>2
<1> HIDE DEF u, v
<1>4. /\ DOMAIN t = Fields /\ t.base_addr = m.base_addr /\ t.limit = m.limit /\ t.memp = m.memp
      /\ t.min_addr = m.min_addr /\ t.max_addr = m.max_addr /\ t.pc_exit = v
  BY <1>1 DEF Fields
<1>5. ExitRight(t)
  BY <1>3, <1>4 DEF ExitRight
<1> QED
  BY <1>4, <1>5

LEMMA ScanKeeps ==
  ASSUME NEW elf, NEW n \in Nat, DOMAIN elf.sections = 1 .. n, NEW start, NEW exit,
         SectionsFit(elf), LowestFound(elf), SymbolsAligned(elf, exit),
         NEW k \in Nat, NEW q \in 1 .. n, q = k + 1,
         NEW m, MemoryRight(elf, k, m), BoundsRight(elf, k, m), ExitRight(m),
         NEW t, t = Scan(m, elf.sections[q], start, exit), t # EXIT
  PROVE  MemoryRight(elf, q, t) /\ BoundsRight(elf, q, t) /\ ExitRight(t)
<1> DEFINE s == elf.sections[q]
<1>1. CASE q \in Sections(elf)
  <2>1. Loadable(s)
    BY <1>1 DEF Sections
  <2>2. t = LoadSection(m, s)
    BY <2>1 DEF Scan
  <2>3. Loading(elf, n, k, q, m, t)
    BY <1>1, <2>2, Zenon DEF Loading, s
  <2>4. MemoryRight(elf, q, t) /\ BoundsRight(elf, q, t)
    BY <2>3, LoadedMemory, LoadedBounds, Zenon
  <2>5. t.pc_exit = m.pc_exit
    <3>1. IsLoaded(elf, q, m, t)
      BY <2>3, SectionFields, Zenon
    <3> QED
      BY <3>1 DEF IsLoaded
  <2>6. ExitRight(t)
    BY <2>5 DEF ExitRight
  <2> QED
    BY <2>4, <2>6
<1>2. CASE q \notin Sections(elf)
  <2>1. ~Loadable(s)
    BY <1>2 DEF Sections
  <2>2. t = m \/ (s.type = "SYMTAB" /\ t = FindSymbols(m, s, start, exit))
    BY <2>1 DEF Scan
  <2>3. DOMAIN m = Fields
    BY DEF MemoryRight
  <2>4. /\ DOMAIN t = Fields /\ t.base_addr = m.base_addr /\ t.limit = m.limit /\ t.memp = m.memp
        /\ t.min_addr = m.min_addr /\ t.max_addr = m.max_addr /\ ExitRight(t)
    <3>1. CASE t = m
      BY <2>3, <3>1
    <3>2. CASE s.type = "SYMTAB" /\ t = FindSymbols(m, s, start, exit)
      <4>1. PICK B : s.syms \in Seq(B)
        BY <3>2 DEF SymbolsAligned
      <4>2. \A i \in DOMAIN s.syms : s.syms[i].name = exit =>
               s.syms[i].value \in Nat /\ s.syms[i].value % 4 = 0
        BY <3>2 DEF SymbolsAligned
      <4> HIDE DEF s
      <4> QED
        BY <2>3, <3>2, <4>1, <4>2, SymbolsFound
    <3> QED
      BY <2>2, <3>1, <3>2
  <2>5. MemoryRight(elf, q, t) /\ BoundsRight(elf, q, t)
    BY <1>2, <2>4, SkippedSection
  <2> QED
    BY <2>4, <2>5
<1> QED
  BY <1>1, <1>2

LEMMA FreshRight ==
  ASSUME MemSize + 8 <= AddrMod, NEW elf, NEW n \in Nat, DOMAIN elf.sections = 1 .. n
  PROVE  MemoryRight(elf, 0, Fresh) /\ BoundsRight(elf, 0, Fresh) /\ ExitRight(Fresh)
<1>1. MemSize \in Nat /\ MemSize % 8 = 0 /\ AddrMod \in Nat \ {0, 1}
  BY SimDriverAssumption, MemModelAssumption
<1>2. ((MemSize + 7) \div 8) * 8 = MemSize
  BY <1>1
<1>3. MemSize % AddrMod = MemSize
  BY <1>1
<1> DEFINE memp == [o \in 0 .. MemSize - 1 |-> Unspecified]
<1>4. c_mem_init(0, MemSize) =
         [base_addr |-> 0, limit |-> MemSize, memp |-> memp, min_addr |-> 0, max_addr |-> 0,
          pc_start |-> 0, pc_exit |-> 0]
  <2> DEFINE size == ((MemSize + 7) \div 8) * 8
  <2>1. size = MemSize
    BY <1>2
  <2>2. c_mem_init(0, MemSize) =
           [base_addr |-> 0, limit |-> (0 + size) % AddrMod, memp |-> [o \in 0 .. size - 1 |-> Unspecified],
            min_addr |-> 0, max_addr |-> 0, pc_start |-> 0, pc_exit |-> 0]
    BY DEF c_mem_init
  <2> HIDE DEF size
  <2>3. 0 + size = MemSize
    BY <1>1, <2>1
  <2>4. (0 + size) % AddrMod = MemSize
    BY <1>3, <2>3, Zenon
  <2> QED
    BY <2>1, <2>2, <2>4, Zenon
<1>5. DOMAIN memp = 0 .. MemSize - 1 /\ \A a \in 0 .. MemSize - 1 : memp[a] = Unspecified
  OBVIOUS
<1> HIDE DEF memp
<1>6. /\ DOMAIN Fresh = Fields /\ Fresh.base_addr = 0 /\ Fresh.limit = MemSize /\ Fresh.memp = memp
      /\ Fresh.min_addr = NoAddr /\ Fresh.max_addr = 0 /\ Fresh.pc_exit = NoAddr
  BY <1>4 DEF Fresh, Fields
<1>7. {j \in Sections(elf) : j <= 0} = {}
  BY DEF Sections
<1>8. \A a : CoveringTo(elf, 0, a) = {}
  BY <1>7 DEF CoveringTo
<1>9. NoAddr \in Nat
  BY <1>1 DEF NoAddr
<1>10. MemoryRight(elf, 0, Fresh)
  BY <1>5, <1>6, <1>8 DEF MemoryRight, ByteRight
<1>11. BoundsRight(elf, 0, Fresh)
  BY <1>1, <1>6, <1>7, <1>9 DEF BoundsRight
<1>12. ExitRight(Fresh)
  BY <1>6, <1>9 DEF ExitRight
<1> QED
  BY <1>10, <1>11, <1>12

(* So the loader gives the image of the file, or gives up.                 *)
LEMMA LoaderIsRight ==
  ASSUME FilesFit, NEW e \in Envs, e.SIM_ELF_FILENAME # NULL, LoadOf(e) # EXIT
  PROVE  Image(e, LoadOf(e))
<1> DEFINE elf == e.SIM_ELF_FILENAME
           r == LoadOf(e)
           start == StartName(e)
           exit == ExitName(e)
<1>1. FileFits(e) /\ MemSize + 8 <= AddrMod
  BY DEF FilesFit
<1>2. SectionsFit(elf) /\ LowestFound(elf) /\ WordAligned(elf) /\ SymbolsAligned(elf, exit)
  BY <1>1 DEF FileFits
<1>3. PICK n \in Nat : Count(elf, n)
  BY <1>1 DEF FileFits, Count
<1>4. DOMAIN elf.sections = 1 .. n
  BY <1>1, <1>3 DEF FileFits, Count
<1>5. \E f : Loads(f, elf, n, start, exit) /\ r = f[n]
  BY <1>3, LoadedIs, Zenon
<1> HIDE DEF start, exit, r
<1>6. PICK f : Loads(f, elf, n, start, exit) /\ r = f[n]
  BY <1>5
<1> DEFINE Right(k) == MemoryRight(elf, k, f[k]) /\ BoundsRight(elf, k, f[k]) /\ ExitRight(f[k])
           S == {k \in Nat : k <= n => f[k] = EXIT \/ Right(k)}
<1>7. 0 \in S
  <2>1. f[0] = Fresh
    BY <1>6 DEF Loads
  <2> QED
    BY <1>1, <1>4, <2>1, FreshRight
<1>8. ASSUME NEW k \in Nat, k \in S
      PROVE  k + 1 \in S
  <2> DEFINE q == k + 1
  <2>1. SUFFICES ASSUME q <= n, f[q] # EXIT
                 PROVE  Right(q)
    BY DEF S
  <2>2. q \in 1 .. n /\ q \in 0 .. n /\ q # 0 /\ q - 1 = k /\ k <= n
    BY <1>3, <2>1
  <2> HIDE DEF q, elf
  <2>3. f[q] = Scan(f[k], elf.sections[q], start, exit)
    BY <1>6, <2>2 DEF Loads
  <2>4. f[k] # EXIT
    BY <2>1, <2>3 DEF Scan
  <2>5. Right(k)
    BY <1>8, <2>2, <2>4
  <2> QED
    BY <1>2, <1>4, <2>1, <2>2, <2>3, <2>5, ScanKeeps DEF q
<1>9. Right(n)
  <2>1. Nat \subseteq S
    <3> HIDE DEF S
    <3> QED
      BY <1>7, <1>8, NatsIn
  <2>2. f[n] # EXIT
    BY <1>6 DEF r
  <2>3. n \in S
    BY <2>1
  <2> QED
    BY <2>2, <2>3
<1> HIDE DEF elf
<1>10. MemoryRight(elf, n, r) /\ BoundsRight(elf, n, r) /\ ExitRight(r)
  BY <1>6, <1>9
<1> QED
  <2>1. \A j \in Sections(elf) : j \in 1 .. n /\ j <= n
    BY <1>4 DEF Sections
  <2>2. {j \in Sections(elf) : j <= n} = Sections(elf)
    BY <2>1
  <2>3. \A a : CoveringTo(elf, n, a) = Covering(elf, a)
    BY <2>1, Zenon DEF CoveringTo, Covers, Covering, Sections, At, Size
  <2>4. ASSUME NEW a \in 0 .. MemSize - 1 PROVE r.memp[a] = ImageByte(elf, a)
    <3> DEFINE C == Covering(elf, a)
    <3>1. ByteRight(elf, n, a, r.memp[a])
      BY <1>10 DEF MemoryRight
    <3>2. CASE C = {}
      BY <2>3, <3>1, <3>2 DEF ByteRight, ImageByte
    <3>3. CASE C # {}
      <4>1. PICK j \in C : /\ \A h \in C : h <= j
                           /\ r.memp[a] = elf.sections[j].bytes[a - At(elf, j) + 1]
        BY <2>3, <3>1, <3>3 DEF ByteRight
      <4>2. C \subseteq 1 .. n
        BY <1>4 DEF Covering
      <4> HIDE DEF C
      <4>3. j = Max(C)
        <5>1. \A h \in C : j >= h
          BY <4>1, <4>2
        <5> QED
          BY <3>3, <4>1, <4>2, <5>1, MaxFacts
      <4> QED
        BY <3>3, <4>1, <4>3 DEF ImageByte, At, C
    <3> QED
      BY <3>2, <3>3
  <2>5. r.max_addr > 0 => r.min_addr % 4 = 0
    <3>1. SUFFICES ASSUME r.max_addr > 0 PROVE r.min_addr % 4 = 0
      OBVIOUS
    <3>2. Sections(elf) # {}
      BY <1>10, <2>2, <3>1 DEF BoundsRight
    <3>3. PICK j \in Sections(elf) : r.min_addr = At(elf, j)
      BY <1>10, <2>2, <3>2 DEF BoundsRight
    <3>4. \A h \in Sections(elf) : At(elf, j) <= At(elf, h)
      BY <1>10, <2>2, <3>3 DEF BoundsRight
    <3> QED
      BY <1>2, <3>3, <3>4 DEF WordAligned
  <2>6. ASSUME NEW a \in 0 .. MemSize - 1, Covering(elf, a) # {}
        PROVE  r.min_addr <= a /\ a < r.max_addr
    <3>1. PICK j \in Sections(elf) : Covers(elf, j, a)
      BY <2>3, <2>6 DEF CoveringTo
    <3>2. r.min_addr <= At(elf, j) /\ At(elf, j) + Size(elf, j) + 4 <= r.max_addr
          /\ r.min_addr \in Nat /\ r.max_addr \in Nat
      BY <1>10, <2>2 DEF BoundsRight
    <3>3. At(elf, j) \in Nat /\ Size(elf, j) \in Nat
      <4>1. elf.sections[j].addr \in Nat /\ \E B : elf.sections[j].bytes \in Seq(B)
        BY <1>2 DEF SectionsFit
      <4>2. \A b : (\E B : b \in Seq(B)) => Len(b) \in Nat
        OBVIOUS
      <4> QED
        BY <4>1, <4>2, WindowFacts, Zenon DEF At, Size
    <3>4. At(elf, j) <= a /\ a < At(elf, j) + Size(elf, j)
      BY <3>1 DEF Covers
    <3>5. a \in Nat
      BY SimDriverAssumption
    <3> QED
      BY <3>2, <3>3, <3>4, <3>5
  <2>7. r # NULL
    <3>1. DOMAIN r = Fields
      BY <1>10 DEF MemoryRight
    <3>2. "null" \notin Fields
      BY DEF Fields
    <3>3. "null" \in DOMAIN NULL
      BY DEF NULL
    <3> QED
      BY <3>1, <3>2, <3>3
  <2>8. /\ DOMAIN r.memp = 0 .. MemSize - 1 /\ r.base_addr = 0 /\ r.limit = MemSize
        /\ r.min_addr \in Nat /\ r.max_addr \in Nat /\ r.max_addr <= MemSize + 4
    BY <1>10 DEF MemoryRight, BoundsRight
  <2> QED
    BY <1>10, <2>4, <2>5, <2>6, <2>7, <2>8 DEF Image, elf, r

-----------------------------------------------------------------------------
(* The host: the addresses do not wrap, and what is read is the image.     *)
LEMMA AddressFits ==
  ASSUME FilesFit, HostInv, rg.elf_file_loaded, state \in {7, 9}, rg.addr < rg.max_addr
  PROVE  /\ rg.addr \in Nat /\ rg.addr + 4 \in Nat /\ (rg.addr + 4) % AddrMod = rg.addr + 4
         /\ rg.max_addr <= MemSize + 4 /\ rg.addr % 4 = 0 /\ p_state.limit = MemSize
         /\ MemSize \in Nat /\ AddrMod \in Nat /\ MemSize + 8 <= AddrMod
<1>1. rg.addr \in Nat /\ rg.max_addr \in Nat /\ rg.max_addr <= MemSize + 4 /\ p_state.limit = MemSize
      /\ (rg.max_addr > 0 => rg.addr % 4 = 0)
  <2>1. state > 4 /\ state > 6
    OBVIOUS
  <2>2. Image(env, p_state) /\ rg.max_addr = p_state.max_addr /\ LoopOk
    BY <2>1, Zenon DEF HostInv
  <2> QED
    BY <2>2 DEF Image, LoopOk
<1>2. MemSize \in Nat /\ AddrMod \in Nat \ {0} /\ MemSize + 8 <= AddrMod
  BY SimDriverAssumption, MemModelAssumption DEF FilesFit
<1> DEFINE x == rg.addr + 4
<1>3. x \in Nat /\ x < AddrMod
  BY <1>1, <1>2
<1> HIDE DEF x
<1>4. x % AddrMod = x
  BY <1>2, <1>3
<1> QED
  BY <1>1, <1>2, <1>3, <1>4 DEF x

LEMMA WordFits ==
  ASSUME FilesFit, HostInv, rg.elf_file_loaded, state \in {7, 9}, rg.addr < rg.max_addr,
         c_mem_read32(p_state, rg.addr) # EXIT
  PROVE  /\ rg.addr + 4 <= MemSize
         /\ c_mem_read32(p_state, rg.addr) = [i \in 1 .. 4 |-> p_state.memp[rg.addr + i - 1]]
<1> DEFINE word == [i \in 1 .. 4 |-> p_state.memp[rg.addr + i - 1]]
<1>1. c_mem_read32(p_state, rg.addr) = IF bad_addr(p_state, rg.addr, 4) THEN EXIT ELSE word
  <2>1. c_mem_read(p_state, rg.addr, 4) = IF bad_addr(p_state, rg.addr, 4) THEN FAILED ELSE word
    BY DEF c_mem_read, Widths
  <2>2. word # FAILED
    <3>1. DOMAIN word = 1 .. 4
      OBVIOUS
    <3>2. DOMAIN FAILED = 1 .. 0
      BY DEF FAILED
    <3>3. 1 \in 1 .. 4 /\ 1 \notin 1 .. 0
      OBVIOUS
    <3> HIDE DEF word
    <3> QED
      BY <3>1, <3>2, <3>3, Zenon
  <2> HIDE DEF word
  <2> QED
    BY <2>1, <2>2, Zenon DEF c_mem_read32, OrExit
<1>2. ~bad_addr(p_state, rg.addr, 4)
  BY <1>1, Zenon
<1>3. rg.addr + 4 <= MemSize
  <2>1. ~(p_state.limit < (rg.addr + 4) % AddrMod)
    BY <1>2 DEF bad_addr
  <2>2. /\ rg.addr + 4 \in Nat /\ (rg.addr + 4) % AddrMod = rg.addr + 4
        /\ p_state.limit = MemSize /\ MemSize \in Nat
    BY AddressFits, Zenon
  <2>3. ~(MemSize < rg.addr + 4)
    BY <2>1, <2>2, Zenon
  <2> QED
    BY <2>2, <2>3
<1> QED
  BY <1>1, <1>2, <1>3, Zenon

(* So what is sent is what is wanted.                                      *)
LEMMA WordsApart ==
  ASSUME NEW A \in Nat, NEW x \in Nat, A % 4 = 0, x % 4 = 0, A # x, NEW a \in A .. A + 3
  PROVE  a \notin x .. x + 3
<1>1. \A n \in Nat : n % 4 = n - 4 * (n \div 4) /\ n \div 4 \in Int
  OBVIOUS
<1>2. PICK p \in Int : A = 4 * p
  BY <1>1
<1>3. PICK q \in Int : x = 4 * q
  BY <1>1
<1>4. p < q \/ q < p
  BY <1>2, <1>3
<1> QED
  BY <1>2, <1>3, <1>4

LEMMA WordIsRight ==
  ASSUME FilesFit, HostInv, NEW r, Writes(r)
  PROVE  /\ rg.elf_file_loaded /\ r.op = "write" /\ r.addr = rg.addr /\ WordRight(r)
         /\ rg.addr < rg.max_addr /\ rg.addr + 4 <= MemSize
<1>1. state \in {7, 9} /\ state > 6 /\ rg.addr < rg.max_addr /\ c_mem_read32(p_state, rg.addr) # EXIT
  BY DEF Writes, MoreWords
<1>2. rg.elf_file_loaded /\ Image(env, p_state) /\ rg.exit_pc = p_state.pc_exit
  <2>1. state \in 5 .. 9 /\ state > 4
    BY <1>1
  <2> QED
    BY <2>1 DEF HostInv
<1> DEFINE A == rg.addr
           x == p_state.pc_exit
           w == IF A = x THEN EBREAK ELSE [i \in 1 .. 4 |-> p_state.memp[A + i - 1]]
<1>3. A \in Nat /\ A + 4 <= MemSize /\ A % 4 = 0 /\ MemSize + 8 <= AddrMod /\ MemSize \in Nat /\ AddrMod \in Nat
  BY <1>1, <1>2, AddressFits, WordFits, Zenon
<1>4. r = ReqWrite(A, w)
  <2>1. c_mem_read32(p_state, rg.addr) = [i \in 1 .. 4 |-> p_state.memp[rg.addr + i - 1]]
    BY <1>1, <1>2, WordFits, Zenon
  <2> QED
    BY <1>2, <2>1, Zenon DEF Writes
<1>5. x \in Nat /\ (x = NoAddr \/ x % 4 = 0)
  BY <1>2 DEF Image, ExitRight
<1>6. DOMAIN w = 1 .. 4
  BY DEF EBREAK
<1>7. r.op = "write" /\ r.addr = A /\ r.word = w
  <2> HIDE DEF w
  <2> QED
    BY <1>4 DEF ReqWrite
<1>8. ASSUME NEW i \in 1 .. 4 PROVE w[i] = Wanted(A + i - 1)
  <2> DEFINE a == A + i - 1
  <2>1. CASE A = x
    <3>1. a \in x .. x + 3 /\ a - x + 1 = i
      <4> HIDE DEF A, x
      <4> QED
        BY <1>3, <1>5, <2>1
    <3> HIDE DEF a
    <3>2. Wanted(a) = EBREAK[a - x + 1]
      BY <3>1, Zenon DEF Wanted
    <3> QED
      BY <2>1, <3>1, <3>2, Zenon DEF a
  <2>2. CASE A # x
    <3>1. a \notin x .. x + 3
      <4> HIDE DEF A, x
      <4>3. a \in A .. A + 3
        BY <1>3
      <4>1. CASE x = NoAddr
        BY <1>3, <1>5, <4>1 DEF NoAddr
      <4>2. CASE x % 4 = 0
        BY <1>3, <1>5, <2>2, <4>2, <4>3, WordsApart
      <4> QED
        BY <1>5, <4>1, <4>2
    <3>2. Wanted(a) = p_state.memp[a]
      <4> HIDE DEF a
      <4> QED
        BY <3>1, Zenon DEF Wanted
    <3>3. w[i] = p_state.memp[a]
      BY <2>2
    <3> QED
      BY <3>2, <3>3, Zenon
  <2> QED
    BY <2>1, <2>2
<1>9. WordRight(r)
  <2> HIDE DEF w
  <2>1. r.addr \in Nat /\ r.addr + 4 <= MemSize /\ DOMAIN r.word = 1 .. 4
    BY <1>3, <1>6, <1>7, Zenon
  <2>2. \A i \in 1 .. 4 : r.word[i] = Wanted(r.addr + i - 1)
    BY <1>7, <1>8, Zenon
  <2> QED
    BY <2>1, <2>2, Zenon DEF WordRight
<1> QED
  BY <1>1, <1>2, <1>3, <1>7, <1>9, Zenon

(* The host, at an edge.                                                   *)
LEMMA FSMKeepsHost ==
  ASSUME FilesFit, HostInv, FSM, state \in 0 .. 23, main_time' \notin {0, 1}, UNCHANGED env
  PROVE  HostInv'
<1>1. /\ env \in Envs /\ DOMAIN rg = Registers
      /\ state = 3 => p_state = c_mem_init(0, MemSize)
      /\ state \in 5 .. 9 => rg.elf_file_loaded
      /\ rg.elf_file_loaded =>
           /\ state >= 4 /\ Image(env, p_state)
           /\ state > 4 => /\ rg.min_addr = p_state.min_addr /\ rg.max_addr = p_state.max_addr
                           /\ rg.exit_pc = p_state.pc_exit
           /\ state > 6 => LoopOk
  BY DEF HostInv
<1>2. ASSUME /\ state' \in 0 .. 23 /\ DOMAIN rg' = Registers
             /\ state' = 3 => p_state' = c_mem_init(0, MemSize)
             /\ state' \in 5 .. 9 => rg'.elf_file_loaded
             /\ rg'.elf_file_loaded =>
                  /\ state' >= 4 /\ Image(env, p_state')
                  /\ state' > 4 => /\ rg'.min_addr = p_state'.min_addr /\ rg'.max_addr = p_state'.max_addr
                                   /\ rg'.exit_pc = p_state'.pc_exit
                  /\ state' > 6 => LoopOk'
      PROVE  HostInv'
  BY <1>1, <1>2 DEF HostInv
<1>3. ASSUME UNCHANGED <<p_state, rg>>, state' \in 0 .. 23, state' # 3 \/ state' = state,
             state' \in 5 .. 9 => rg.elf_file_loaded,
             rg.elf_file_loaded => /\ state' >= state /\ (state' > 4 => state > 4 /\ (state' > 6 => state > 6))
                                   /\ state' = 8 => rg.addr < rg.max_addr /\ rg.addr + 4 <= MemSize
                                   /\ state' > 9 => rg.max_addr <= rg.addr
      PROVE  HostInv'
  <2>1. ASSUME rg.elf_file_loaded, state' > 6 PROVE LoopOk'
    <3>1. LoopOk
      BY <1>1, <1>3, <2>1
    <3> QED
      BY <1>3, <2>1, <3>1 DEF LoopOk
  <2> QED
    BY <1>1, <1>2, <1>3, <2>1
<1>4. ASSUME UNCHANGED <<p_state, rg>>, state' = state PROVE HostInv'
  <2>1. rg.elf_file_loaded =>
            /\ state = 8 => rg.addr < rg.max_addr /\ rg.addr + 4 <= MemSize
            /\ state > 9 => rg.max_addr <= rg.addr
    BY <1>1 DEF LoopOk
  <2> QED
    BY <1>1, <1>3, <1>4, <2>1
<1>5. ASSUME UNCHANGED <<p_state, rg>>, state' \in 10 .. 23, state > 9 \/ ~rg.elf_file_loaded
      PROVE HostInv'
  <2>1. rg.elf_file_loaded => state > 9 /\ rg.max_addr <= rg.addr
    BY <1>1, <1>5 DEF LoopOk
  <2>2. CASE state' >= state
    BY <1>3, <1>5, <2>1, <2>2
  <2>3. CASE ~rg.elf_file_loaded
    BY <1>3, <1>5, <2>1, <2>3
  <2>4. CASE rg.elf_file_loaded
    <3>1. LoopOk'
      BY <1>1, <1>5, <2>1, <2>4 DEF LoopOk
    <3> QED
      BY <1>1, <1>2, <1>5, <2>1, <2>4, <3>1
  <2> QED
    BY <2>3, <2>4
<1>6. ASSUME UNCHANGED <<p_state, rg>>, state \in 0 .. 3, state' \in {0, 1, 2}
      PROVE HostInv'
  BY <1>1, <1>3, <1>6
<1> USE DEF Goto
<1>a. CASE rl_auto_start \/ action_l172c10 \/ action_l178c10
  BY <1>4, <1>6, <1>a DEF rl_auto_start, action_l172c10, action_l178c10
<1>d. CASE action_l201c10
  <2>1. state = 2 /\ state' = 3 /\ p_state' = c_mem_init(0, MemSize) /\ UNCHANGED rg
    BY <1>d DEF action_l201c10
  <2> QED
    BY <1>1, <1>2, <2>1
<1>e. CASE action_l207c10
  <2> DEFINE r == c_mem_load_elf2(p_state, 32, env)
  <2>1. state = 3 /\ (UNCHANGED <<state, p_state, rg>>
          \/ (/\ r.model # EXIT /\ p_state' = r.model /\ state' = 4
              /\ rg' = [rg EXCEPT !.elf_file_loaded = r.loaded # 0]))
    BY <1>e DEF action_l207c10
  <2>2. CASE UNCHANGED <<state, p_state, rg>>
    BY <1>4, <2>2
  <2>3. CASE /\ r.model # EXIT /\ p_state' = r.model /\ state' = 4
             /\ rg' = [rg EXCEPT !.elf_file_loaded = r.loaded # 0]
    <3>1. p_state = c_mem_init(0, MemSize)
      BY <1>1, <2>1
    <3>2. CASE env.SIM_ELF_FILENAME = NULL
      <4>1. r.loaded = 0
        BY <3>2 DEF c_mem_load_elf2
      <4> HIDE DEF r
      <4>2. ~rg'.elf_file_loaded /\ DOMAIN rg' = Registers
        BY <1>1, <2>3, <4>1 DEF Registers
      <4> QED
        BY <1>2, <2>3, <4>2
    <3>3. CASE env.SIM_ELF_FILENAME # NULL
      <4>1. r.model = LoadOf(env)
        BY <3>1, <3>3 DEF c_mem_load_elf2, LoadOf
      <4>2. Image(env, p_state')
        BY <1>1, <2>3, <3>3, <4>1, LoaderIsRight
      <4> HIDE DEF r
      <4>3. DOMAIN rg' = Registers
        BY <1>1, <2>3
      <4> QED
        BY <1>2, <2>3, <4>2, <4>3
    <3> QED
      BY <3>2, <3>3
  <2> QED
    BY <2>1, <2>2, <2>3
<1>f. CASE action_l216c13
  <2>1. /\ state = 4 /\ rg.elf_file_loaded /\ state' = 5 /\ UNCHANGED p_state
        /\ rg' = [rg EXCEPT !.min_addr = p_state.min_addr, !.max_addr = p_state.max_addr,
                            !.exit_pc = p_state.pc_exit]
    BY <1>f DEF action_l216c13, c_mem_get_min_addr, c_mem_get_max_addr, c_mem_get_exit_pc
  <2>2. /\ DOMAIN rg' = Registers /\ rg'.elf_file_loaded = rg.elf_file_loaded
        /\ rg'.min_addr = p_state.min_addr /\ rg'.max_addr = p_state.max_addr
        /\ rg'.exit_pc = p_state.pc_exit
    BY <1>1, <2>1 DEF Registers
  <2> QED
    BY <1>1, <1>2, <2>1, <2>2
<1>g. CASE action_l227c32
  <2>1. state = 5 /\ state' = 6 /\ UNCHANGED <<p_state, rg>>
    BY <1>g DEF action_l227c32
  <2> QED
    BY <1>1, <1>3, <2>1
<1>h. CASE action_f_init_l232c13
  <2>1. state = 6 /\ state' = 7 /\ rg' = [rg EXCEPT !.addr = rg.min_addr] /\ UNCHANGED p_state
    BY <1>h DEF action_f_init_l232c13
  <2>2. /\ DOMAIN rg' = Registers /\ rg'.elf_file_loaded = rg.elf_file_loaded
        /\ rg'.min_addr = rg.min_addr /\ rg'.max_addr = rg.max_addr
        /\ rg'.exit_pc = rg.exit_pc /\ rg'.addr = rg.min_addr
    BY <1>1, <2>1 DEF Registers
  <2>3. rg.elf_file_loaded /\ Image(env, p_state) /\ rg.min_addr = p_state.min_addr
        /\ rg.max_addr = p_state.max_addr /\ rg.exit_pc = p_state.pc_exit
    BY <1>1, <2>1
  <2>4. rg.min_addr \in Nat /\ (rg.max_addr > 0 => rg.min_addr % 4 = 0)
    BY <2>3 DEF Image
  <2>5. LoopOk'
    BY <2>1, <2>2, <2>4 DEF LoopOk
  <2> QED
    BY <1>2, <2>1, <2>2, <2>3, <2>5
<1>i. CASE action_l232c89
  <2>1. /\ state \in {7, 9} /\ rg.addr < rg.max_addr /\ UNCHANGED <<p_state, rg>>
        /\ UNCHANGED state \/ (state' = 8 /\ c_mem_read32(p_state, rg.addr) # EXIT)
    BY <1>i DEF action_l232c89, InLoop, MoreWords
  <2>2. rg.elf_file_loaded
    BY <1>1, <2>1
  <2>3. CASE state' = 8 /\ c_mem_read32(p_state, rg.addr) # EXIT
    <3>1. rg.addr + 4 <= MemSize
      BY <2>1, <2>2, <2>3, WordFits
    <3>2. rg.addr < rg.max_addr
      BY <2>1
    <3>3. LoopOk'
      BY <1>1, <2>1, <2>2, <2>3, <3>1 DEF LoopOk
    <3> QED
      BY <1>1, <1>2, <2>1, <2>2, <2>3, <3>3
  <2> QED
    BY <1>4, <2>1, <2>3
<1>j. CASE action_f_update_l232c13
  <2>1. state = 8 /\ state' = 9 /\ rg' = [rg EXCEPT !.addr = (rg.addr + 4) % AddrMod] /\ UNCHANGED p_state
    BY <1>j DEF action_f_update_l232c13
  <2>2. /\ DOMAIN rg' = Registers /\ rg'.elf_file_loaded = rg.elf_file_loaded
        /\ rg'.min_addr = rg.min_addr /\ rg'.max_addr = rg.max_addr
        /\ rg'.exit_pc = rg.exit_pc /\ rg'.addr = (rg.addr + 4) % AddrMod
    BY <1>1, <2>1 DEF Registers
  <2>3. rg.elf_file_loaded /\ Image(env, p_state) /\ rg.min_addr = p_state.min_addr
        /\ rg.max_addr = p_state.max_addr /\ rg.exit_pc = p_state.pc_exit /\ LoopOk
    BY <1>1, <2>1
  <2>4. rg.addr \in Nat /\ rg.addr + 4 <= MemSize /\ rg.addr >= rg.min_addr /\ rg.addr % 4 = 0
        /\ rg.min_addr \in Nat
    BY <2>1, <2>3 DEF LoopOk, Image
  <2> DEFINE x == rg.addr + 4
  <2>5. x \in Nat /\ x < AddrMod /\ x >= rg.min_addr /\ x % 4 = 0 /\ AddrMod \in Nat \ {0}
    BY <2>4, SimDriverAssumption, MemModelAssumption DEF FilesFit
  <2>6. rg'.addr = x
    <3> HIDE DEF x
    <3>1. x % AddrMod = x
      BY <2>5
    <3> QED
      BY <2>2, <3>1 DEF x
  <2> HIDE DEF x
  <2>7. LoopOk'
    BY <2>1, <2>2, <2>5, <2>6 DEF LoopOk
  <2> QED
    BY <1>2, <2>1, <2>2, <2>3, <2>7
<1>k. CASE action_l244c16
  <2>1. state \in {7, 9} /\ ~(rg.addr < rg.max_addr) /\ state' = 10 /\ UNCHANGED <<p_state, rg>>
    BY <1>k DEF action_l244c16, InLoop, MoreWords
  <2>2. /\ rg.elf_file_loaded /\ Image(env, p_state) /\ rg.min_addr = p_state.min_addr
        /\ rg.max_addr = p_state.max_addr /\ rg.exit_pc = p_state.pc_exit /\ LoopOk
    BY <1>1, <2>1
  <2>3. rg.max_addr <= rg.addr
    BY <2>1, <2>2 DEF LoopOk, Image
  <2>4. LoopOk'
    BY <2>1, <2>2, <2>3 DEF LoopOk
  <2> QED
    BY <1>1, <1>2, <2>1, <2>2, <2>4
<1>l. CASE action_l248c10
  <2>1. (state = 4 /\ ~rg.elf_file_loaded) \/ state = 10
    BY <1>l DEF action_l248c10, Verbosity
  <2>2. state' = 11 /\ UNCHANGED <<p_state, rg>>
    BY <1>l DEF action_l248c10
  <2> QED
    BY <1>5, <2>1, <2>2
<1>m. CASE ask
  <2>1. state \in {11, 13, 15, 17, 19} /\ state' = state + 1 /\ UNCHANGED <<p_state, rg>>
    BY <1>m, AskedFacts DEF ask
  <2> QED
    BY <1>5, <2>1
<1>n. CASE await
  <2>1. state - 1 \in {11, 13, 15, 17, 19} /\ state' = state + 1 /\ UNCHANGED p_state
    BY <1>n, AskedFacts DEF await
  <2>2. rg' = (CASE state = 12 -> [rg EXCEPT !.start_instret = Head(fControlRsp).n]
                 [] state = 20 -> [rg EXCEPT !.end_instret = Head(fControlRsp).n]
                 [] OTHER -> rg)
    BY <1>n DEF await
  <2>3. /\ DOMAIN rg' = Registers /\ rg'.elf_file_loaded = rg.elf_file_loaded
        /\ rg'.min_addr = rg.min_addr /\ rg'.max_addr = rg.max_addr
        /\ rg'.exit_pc = rg.exit_pc /\ rg'.addr = rg.addr
    <3>1. CASE state = 12
      BY <1>1, <2>2, <3>1 DEF Registers
    <3>2. CASE state = 20
      BY <1>1, <2>2, <3>2 DEF Registers
    <3>3. CASE state # 12 /\ state # 20
      BY <1>1, <2>2, <3>3
    <3> QED
      BY <3>1, <3>2, <3>3
  <2>4. state > 9 /\ state' > 9 /\ state' # 8 /\ state' # 3 /\ state' \notin 5 .. 9 /\ state' \in 0 .. 23
    BY <2>1
  <2>5. ASSUME rg.elf_file_loaded PROVE LoopOk'
    <3>1. LoopOk
      BY <1>1, <2>4, <2>5
    <3> QED
      BY <2>3, <2>4, <3>1 DEF LoopOk
  <2> QED
    BY <1>1, <1>2, <2>1, <2>3, <2>4, <2>5
<1>o. CASE action_l160c53 \/ action_l261c10
  <2>1. state \in {21, 22} /\ state' \in {22, 23} /\ UNCHANGED <<p_state, rg>>
    BY <1>o DEF action_l160c53, action_l261c10, ShutDown
  <2> QED
    BY <1>5, <2>1
<1>q. CASE Stalled /\ Quiet /\ UNCHANGED fsmVars
  BY <1>4, <1>q DEF fsmVars
<1> QED
  BY <1>a, <1>d, <1>e, <1>f, <1>g, <1>h, <1>i, <1>j, <1>k, <1>l, <1>m, <1>n, <1>o, <1>q DEF FSM

-----------------------------------------------------------------------------
(* The words on their way, at an edge.                                     *)
GoesOn ==
    /\ state > 6 /\ rg.elf_file_loaded /\ UNCHANGED p_state
    /\ rg'.min_addr = rg.min_addr /\ (state' # 8 \/ state = 8 => SentTo' = SentTo)

LEMMA FSMKeepsPlace ==
  ASSUME FilesFit, HostInv, FSM, state \in 0 .. 23, rg'.elf_file_loaded, state' > 6
  PROVE  GoesOn \/ (state = 6 /\ state' = 7 /\ rg'.addr = rg'.min_addr)
<1> USE DEF Goto
<1>1. DOMAIN rg = Registers
  BY DEF HostInv
<1>2. ASSUME state > 6, UNCHANGED p_state, rg.elf_file_loaded,
             rg'.min_addr = rg.min_addr, rg'.addr = rg.addr, state # 8 \/ state' = 8
      PROVE  GoesOn
  BY <1>2 DEF SentTo, GoesOn
<1>a. CASE rl_auto_start \/ action_l172c10 \/ action_l178c10 \/ action_l201c10
  BY <1>a DEF rl_auto_start, action_l172c10, action_l178c10, action_l201c10
<1>e. CASE action_l207c10 \/ action_l216c13 \/ action_l227c32
  BY <1>e DEF action_l207c10, action_l216c13, action_l227c32
<1>h. CASE action_f_init_l232c13
  <2>1. state = 6 /\ state' = 7 /\ rg' = [rg EXCEPT !.addr = rg.min_addr]
    BY <1>h DEF action_f_init_l232c13
  <2> QED
    BY <1>1, <2>1 DEF Registers
<1>i. CASE action_l232c89 \/ action_l244c16
  <2>1. state \in {7, 9} /\ UNCHANGED <<p_state, rg>>
    BY <1>i DEF action_l232c89, action_l244c16, InLoop
  <2> QED
    BY <1>2, <2>1
<1>j. CASE action_f_update_l232c13
  <2>1. state = 8 /\ state' = 9 /\ rg' = [rg EXCEPT !.addr = (rg.addr + 4) % AddrMod] /\ UNCHANGED p_state
    BY <1>j DEF action_f_update_l232c13
  <2>2. rg'.min_addr = rg.min_addr /\ rg'.addr = (rg.addr + 4) % AddrMod
    BY <1>1, <2>1 DEF Registers
  <2>3. rg.elf_file_loaded /\ LoopOk
    BY <2>1 DEF HostInv
  <2> DEFINE x == rg.addr + 4
  <2>4. x \in Nat /\ x < AddrMod /\ AddrMod \in Nat \ {0}
    BY <2>1, <2>3, SimDriverAssumption, MemModelAssumption DEF LoopOk, FilesFit
  <2>5. x % AddrMod = x
    <3> HIDE DEF x
    <3> QED
      BY <2>4
  <2>6. rg'.addr = rg.addr + 4
    BY <2>2, <2>5
  <2> HIDE DEF x
  <2> QED
    BY <2>1, <2>2, <2>3, <2>6 DEF SentTo, GoesOn
<1>l. CASE action_l248c10
  <2>1. (state = 4 /\ ~rg.elf_file_loaded) \/ state = 10
    BY <1>l DEF action_l248c10, Verbosity
  <2>2. UNCHANGED <<p_state, rg>>
    BY <1>l DEF action_l248c10
  <2> QED
    BY <1>2, <2>1, <2>2
<1>m. CASE ask
  BY <1>2, <1>m, AskedFacts DEF ask
<1>n. CASE await
  <2>1. state - 1 \in {11, 13, 15, 17, 19} /\ UNCHANGED p_state
    BY <1>n, AskedFacts DEF await
  <2>2. rg' = (CASE state = 12 -> [rg EXCEPT !.start_instret = Head(fControlRsp).n]
                 [] state = 20 -> [rg EXCEPT !.end_instret = Head(fControlRsp).n]
                 [] OTHER -> rg)
    BY <1>n DEF await
  <2>3. /\ rg'.elf_file_loaded = rg.elf_file_loaded /\ rg'.min_addr = rg.min_addr /\ rg'.addr = rg.addr
    <3>1. CASE state = 12
      BY <1>1, <2>2, <3>1 DEF Registers
    <3>2. CASE state = 20
      BY <1>1, <2>2, <3>2 DEF Registers
    <3>3. CASE state # 12 /\ state # 20
      BY <1>1, <2>2, <3>3
    <3> QED
      BY <3>1, <3>2, <3>3
  <2> QED
    BY <1>2, <2>1, <2>3
<1>o. CASE action_l160c53 \/ action_l261c10
  <2>1. state \in {21, 22} /\ UNCHANGED <<p_state, rg>>
    BY <1>o DEF action_l160c53, action_l261c10, ShutDown
  <2> QED
    BY <1>2, <2>1
<1>q. CASE Stalled /\ Quiet /\ UNCHANGED fsmVars
  BY <1>2, <1>q DEF fsmVars
<1> QED
  BY <1>a, <1>e, <1>h, <1>i, <1>j, <1>l, <1>m, <1>n, <1>o, <1>q DEF FSM

LEMMA FSMStaysLoaded ==
  ASSUME HostInv, FSM, state \in 0 .. 23, rg.elf_file_loaded, state > 6
  PROVE  rg'.elf_file_loaded /\ state' > 6 /\ UNCHANGED p_state
<1> USE DEF Goto
<1>1. DOMAIN rg = Registers
  BY DEF HostInv
<1>2. ASSUME UNCHANGED <<p_state, rg>>, state' > 6
      PROVE  rg'.elf_file_loaded /\ state' > 6 /\ UNCHANGED p_state
  BY <1>2
<1>a. CASE rl_auto_start \/ action_l172c10 \/ action_l178c10 \/ action_l201c10
  BY <1>a DEF rl_auto_start, action_l172c10, action_l178c10, action_l201c10
<1>e. CASE action_l207c10 \/ action_l216c13 \/ action_l227c32 \/ action_f_init_l232c13
  BY <1>e DEF action_l207c10, action_l216c13, action_l227c32, action_f_init_l232c13
<1>i. CASE action_l232c89 \/ action_l244c16
  <2>1. UNCHANGED <<p_state, rg>> /\ state' \in {state, 8, 10}
    BY <1>i DEF action_l232c89, action_l244c16
  <2> QED
    BY <1>2, <2>1
<1>j. CASE action_f_update_l232c13
  <2>1. state' = 9 /\ rg' = [rg EXCEPT !.addr = (rg.addr + 4) % AddrMod] /\ UNCHANGED p_state
    BY <1>j DEF action_f_update_l232c13
  <2> QED
    BY <1>1, <2>1 DEF Registers
<1>l. CASE action_l248c10 \/ ask
  <2>1. UNCHANGED <<p_state, rg>> /\ (state' = 11 \/ state' = state + 1)
    BY <1>l DEF action_l248c10, ask
  <2> QED
    BY <1>2, <2>1
<1>n. CASE await
  <2>1. state' = state + 1 /\ UNCHANGED p_state
    BY <1>n DEF await
  <2>2. rg' = (CASE state = 12 -> [rg EXCEPT !.start_instret = Head(fControlRsp).n]
                 [] state = 20 -> [rg EXCEPT !.end_instret = Head(fControlRsp).n]
                 [] OTHER -> rg)
    BY <1>n DEF await
  <2>3. rg'.elf_file_loaded
    <3>1. CASE state = 12
      BY <1>1, <2>2, <3>1 DEF Registers
    <3>2. CASE state = 20
      BY <1>1, <2>2, <3>2 DEF Registers
    <3>3. CASE state # 12 /\ state # 20
      BY <1>1, <2>2, <3>3
    <3> QED
      BY <3>1, <3>2, <3>3
  <2> QED
    BY <2>1, <2>3
<1>o. CASE action_l160c53 \/ action_l261c10
  <2>1. state' \in {22, 23} /\ UNCHANGED <<p_state, rg>>
    BY <1>o DEF action_l160c53, action_l261c10
  <2> QED
    BY <1>2, <2>1
<1>q. CASE Stalled /\ Quiet /\ UNCHANGED fsmVars
  BY <1>2, <1>q DEF fsmVars
<1> QED
  BY <1>a, <1>e, <1>i, <1>j, <1>l, <1>n, <1>o, <1>q DEF FSM

(* A request on the fabric stays there, with its command; and a word is    *)
(* on the fabric as soon as its command has taken a step.                  *)
LEMMA EdgeRequests ==
  ASSUME FabricInv, ControllerEdge, NEW S, f_control_reqs \in Seq(S), MovingReq \in Seq(S)
  PROVE  /\ f_fabric_reqs' # << >> =>
              /\ f_control_reqs # << >> /\ Command' = Command
              /\ f_fabric_reqs' = f_fabric_reqs \/ (f_fabric_reqs = << >> /\ f_fabric_reqs' = <<Request>>)
         /\ f_control_reqs # << >> /\ Command.op = "write" =>
              /\ step = 1 => step' = 1 \/ f_fabric_reqs' # << >>
              /\ step = 2 /\ f_fabric_reqs # << >> => step' = 2 /\ f_fabric_reqs' # << >>
         /\ f_control_reqs = << >> => step = 1
<1>0. f_control_reqs = << >> => step = 1
  BY DEF FabricInv
<1>1. ASSUME f_control_reqs # << >>, f_control_reqs' = f_control_reqs \o MovingReq
      PROVE  Command' = Command
  BY <1>1, PathHead DEF Command, Cat
<1>2. ASSUME f_fabric_reqs # << >>
      PROVE  f_control_reqs # << >> /\ AwaitsFabric(Command.op, step) /\ f_fabric_rsps = << >>
  BY <1>2 DEF FabricInv, FabricOk
<1>3. ASSUME NEW do, Now(do), do \notin {"word", "acknowledged"}
      PROVE  f_control_reqs # << >> /\ f_fabric_reqs = << >>
  <2>1. Doing(Command.op, step) = do /\ f_control_reqs # << >>
    BY <1>3, NowIs
  <2> QED
    BY <1>2, <1>3, <2>1 DEF AwaitsFabric
<1>4. ASSUME NEW do, Now(do), do # "done", do # "request", Command.op = "write", step = 1
      PROVE  FALSE
  <2>1. Doing(Command.op, step) = do
    BY <1>4, NowIs
  <2>2. Doing("write", 1) = "request"
    BY DEF Doing, Steps, Write, Done
  <2>3. Doing("write", 1) = do
    BY <1>4, <2>1
  <2> QED
    BY <1>4, <2>2, <2>3
<1>5. CASE fabric_request
  <2>1. /\ Now("request") /\ f_control_reqs' = f_control_reqs \o MovingReq
        /\ f_fabric_reqs' = Append(f_fabric_reqs, Request)
    BY <1>5 DEF fabric_request, Advance
  <2>2. f_control_reqs # << >> /\ f_fabric_reqs = << >>
    BY <1>3, <2>1
  <2>3. f_fabric_reqs' = <<Request>> /\ <<Request>> # << >>
    BY <2>1, <2>2
  <2> QED
    BY <1>0, <1>1, <2>1, <2>2, <2>3
<1>6. CASE fabric_response
  <2>1. /\ f_control_reqs' = f_control_reqs \o MovingReq /\ UNCHANGED f_fabric_reqs
        /\ f_fabric_rsps # << >> /\ \E do \in {"word", "acknowledged"} : Now(do)
    BY <1>6 DEF fabric_response, Advance
  <2>2. f_fabric_reqs = << >>
    BY <1>2, <2>1
  <2> QED
    BY <1>0, <1>4, <2>1, <2>2
<1>7. CASE keep_high \/ reply \/ ask_reset \/ await_reset \/ note
  <2>1. UNCHANGED f_fabric_reqs
        /\ \E do \in {"high", "reply", "reply2", "ask_reset", "await_reset", "note"} : Now(do)
    BY <1>7 DEF keep_high, reply, ask_reset, await_reset, note
  <2>2. f_fabric_reqs = << >>
    BY <1>3, <2>1
  <2> QED
    BY <1>0, <1>4, <2>1, <2>2
<1>8. CASE done
  <2>1. Now("done") /\ step' = 1 /\ UNCHANGED f_fabric_reqs
    BY <1>8 DEF done
  <2>2. f_fabric_reqs = << >>
    BY <1>3, <2>1
  <2> QED
    BY <1>0, <2>1, <2>2
<1>9. CASE /\ Blocked /\ f_control_reqs' = f_control_reqs \o MovingReq
           /\ UNCHANGED <<f_fabric_reqs, f_fabric_rsps, step, rg_word, rg_word_h, f_reset>>
  <2>1. f_fabric_reqs # << >> => f_control_reqs # << >>
    BY <1>2
  <2> QED
    BY <1>0, <1>1, <1>9, <2>1
<1> QED
  BY <1>5, <1>6, <1>7, <1>8, <1>9 DEF ControllerEdge, Fires

(* The words on their way after an edge, which takes d commands off the    *)
(* path and puts s on it.                                                  *)
LEMMA EdgeKeepsImage ==
  ASSUME FilesFit, FabricInv, ImageInv, FSM, ControllerEdge, UNCHANGED <<soc, env>>,
         state \in 0 .. 23, main_time' \notin {0, 1},
         NEW S, f_control_reqs \in Seq(S), fControlReq \in Seq(S), MovingReq \in Seq(S),
         NEW s, NEW h, DriverMoves(s, h), NEW d, NEW e, ControllerMoves(d, e),
         PathGoesOn(CommandPath, CommandPath', d, s)
  PROVE  ImageInv'
<1>P. PICK P : P = CommandPath
  OBVIOUS
<1>Q. PICK Q : Q = CommandPath'
  OBVIOUS
<1>1. /\ HostInv /\ DOMAIN soc.mem = 0 .. MemSize - 1
      /\ WritesRight /\ RequestRight /\ SentRight
  BY DEF ImageInv
<1>2. HostInv'
  BY <1>1, FSMKeepsHost
<1>3. /\ f_control_reqs # << >> => P # << >> /\ P[1] = Command
      /\ Len(P) \in Nat /\ (P = << >> <=> Len(P) = 0)
  BY <1>P, FirstCommand
<1>4. /\ Len(P) \in Nat /\ Len(Q) \in Nat /\ Len(s) \in {0, 1} /\ Len(Q) = Len(P) - d + Len(s)
      /\ \A k \in 1 .. Len(P) - d : Q[k] = P[k + d]
      /\ Len(s) = 1 => Q[Len(Q)] = s[1]
      /\ (s = << >> <=> Len(s) = 0)
  BY <1>P, <1>Q DEF PathGoesOn
<1>L. PICK p, q, n : p = Len(P) /\ q = Len(Q) /\ n = Len(s)
  OBVIOUS
<1>N. p \in Nat /\ q \in Nat /\ n \in {0, 1} /\ q = p - d + n
  BY <1>4, <1>L
<1>5. /\ d \in {0, 1} /\ (d = 1 => f_control_reqs # << >> /\ step = LastStep(Command.op) /\ step' = 1)
      /\ d = 0 => step' = step \/ f_control_reqs # << >>
  BY DEF ControllerMoves, Leave
<1>6. s # << >> => \E r : s = <<r>> /\ WordSent(r)
  BY DEF DriverMoves, IsCommand
<1>7. s = << >> => (state' = 8 => state = 8)
  BY DEF DriverMoves, NoWord
<1>8. /\ f_fabric_reqs' # << >> =>
            /\ f_control_reqs # << >> /\ Command' = Command
            /\ f_fabric_reqs' = f_fabric_reqs \/ (f_fabric_reqs = << >> /\ f_fabric_reqs' = <<Request>>)
      /\ f_control_reqs # << >> /\ Command.op = "write" =>
            /\ step = 1 => step' = 1 \/ f_fabric_reqs' # << >>
            /\ step = 2 /\ f_fabric_reqs # << >> => step' = 2 /\ f_fabric_reqs' # << >>
      /\ f_control_reqs = << >> => step = 1
  BY EdgeRequests
<1>9. ASSUME NEW r, Writes(r)
      PROVE  /\ rg'.elf_file_loaded /\ state' > 6 /\ state' = 8 /\ state # 8
             /\ r.op = "write" /\ r.addr = rg.addr /\ WordRight(r)' /\ UNCHANGED <<p_state, rg>>
             /\ state > 6 /\ rg.addr \in Nat
  <2>1. /\ rg.elf_file_loaded /\ r.op = "write" /\ r.addr = rg.addr /\ WordRight(r)
    BY <1>1, <1>9, WordIsRight
  <2>2. UNCHANGED <<p_state, rg>> /\ state' = 8 /\ state \in {7, 9}
    BY <1>9 DEF Writes
  <2>3. WordRight(r)'
    BY <2>1, <2>2 DEF WordRight, Wanted
  <2>4. rg.addr \in Nat
    BY <2>1 DEF WordRight
  <2> QED
    BY <2>1, <2>2, <2>3, <2>4
<1>10. ASSUME NEW r, WordRight(r), UNCHANGED p_state PROVE WordRight(r)'
  BY <1>10 DEF WordRight, Wanted
<1>11. WritesRight'
  <2>1. SUFFICES ASSUME NEW k \in 1 .. Len(Q), Q[k].op = "write"
                 PROVE  rg'.elf_file_loaded /\ state' > 6 /\ WordRight(Q[k])'
    BY <1>Q DEF WritesRight
  <2>2. CASE k <= Len(P) - d
    <3>1. k + d \in 1 .. Len(P) /\ Q[k] = P[k + d]
      BY <1>4, <1>5, <2>2
    <3>2. rg.elf_file_loaded /\ state > 6 /\ WordRight(P[k + d])
      BY <1>P, <1>1, <2>1, <3>1 DEF WritesRight
    <3>3. rg'.elf_file_loaded /\ state' > 6 /\ UNCHANGED p_state
      BY <1>1, <3>2, FSMStaysLoaded
    <3> QED
      BY <1>10, <3>1, <3>2, <3>3
  <2>3. CASE ~(k <= Len(P) - d)
    <3>1. n = 1 /\ k = q
      <4>1. k \in 1 .. q /\ ~(k <= p - d)
        BY <1>L, <2>1, <2>3
      <4> QED
        BY <1>5, <1>N, <4>1
    <3>5. s # << >>
      BY <1>4, <1>L, <3>1
    <3>2. PICK r : s = <<r>> /\ WordSent(r)
      BY <1>6, <3>5
    <3>3. Q[k] = r
      BY <1>4, <1>L, <3>1, <3>2
    <3>4. Writes(r)
      BY <2>1, <3>2, <3>3 DEF WordSent
    <3> QED
      BY <1>9, <3>3, <3>4
  <2> QED
    BY <2>2, <2>3
<1>12. RequestRight'
  <2>1. SUFFICES ASSUME f_fabric_reqs' # << >>, Head(f_fabric_reqs').at = "memory"
                 PROVE  /\ Head(f_fabric_reqs').addr = Command.addr
                        /\ Head(f_fabric_reqs').word = Command.word
    BY <1>8 DEF RequestRight
  <2>2. CASE f_fabric_reqs' = f_fabric_reqs
    BY <1>1, <2>1, <2>2 DEF RequestRight
  <2>3. CASE f_fabric_reqs' = <<Request>>
    <3>1. Head(f_fabric_reqs') = Request
      BY <2>3
    <3> QED
      BY <3>1 DEF Request
  <2> QED
    BY <1>8, <2>1, <2>2, <2>3
<1>13. SentRight'
  <2>1. SUFFICES ASSUME rg'.elf_file_loaded, state' > 6, NEW a \in 0 .. MemSize - 1,
                        rg'.min_addr <= a, a < SentTo'
                 PROVE  soc.mem[a] = Wanted(a)' \/ \E k \in 1 .. Len(Q) : Owed(k, a)'
    BY <1>Q DEF SentRight
  <2>2. GoesOn \/ (state = 6 /\ state' = 7 /\ rg'.addr = rg'.min_addr)
    BY <1>1, <2>1, FSMKeepsPlace
  <2>3. CASE state = 6 /\ state' = 7 /\ rg'.addr = rg'.min_addr
    <3>1. rg'.min_addr \in Nat
      BY <1>2, <2>1, <2>3 DEF HostInv, Image
    <3> QED
      BY <2>1, <2>3, <3>1 DEF SentTo
  <2>4. CASE GoesOn /\ a < SentTo
    <3>1. state > 6 /\ rg.elf_file_loaded /\ UNCHANGED p_state /\ rg'.min_addr = rg.min_addr
      BY <2>4 DEF GoesOn
    <3>2. soc.mem[a] = Wanted(a) \/ \E k \in 1 .. Len(P) : Owed(k, a)
      BY <1>P, <1>1, <2>1, <2>4, <3>1 DEF SentRight
    <3>3. CASE soc.mem[a] = Wanted(a)
      BY <3>1, <3>3 DEF Wanted
    <3>4. ASSUME NEW k \in 1 .. Len(P), Owed(k, a)
          PROVE  \E j \in 1 .. Len(Q) : Owed(j, a)'
      <4>1. /\ P[k].op = "write" /\ P[k].addr <= a /\ a < P[k].addr + 4
            /\ k = 1 => step = 1 \/ (step = 2 /\ f_fabric_reqs # << >>)
        BY <1>P, <3>4 DEF Owed
      <4>2. d = 0 \/ k # 1
        <5>1. SUFFICES ASSUME d = 1, k = 1 PROVE FALSE
          BY <1>5
        <5>2. P[1] = Command /\ step = LastStep(Command.op)
          BY <1>3, <1>5, <5>1
        <5>3. step = 3
          BY <4>1, <5>1, <5>2 DEF LastStep
        <5> QED
          BY <4>1, <5>1, <5>3
      <4>3. k - d \in 1 .. Len(Q) /\ k - d \in 1 .. Len(P) - d /\ (k - d) + d = k
        BY <1>4, <1>5, <4>2
      <4>j. PICK j : j = k - d
        OBVIOUS
      <4>4. Q[j] = P[k]
        BY <1>4, <4>3, <4>j
      <4>5. j = 1 => step' = 1 \/ (step' = 2 /\ f_fabric_reqs' # << >>)
        <5>1. CASE d = 1
          BY <1>5, <5>1
        <5>2. CASE d = 0
          <6>1. SUFFICES ASSUME k = 1 PROVE step' = 1 \/ (step' = 2 /\ f_fabric_reqs' # << >>)
            BY <4>3, <4>j, <5>2
          <6>2. CASE f_control_reqs = << >>
            BY <1>5, <1>8, <5>2, <6>2
          <6>3. CASE f_control_reqs # << >>
            <7>1. Command.op = "write"
              BY <1>3, <4>1, <6>1, <6>3
            <7>2. step \in {1, 2}
              BY <4>1, <6>1
            <7>3. step' = step \/ step' = step + 1
              BY <5>2 DEF ControllerMoves
            <7> QED
              BY <1>8, <4>1, <6>1, <6>3, <7>1, <7>2, <7>3
          <6> QED
            BY <6>2, <6>3
        <5> QED
          BY <1>5, <5>1, <5>2
      <4>6. Owed(j, a)'
        BY <1>Q, <4>1, <4>4, <4>5 DEF Owed
      <4> QED
        BY <4>3, <4>6, <4>j
    <3> QED
      BY <3>2, <3>3, <3>4
  <2>5. CASE GoesOn /\ ~(a < SentTo)
    <3>1. state' = 8 /\ state # 8
      BY <2>1, <2>5 DEF GoesOn
    <3>2. PICK r : s = <<r>> /\ WordSent(r)
      BY <1>6, <1>7, <3>1
    <3>3. Writes(r)
      BY <3>1, <3>2 DEF WordSent
    <3>4. /\ r.op = "write" /\ r.addr = rg.addr /\ UNCHANGED rg /\ state # 8 /\ state' = 8
          /\ rg.addr \in Nat
      BY <1>9, <3>3
    <3>5. SentTo = rg.addr /\ SentTo' = rg.addr + 4
      BY <3>4 DEF SentTo
    <3>6. r.addr <= a /\ a < r.addr + 4
      BY <2>1, <2>5, <3>4, <3>5, SimDriverAssumption
    <3>7. Len(s) = 1 /\ s[1] = r /\ n = 1
      BY <1>L, <3>2
    <3>k. PICK k : k = Len(Q)
      OBVIOUS
    <3>8. k \in 1 .. Len(Q) /\ Q[k] = r
      <4>1. k \in 1 .. q
        <5>1. p >= d
          BY <1>3, <1>5, <1>L
        <5>2. k = q
          BY <1>L, <3>k
        <5> QED
          BY <1>5, <1>N, <3>7, <5>1, <5>2
      <4> QED
        BY <1>4, <1>L, <3>7, <3>k, <4>1
    <3>9. k = 1 => step' = 1
      <4>1. SUFFICES ASSUME p - d = 0 PROVE step' = 1
        <5>1. k = q
          BY <1>L, <3>k
        <5> QED
          BY <1>5, <1>N, <3>7, <5>1
      <4>2. CASE d = 1
        BY <1>5, <4>2
      <4>3. CASE d = 0
        BY <1>3, <1>5, <1>8, <1>L, <4>1, <4>3
      <4> QED
        BY <1>5, <4>2, <4>3
    <3>10. Owed(k, a)'
      BY <1>Q, <3>4, <3>6, <3>8, <3>9 DEF Owed
    <3> QED
      BY <3>8, <3>10
  <2> QED
    BY <2>2, <2>3, <2>4, <2>5
<1> QED
  BY <1>1, <1>2, <1>11, <1>12, <1>13 DEF ImageInv

-----------------------------------------------------------------------------
(* Steps that leave the image and the words on their way alone.            *)
LEMMA ImageRests ==
  ASSUME ImageInv, UNCHANGED <<env, state, p_state, rg, step>>,
         UNCHANGED <<f_control_reqs, fControlReq, f_fabric_reqs>>,
         soc'.mem = soc.mem, main_time' \in {0, 1} => main_time \in {0, 1}
  PROVE  ImageInv'
<1>1. CommandPath' = CommandPath
  BY DEF CommandPath
<1>2. HostInv'
  BY DEF ImageInv, HostInv, LoopOk
<1>3. \A a : Wanted(a)' = Wanted(a)
  BY DEF Wanted
<1>4. WritesRight'
  <2>1. ASSUME NEW r, WordRight(r) PROVE WordRight(r)'
    BY <1>3, <2>1 DEF WordRight
  <2>2. PICK Q : Q = CommandPath'
    OBVIOUS
  <2>3. SUFFICES ASSUME NEW k \in 1 .. Len(Q), Q[k].op = "write"
                 PROVE  rg'.elf_file_loaded /\ state' > 6 /\ WordRight(Q[k])'
    BY <2>2 DEF WritesRight
  <2>4. rg.elf_file_loaded /\ state > 6 /\ WordRight(Q[k])
    BY <1>1, <2>2, <2>3 DEF ImageInv, WritesRight
  <2>5. WordRight(Q[k])'
    BY <2>1, <2>4
  <2> QED
    BY <2>4, <2>5
<1>5. RequestRight'
  BY DEF ImageInv, RequestRight, Command
<1>6. SentRight'
  <2>1. \A k, a : Owed(k, a)' = Owed(k, a)
    BY <1>1 DEF Owed
  <2>2. SentTo' = SentTo
    BY DEF SentTo
  <2> QED
    BY <1>1, <1>3, <2>1, <2>2 DEF ImageInv, SentRight
<1> QED
  BY <1>2, <1>4, <1>5, <1>6 DEF ImageInv

LEMMA NothingLoaded ==
  ASSUME ~rg.elf_file_loaded, CommandPath = << >>, f_fabric_reqs = << >>
  PROVE  WritesRight /\ RequestRight /\ SentRight
<1>1. 1 .. Len(CommandPath) = {}
  OBVIOUS
<1> QED
  BY <1>1 DEF WritesRight, RequestRight, SentRight

LEMMA InitImage == Init => ImageInv
<1> SUFFICES ASSUME Init PROVE ImageInv
  OBVIOUS
<1>1. /\ env \in Envs /\ state = 10 /\ f_fabric_reqs = << >>
      /\ f_control_reqs = << >> /\ fControlReq = << >>
      /\ rg = [elf_file_loaded |-> FALSE, min_addr |-> 0, max_addr |-> 0, exit_pc |-> 0,
               addr |-> 0, start_instret |-> 0, end_instret |-> 0]
      /\ soc.mem = [a \in 0 .. MemSize - 1 |-> Unspecified]
  BY DEF Init, ControllerInit
<1>2. ~rg.elf_file_loaded /\ DOMAIN rg = Registers
  BY <1>1 DEF Registers
<1>3. CommandPath = << >>
  BY <1>1 DEF CommandPath, Cat
<1>4. HostInv
  BY <1>1, <1>2 DEF HostInv
<1>5. DOMAIN soc.mem = 0 .. MemSize - 1
  BY <1>1
<1> QED
  BY <1>1, <1>2, <1>3, <1>4, <1>5, NothingLoaded DEF ImageInv

LEMMA ResetImage ==
  ASSUME ImageInv, ResetEdge, ~rg.elf_file_loaded, UNCHANGED <<env, soc>>
  PROVE  ImageInv'
<1>1. /\ state' = 0 /\ UNCHANGED rg /\ fControlReq' = << >>
      /\ f_control_reqs' = << >> /\ f_fabric_reqs' = << >>
  BY DEF ResetEdge, ControllerReset
<1>2. CommandPath' = << >>
  BY <1>1 DEF CommandPath, Cat
<1>3. HostInv'
  BY <1>1 DEF ImageInv, HostInv
<1>4. 1 .. Len(CommandPath') = {}
  BY <1>2
<1>5. WritesRight' /\ RequestRight' /\ SentRight'
  BY <1>1, <1>4 DEF WritesRight, RequestRight, SentRight
<1> QED
  BY <1>3, <1>5 DEF ImageInv

(* The steps of main.                                                      *)
LEMMA MainKeepsImage ==
  ASSUME FilesFit, SimInv, ImageInv, main
  PROVE  ImageInv'
<1>1. /\ ClockInv /\ SoCType
      /\ main_time \in {0, 1} => BeforeReset
      /\ main_time \notin {0, 1} => CoreInv
  BY DEF SimInv
<1>2. /\ RST_N' = (IF main_time > 10 THEN 1 ELSE RST_N)
      /\ CLK' = (CASE main_time % 10 = 1 -> 1 [] main_time % 10 = 6 -> 0 [] OTHER -> CLK)
      /\ main_time' = Later
      /\ CLK = 0 /\ CLK' = 1 =>
           IF RST_N' = 0 THEN ResetEdge ELSE FSM /\ ConsoleEdge /\ ControllerEdge
      /\ ~(CLK = 0 /\ CLK' = 1) =>
           UNCHANGED <<fsmVars, fControlReq, fControlRsp, consoleVars, controlVars, uart>>
      /\ UNCHANGED <<env, soc>>
  BY DEF main, Deasserted
<1>3. main_time \in {0, 1, 6, 11, 16}
  BY <1>1 DEF ClockInv, Times
<1>4. ASSUME ~(CLK = 0 /\ CLK' = 1), main_time' \in {0, 1} => main_time \in {0, 1} PROVE ImageInv'
  <2>1. UNCHANGED <<fsmVars, fControlReq, controlVars>> /\ soc'.mem = soc.mem
    BY <1>2, <1>4
  <2>2. /\ UNCHANGED <<state, p_state, rg, step>>
        /\ UNCHANGED <<f_control_reqs, fControlReq, f_fabric_reqs>>
    BY <2>1 DEF fsmVars, controlVars
  <2> QED
    BY <1>2, <1>4, <2>1, <2>2, ImageRests
<1>5. CASE main_time = 0
  <2>1. CLK' = 0
    BY <1>1, <1>2, <1>5 DEF ClockInv
  <2> QED
    BY <1>4, <1>5, <2>1
<1>6. CASE main_time = 1
  <2>1. CLK = 0 /\ RST_N' = 0 /\ CLK' = 1
    BY <1>1, <1>2, <1>6 DEF ClockInv
  <2>2. ~rg.elf_file_loaded
    BY <1>6 DEF ImageInv, HostInv
  <2> QED
    BY <1>2, <2>1, <2>2, ResetImage
<1>7. CASE main_time \in {6, 16}
  <2>1. CLK' = 0 /\ main_time' = 11
    BY <1>2, <1>7, LaterFacts
  <2> QED
    BY <1>4, <2>1
<1>8. CASE main_time = 11
  <2>1. CLK = 0 /\ main_time' = 16 /\ CLK' = 1 /\ RST_N' = 1
    BY <1>1, <1>2, <1>8, LaterFacts DEF ClockInv
  <2>2. StateInv /\ PathType /\ FabricInv /\ ResetInv /\ AskInv /\ AnsInv
    BY <1>1, <1>8 DEF CoreInv
  <2>3. FSM /\ ControllerEdge /\ state \in 0 .. 23 /\ state # 23
    <3>1. state = 23 => gotFinish
      BY <1>1, <1>8 DEF CoreInv, StateInv, ClockInv
    <3>2. ~gotFinish
      BY DEF main
    <3> QED
      BY <1>2, <2>1, <2>2, <3>1, <3>2 DEF StateInv
  <2>4. PICK S : /\ \A r \in S : r.op \in Commands
                 /\ f_control_reqs \in Seq(S) /\ fControlReq \in Seq(S)
    BY <2>2, <2>3 DEF PathType
  <2>5. PICK T : fControlRsp \in Seq(T) /\ f_control_rsps \in Seq(T)
    BY <2>2 DEF PathType
  <2>6. (\E r : DriverSends(r)) \/ DriverRests \/ DriverHears
    BY <2>2, <2>3, <2>4, MovingFacts, DriverSteps
  <2>7. DriverOk
    BY <2>4, <2>6, MovingFacts, DriverPaths
  <2>8. PICK s, h : DriverMoves(s, h)
    BY <2>7 DEF DriverOk
  <2>9. ControllerOk
    BY <1>1, <2>2, <2>3, <2>5, MovingFacts, ControllerSteps
  <2>10. PICK d, e : ControllerMoves(d, e)
    BY <2>9 DEF ControllerOk
  <2>11. PathGoesOn(CommandPath, CommandPath', d, s)
    BY <2>4, <2>5, <2>8, <2>10, MovingFacts, EdgePaths
  <2>12. MovingReq \in Seq(S)
    BY <2>4, MovingFacts, Moved
  <2>13. main_time' \notin {0, 1}
    BY <2>1
  <2> QED
    BY <1>2, <2>2, <2>3, <2>4, <2>8, <2>10, <2>11, <2>12, <2>13, EdgeKeepsImage
<1> QED
  BY <1>3, <1>5, <1>6, <1>7, <1>8

(* The memory takes a word: the bytes of it are owed no longer.            *)
LEMMA WordArrives ==
  ASSUME NEW mem, DOMAIN mem = 0 .. MemSize - 1, NEW r, WordRight(r),
         NEW a \in 0 .. MemSize - 1
  PROVE  /\ DOMAIN Overwritten(mem, r.addr, r.word) = 0 .. MemSize - 1
         /\ Overwritten(mem, r.addr, r.word)[a] =
              IF r.addr <= a /\ a < r.addr + 4 THEN Wanted(a) ELSE mem[a]
<1>1. /\ r.addr \in Nat /\ DOMAIN r.word = 1 .. 4
      /\ \A i \in 1 .. 4 : r.word[i] = Wanted(r.addr + i - 1)
  BY DEF WordRight
<1>2. DOMAIN Overwritten(mem, r.addr, r.word) = 0 .. MemSize - 1
  BY DEF Overwritten
<1>3. PICK i : i = a - r.addr + 1
  OBVIOUS
<1>4. Overwritten(mem, r.addr, r.word)[a] = IF i \in 1 .. 4 THEN r.word[i] ELSE mem[a]
  BY <1>1, <1>3 DEF Overwritten
<1>5. i \in 1 .. 4 <=> r.addr <= a /\ a < r.addr + 4
  BY <1>1, <1>3, SimDriverAssumption
<1>6. i \in 1 .. 4 => r.word[i] = Wanted(a)
  <2>1. r.addr + i - 1 = a
    BY <1>1, <1>3, SimDriverAssumption
  <2> QED
    BY <1>1, <2>1
<1> QED
  BY <1>2, <1>4, <1>5, <1>6

LEMMA AnswerKeepsImage ==
  ASSUME SimInv, ImageInv, TargetAnswers
  PROVE  ImageInv'
<1>1. CoreInv /\ main_time \notin {0, 1} /\ SoCType
  BY Acting DEF TargetAnswers, SimInv
<1> DEFINE q == Head(f_fabric_reqs)
           op == Command.op
<1>2. /\ UNCHANGED <<driverVars, f_control_reqs, step>>
      /\ f_fabric_reqs # << >> /\ f_fabric_reqs' = Tail(f_fabric_reqs)
      /\ soc' = [soc EXCEPT !.runs = @ \/ (q.op = "write" /\ q.at = "CPU.A1"),
                            !.mem = IF q.op = "write" /\ q.at = "memory"
                                    THEN Overwritten(@, q.addr, q.word) ELSE @]
  BY DEF TargetAnswers
<1>3. /\ UNCHANGED <<env, main_time, state, p_state, rg, step>>
      /\ UNCHANGED <<fControlReq, f_control_reqs>>
  BY <1>2 DEF driverVars, clockVars, fsmVars
<1>4. f_control_reqs # << >> /\ FabricOk(op, step, f_fabric_reqs, f_fabric_rsps, soc.runs)
  BY <1>1, <1>2 DEF CoreInv, FabricInv
<1>5. /\ op \in Commands /\ step \in 1 .. LastStep(op) /\ AwaitsFabric(op, step)
      /\ \E x : f_fabric_reqs = <<x>> /\ x.op = Steps[op][step - 1].op /\ x.at = Steps[op][step - 1].at
  BY <1>2, <1>4 DEF FabricOk
<1>6. q.op = Steps[op][step - 1].op /\ q.at = Steps[op][step - 1].at /\ f_fabric_reqs' = << >>
  BY <1>2, <1>5
<1>7. step - 1 \in 1 .. LastStep(op) /\ step - 1 < LastStep(op) /\ (step - 1) + 1 = step
  <2>1. step # 1 /\ LastStep(op) \in Nat
    BY <1>5, CommandSteps DEF StepFacts, LastStep
  <2> QED
    BY <1>5, <2>1
<1>8. StepFacts(op, step - 1) /\ RequestFacts(op, step - 1) /\ StepFacts(op, step)
  BY <1>5, <1>7, CommandSteps
<1>9. Doing(op, step - 1) = "request"
  BY <1>5, <1>7, <1>8 DEF StepFacts
<1>10. q.at = "memory" <=> op = "write"
  BY <1>6, <1>8, <1>9 DEF RequestFacts
<1>11. q.at = "memory" => q.op = "write"
  BY <1>6, <1>8, <1>9, <1>10 DEF RequestFacts
<1>12. op = "write" => step = 2
  <2>1. SUFFICES ASSUME op = "write" PROVE step = 2
    OBVIOUS
  <2>2. LastStep(op) = 3
    BY <2>1 DEF LastStep
  <2>3. Doing(op, 3) # "word" /\ Doing(op, 3) # "acknowledged"
    BY <2>1 DEF Doing, Steps, Write, Done
  <2>4. step # 3
    BY <1>5, <2>3 DEF AwaitsFabric
  <2> HIDE DEF op
  <2> QED
    BY <1>5, <1>7, <2>2, <2>4
<1>13. PICK S : f_control_reqs \in Seq(S) /\ fControlReq \in Seq(S)
  BY <1>1 DEF CoreInv, PathType
<1>14. PICK P : P = CommandPath
  OBVIOUS
<1>15. CommandPath' = P
  BY <1>3, <1>14 DEF CommandPath
<1>16. P # << >> /\ P[1] = Command /\ Len(P) \in Nat /\ 1 \in 1 .. Len(P)
  <2>1. P # << >> /\ P[1] = Command /\ Len(P) \in Nat /\ (P = << >> <=> Len(P) = 0)
    BY <1>4, <1>13, <1>14, FirstCommand
  <2> QED
    BY <2>1
<1>17. /\ HostInv /\ DOMAIN soc.mem = 0 .. MemSize - 1
       /\ WritesRight /\ RequestRight /\ SentRight
  BY DEF ImageInv
<1>18. HostInv'
  BY <1>3, <1>17 DEF HostInv, LoopOk
<1>19. \A b : Wanted(b)' = Wanted(b)
  BY <1>3 DEF Wanted
<1>20. RequestRight'
  BY <1>6 DEF RequestRight
<1>21. WritesRight'
  <2>1. SUFFICES ASSUME NEW k \in 1 .. Len(P), P[k].op = "write"
                 PROVE  rg'.elf_file_loaded /\ state' > 6 /\ WordRight(P[k])'
    BY <1>15 DEF WritesRight
  <2>2. rg.elf_file_loaded /\ state > 6 /\ WordRight(P[k])
    BY <1>14, <1>17, <2>1 DEF WritesRight
  <2>3. WordRight(P[k])'
    BY <1>19, <2>2 DEF WordRight
  <2> QED
    BY <1>3, <2>2, <2>3
<1>22. SentTo' = SentTo
  BY <1>3 DEF SentTo
<1>23. ASSUME NEW k \in 1 .. Len(P), NEW a, Owed(k, a), k # 1 \/ op # "write" PROVE Owed(k, a)'
  <2>1. k # 1
    BY <1>14, <1>16, <1>23 DEF Owed
  <2> QED
    BY <1>14, <1>15, <1>23, <2>1 DEF Owed
<1> HIDE DEF q, op
<1>24. CASE q.at # "memory"
  <2>1. soc'.mem = soc.mem
    BY <1>1, <1>2, <1>24 DEF SoCType
  <2>2. op # "write"
    BY <1>10, <1>24
  <2>3. SentRight'
    <3>1. SUFFICES ASSUME rg.elf_file_loaded, state > 6, NEW a \in 0 .. MemSize - 1,
                          rg.min_addr <= a, a < SentTo
                   PROVE  soc.mem[a] = Wanted(a) \/ \E k \in 1 .. Len(P) : Owed(k, a)'
      BY <1>3, <1>15, <1>19, <1>22, <2>1 DEF SentRight
    <3>2. soc.mem[a] = Wanted(a) \/ \E k \in 1 .. Len(P) : Owed(k, a)
      BY <1>14, <1>17, <3>1 DEF SentRight
    <3> QED
      BY <1>23, <2>2, <3>2
  <2> QED
    BY <1>17, <1>18, <1>20, <1>21, <2>1, <2>3 DEF ImageInv
<1>25. CASE q.at = "memory"
  <2>1. op = "write" /\ q.op = "write" /\ step = 2
    BY <1>10, <1>11, <1>12, <1>25
  <2>2. q.addr = Command.addr /\ q.word = Command.word
    BY <1>2, <1>17, <1>25 DEF RequestRight, q
  <2>3. PICK r : r = Command
    OBVIOUS
  <2>4. WordRight(r)
    BY <1>14, <1>16, <1>17, <2>1, <2>3 DEF WritesRight, op
  <2>5. soc'.mem = Overwritten(soc.mem, r.addr, r.word)
    BY <1>1, <1>2, <1>25, <2>1, <2>2, <2>3 DEF SoCType
  <2>6. \A a \in 0 .. MemSize - 1 :
           soc'.mem[a] = IF r.addr <= a /\ a < r.addr + 4 THEN Wanted(a) ELSE soc.mem[a]
    BY <1>17, <2>4, <2>5, WordArrives
  <2>7. DOMAIN soc'.mem = 0 .. MemSize - 1
    BY <1>17, <2>5 DEF Overwritten
  <2>8. SentRight'
    <3>1. SUFFICES ASSUME rg.elf_file_loaded, state > 6, NEW a \in 0 .. MemSize - 1,
                          rg.min_addr <= a, a < SentTo
                   PROVE  soc'.mem[a] = Wanted(a) \/ \E k \in 1 .. Len(P) : Owed(k, a)'
      BY <1>3, <1>15, <1>19, <1>22 DEF SentRight
    <3>2. soc.mem[a] = Wanted(a) \/ \E k \in 1 .. Len(P) : Owed(k, a)
      BY <1>14, <1>17, <3>1 DEF SentRight
    <3>3. CASE soc.mem[a] = Wanted(a)
      BY <2>6, <3>3
    <3>4. ASSUME NEW k \in 1 .. Len(P), Owed(k, a)
          PROVE  soc'.mem[a] = Wanted(a) \/ Owed(k, a)'
      <4>1. CASE k # 1
        BY <1>23, <3>4, <4>1
      <4>2. CASE k = 1
        <5>1. r.addr <= a /\ a < r.addr + 4
          BY <1>14, <1>16, <2>3, <3>4, <4>2 DEF Owed
        <5> QED
          BY <2>6, <5>1
      <4> QED
        BY <4>1, <4>2
    <3> QED
      BY <3>2, <3>3, <3>4
  <2> QED
    BY <1>18, <1>20, <1>21, <2>7, <2>8 DEF ImageInv
<1> QED
  BY <1>24, <1>25

LEMMA NextKeepsImage ==
  ASSUME FilesFit
  PROVE  SimInv /\ ImageInv /\ [Next]_vars => ImageInv'
<1> SUFFICES ASSUME SimInv, ImageInv, [Next]_vars PROVE ImageInv'
  OBVIOUS
<1>1. DOMAIN soc = {"up", "runs", "mem", "instret", "sent"}
  BY DEF SimInv, SoCType
<1>2. ASSUME UNCHANGED driverVars, UNCHANGED <<f_control_reqs, f_fabric_reqs, step>>, soc'.mem = soc.mem
      PROVE  ImageInv'
  <2>1. /\ UNCHANGED <<env, state, p_state, rg, main_time>>
        /\ UNCHANGED <<f_control_reqs, fControlReq, f_fabric_reqs, step>>
    BY <1>2 DEF driverVars, clockVars, fsmVars
  <2> QED
    BY <1>2, <2>1, ImageRests
<1>3. CASE main
  BY <1>3, MainKeepsImage
<1>4. CASE SoCResets
  <2>1. /\ UNCHANGED driverVars /\ UNCHANGED <<f_control_reqs, f_fabric_reqs, step>>
        /\ soc' = [soc EXCEPT !.up = TRUE]
    BY <1>4 DEF SoCResets
  <2> QED
    BY <1>1, <1>2, <2>1
<1>5. CASE TargetAnswers
  BY <1>5, AnswerKeepsImage
<1>6. CASE ProgramStops
  <2>1. /\ UNCHANGED driverVars /\ UNCHANGED controlVars
        /\ \E n \in 0 .. 3 : soc' = [soc EXCEPT !.runs = FALSE, !.instret = n]
    BY <1>6 DEF ProgramStops
  <2> QED
    BY <1>1, <1>2, <2>1 DEF controlVars
<1>7. CASE ns16550_init
  BY <1>2, <1>7 DEF ns16550_init, controlVars
<1>8. CASE ns16550_txchar
  <2>1. UNCHANGED driverVars /\ UNCHANGED controlVars /\ soc' = [soc EXCEPT !.sent = @ + 1]
    BY <1>8 DEF ns16550_txchar
  <2> QED
    BY <1>1, <1>2, <2>1 DEF controlVars
<1>9. CASE UNCHANGED vars
  BY <1>2, <1>9 DEF vars, controlVars
<1> QED
  BY <1>3, <1>4, <1>5, <1>6, <1>7, <1>8, <1>9 DEF Next

(* When the processor runs nothing is on its way to the memory any more.   *)
LEMMA AllSent ==
  ASSUME SimInv, ImageInv, soc.runs, rg.elf_file_loaded, NEW a \in 0 .. MemSize - 1,
         rg.min_addr <= a, a < rg.max_addr
  PROVE  soc.mem[a] = Wanted(a)
<1>1. state = 16
  BY RunsAt16
<1>2. HostInv /\ SentRight
  BY DEF ImageInv
<1>3. rg.addr \in Nat /\ rg.max_addr <= rg.addr /\ rg.max_addr \in Nat
  <2>1. LoopOk /\ Image(env, p_state) /\ rg.max_addr = p_state.max_addr
    BY <1>1, <1>2 DEF HostInv
  <2> QED
    BY <1>1, <2>1 DEF LoopOk, Image
<1>4. a < SentTo
  <2>1. SentTo = rg.addr
    BY <1>1 DEF SentTo
  <2> QED
    BY <1>3, <2>1, SimDriverAssumption
<1>5. soc.mem[a] = Wanted(a) \/ \E k \in 1 .. Len(CommandPath) : Owed(k, a)
  BY <1>1, <1>2, <1>4 DEF SentRight
<1>6. CoreInv
  BY DEF SimInv, BeforeReset
<1>7. /\ f_control_reqs # << >>
      /\ FabricOk(Command.op, step, f_fabric_reqs, f_fabric_rsps, soc.runs)
  BY <1>6 DEF CoreInv, FabricInv
<1>8. PICK S : f_control_reqs \in Seq(S) /\ fControlReq \in Seq(S)
  BY <1>6 DEF CoreInv, PathType
<1>9. Command.op = "run" /\ step \in {2, 3, 4}
  BY <1>7 DEF FabricOk
<1>10. PICK P : P = CommandPath
  OBVIOUS
<1>11. P[1] = Command /\ Len(P) \in Nat /\ Len(P) # 0
  BY <1>7, <1>8, <1>10, FirstCommand
<1>12. 1 = Len(P)
  <2>1. 1 \in 1 .. Len(P)
    BY <1>11
  <2>2. P[1].op \in Asking /\ step <= ReplyStep(P[1].op)
    BY <1>9, <1>11 DEF Asking, ReplyStep
  <2> QED
    BY <1>6, <1>10, <2>1, <2>2 DEF CoreInv, AskInv
<1>13. ~ \E k \in 1 .. Len(CommandPath) : Owed(k, a)
  <2>1. SUFFICES ASSUME NEW k \in 1 .. Len(P), Owed(k, a) PROVE FALSE
    BY <1>10
  <2>2. k = 1
    <3>1. \A n : n = 1 /\ k \in 1 .. n => k = 1
      OBVIOUS
    <3> QED
      BY <1>12, <2>1, <3>1, Zenon
  <2> QED
    BY <1>9, <1>10, <1>11, <2>1, <2>2 DEF Owed
<1> QED
  BY <1>5, <1>13

(* For every file of which what the loader takes for granted is true       *)
(* (FilesFit): when the driver has started the processor the memory of the *)
(* SoC holds every byte of the file's loadable sections, the later section *)
(* where two overlap, and the breakpoint at the exit symbol, although the  *)
(* words go out one by one through two FIFOs and the fabric.               *)
THEOREM ImageReachesMemory ==
  ASSUME FilesFit
  PROVE  Spec => []ImageInMemory
<1>1. Init => SimInv /\ ImageInv
  BY InitInv, InitImage
<1>2. SimInv /\ ImageInv /\ [Next]_vars => (SimInv /\ ImageInv)'
  BY NextKeeps, NextKeepsImage
<1>3. SimInv /\ ImageInv => ImageInMemory
  <2>1. SUFFICES ASSUME SimInv, ImageInv, soc.runs, rg.elf_file_loaded, NEW a \in DOMAIN soc.mem,
                        Covering(env.SIM_ELF_FILENAME, a) # {}
                 PROVE  soc.mem[a] = IF a \in ExitPc .. ExitPc + 3 THEN EBREAK[a - ExitPc + 1]
                                     ELSE ImageByte(env.SIM_ELF_FILENAME, a)
    BY DEF ImageInMemory
  <2>2. a \in 0 .. MemSize - 1 /\ HostInv /\ state = 16
    BY <2>1, RunsAt16 DEF ImageInv
  <2>3. Image(env, p_state) /\ rg.min_addr = p_state.min_addr /\ rg.max_addr = p_state.max_addr
    BY <2>1, <2>2 DEF HostInv
  <2>4. /\ p_state # NULL /\ p_state.memp[a] = ImageByte(env.SIM_ELF_FILENAME, a)
        /\ rg.min_addr <= a /\ a < rg.max_addr
    BY <2>1, <2>2, <2>3 DEF Image
  <2>5. soc.mem[a] = Wanted(a)
    BY <2>1, <2>2, <2>4, AllSent
  <2>6. ExitPc = p_state.pc_exit
    BY <2>4 DEF ExitPc
  <2> QED
    BY <2>4, <2>5, <2>6 DEF Wanted
<1> QED
  BY <1>1, <1>2, <1>3, PTL DEF Spec
=============================================================================
