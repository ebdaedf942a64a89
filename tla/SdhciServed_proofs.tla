-------------------------- MODULE SdhciServed_proofs --------------------------
(***************************************************************************)
(* What the caller gets back: a request reported as good was carried out,  *)
(* the controller has stopped with a request that is completed, and no     *)
(* interrupt bit is taken for another command's.  Together these are the   *)
(* promise of RequestPort; this module has what the functions do for it.   *)
(*                                                                         *)
(* The argument: a request the host has is in one of three states.  It     *)
(* waits to be sent (Ready), and the lines are silent.  Or it runs (Runs), *)
(* and every bit of the controller belongs to its command or its data.  Or *)
(* it is finished (Finished), and then the lines are silent and what it    *)
(* needed was done, or its error makes the thread reset the controller     *)
(* before it completes it.  Between the read of the status register and    *)
(* the use of its bits (InCmd, InData) nothing takes the command away.     *)
(***************************************************************************)
EXTENDS SdhciOnce_proofs

-----------------------------------------------------------------------------
(* The three states of a request the host has *)

\* The bits that answer a command and those that answer its data: a failed
\* Auto CMD23 comes before the command, a failed Auto CMD12 after the data.
CmdAnswers(m) ==
  {"RESPONSE", "TIMEOUT", "CRC"} \cup IF m \in WithSbc THEN {"AUTO_CMD_ERR"} ELSE {}
DataAnswers(m) == DataBits \cup IF m \in WithSbc THEN {} ELSE {"AUTO_CMD_ERR"}

\* Nothing runs on the lines and no interrupt but the card's is pending.
Silent(h) ==
  h.cmdLine = None /\ h.datLine = None /\ Bits(h.status) \subseteq {"CARD"}

\* The data came before the response of their command.
Early(h) == h.data # None /\ h.data_early

\* The controller has nothing more to say of the command, or of the data.
CmdOver(h, m) == h.cmdLine = None /\ Bits(h.status) \cap CmdAnswers(m) = {}
DataOver(h, m) ==
  h.datLine = None /\ Bits(h.status) \cap DataAnswers(m) = {} /\ ~Early(h)

\* The bits B say what the controller did for m.
Genuine(h, m, B) ==
  /\ "RESPONSE" \in B /\ "CRC" \notin B => Part(h.cmd) \in h.served
  /\ "DATA_END" \in B => "data" \in h.served
  /\ "AUTO_CMD_ERR" \in B =>
       m \in WithData /\ IF m \in WithSbc THEN AutoCmd23 ELSE AutoCmd12

\* What is done when a command goes out leaves the parts from it on to do.
Ahead(c) ==
  {p \in ErrorFields : \/ p = "stop"
                       \/ Part(c) = "cmd" /\ p # "sbc"
                       \/ Part(c) = "sbc"}

\* The parts that a request which runs still waits for.
Owed(h) ==
  {p \in ErrorFields :
     \/ p = "stop"
     \/ h.cmd # None /\ Part(h.cmd) = "sbc"
     \/ p = "cmd" /\ h.cmd # None /\ Part(h.cmd) = "cmd"
     \/ p = "data" /\ h.data_cmd # None /\ ~Early(h)}

\* Without an error, the parts m needs were done, save those of rest.
Honest(h, m, rest) == h.error[m] = {} => Needs[m] \subseteq h.served \cup rest

\* The command c of m may be sent.
Ready(h, m, c) ==
  /\ c \in Cmds /\ Mrq(c) = m
  /\ Parked(h) /\ Done(h) = {} /\ Silent(h) /\ ~h.pending_reset
  /\ h.timers \subseteq {TimerOf(m)}
  /\ "stop" \notin h.error[m]
  /\ Part(c) # "stop" => h.error[m] = {}
  /\ Honest(h, m, Ahead(c))

\* The lines, the pending bits and the commands of the host belong together.
Wired(h, m) ==
  /\ h.data_cmd # None =>
       h.data_cmd = <<m, "cmd">> /\ DataLine(h.data_cmd) /\ h.cmd \in {None, <<m, "cmd">>}
  /\ h.data = IF h.data_cmd # None /\ m \in WithData THEN m ELSE None
  /\ h.cmd = <<m, "cmd">> /\ m \in WithData => h.data_cmd = <<m, "cmd">>
  /\ h.cmdLine \in {None, h.cmd}
  /\ h.datLine \in {None, h.data_cmd}
  /\ \A s \in h.status :
       \/ s[1] = "CARD"
       \/ s[1] \in CmdAnswers(m) /\ h.cmd # None /\ s[2] = h.cmd
       \/ s[1] \in DataAnswers(m) /\ h.data_cmd # None /\ s[2] = h.data_cmd
  /\ Bits(h.status) \cap CmdAnswers(m) # {} => h.cmdLine = None
  /\ Bits(h.status) \cap DataAnswers(m) # {} => h.datLine = None /\ ~Early(h)
  /\ Early(h) => h.datLine = None /\ "data" \in h.served
  /\ Genuine(h, m, Bits(h.status))

\* A command of m, or its data, run.
Runs(h, m) ==
  /\ ~Parked(h) /\ ~h.pending_reset
  /\ h.timers \subseteq {TimerOf(m)}
  /\ "stop" \notin h.error[m]
  /\ h.cmd # None /\ Part(h.cmd) = "sbc" => h.error[m] = {}
  /\ Honest(h, m, Owed(h))
  /\ Wired(h, m)

\* m is in a slot of mrqs_done.
Finished(h, m) ==
  /\ Done(h) # {}
  /\ h.timers = {}
  /\ h.pending_reset <=> NeedsReset(h, m)
  /\ ~h.pending_reset => Silent(h) /\ Honest(h, m, {})

Books(h, m) == Ready(h, m, h.deferred_cmd) \/ Runs(h, m) \/ Finished(h, m)

\* Only the controller serves m, and nobody writes the errors of others.
Frame(h, g, m) ==
  g.served = h.served /\ \A n \in Reqs \ {m} : g.error[n] = h.error[n]

-----------------------------------------------------------------------------
(* What the functions of SdhciHost leave of the fields the roles are not     *)
(* about.                                                                    *)

\* The fields that say what goes on between the controller and the driver.
Ends(h) == <<h.cmdLine, h.datLine, h.status, h.served>>

LEMMA FailFields ==
  ASSUME NEW h \in Host, NEW m \in Reqs, NEW field \in ErrorFields
  PROVE  LET f == Fail(h, m, field)
         IN /\ f \in Host /\ Roles(f) = Roles(h) /\ Ends(f) = Ends(h)
            /\ f.error[m] = h.error[m] \cup {field}
            /\ \A n \in Reqs \ {m} : f.error[n] = h.error[n]
            /\ f.timers = h.timers /\ f.pending_reset = h.pending_reset
            /\ f.data_early = h.data_early
<1>1. Fail(h, m, field) \in Host
  BY FailType
<1> QED BY <1>1 DEF Fail, Roles, Ends, Host

LEMMA ResetFields ==
  ASSUME NEW h \in Host, NEW lines \in SUBSET Lines
  PROVE  LET r == DoReset(h, lines)
         IN /\ r \in Host /\ Roles(r) = Roles(h)
            /\ r.error = h.error /\ r.served = h.served
            /\ r.timers = h.timers /\ r.pending_reset = h.pending_reset
            /\ r.data_early = h.data_early
            /\ lines = {} => Ends(r) = Ends(h)
            /\ lines = Lines => Silent(r)
<1> DEFINE r == DoReset(h, lines)
<1>1. r \in Host /\ Roles(r) = Roles(h)
  BY DoResetType, ResetRoles
<1>2. /\ r.error = h.error /\ r.served = h.served
      /\ r.timers = h.timers /\ r.pending_reset = h.pending_reset
      /\ r.data_early = h.data_early
      /\ r.cmdLine = IF "cmd" \in lines THEN None ELSE h.cmdLine
      /\ r.datLine = IF "dat" \in lines THEN None ELSE h.datLine
      /\ r.status = {s \in h.status : \A l \in lines : s[1] \notin LineBits(l)}
  BY DEF DoReset, Host
<1>3. lines = {} => Ends(r) = Ends(h)
  <2> HIDE DEF r
  <2> QED BY <1>2 DEF Ends
<1>4. lines = Lines => Silent(r)
  <2> SUFFICES ASSUME lines = Lines PROVE Silent(r)
    OBVIOUS
  <2> HIDE DEF r
  <2>1. r.cmdLine = None /\ r.datLine = None
    BY <1>2 DEF Lines
  <2>2. ASSUME NEW s \in r.status PROVE s[1] = "CARD"
    <3>1. s \in h.status /\ s[1] \notin LineBits("cmd") /\ s[1] \notin LineBits("dat")
      BY <1>2 DEF Lines
    <3>2. s[1] \in IntBits
      BY <3>1 DEF Host
    <3> QED BY <3>1, <3>2 DEF LineBits, IntBits
  <2> QED BY <2>1, <2>2 DEF Silent, Bits
<1> QED BY <1>1, <1>2, <1>3, <1>4

LEMMA SetMrqDoneFields ==
  ASSUME NEW h \in Host, NEW m \in Reqs
  PROVE  LET s == SetMrqDone(h, m)
         IN /\ Ends(s) = Ends(h) /\ s.error = h.error /\ s.timers = h.timers
            /\ s.pending_reset = h.pending_reset
<1>1. SetMrqDone(h, m) \in Host
  BY SetMrqDoneType
<1>2. CASE \E i \in Slots : h.mrqs_done[i] = m
  BY <1>1, <1>2 DEF SetMrqDone, Warn, Ends, Host
<1>3. CASE ~ \E i \in Slots : h.mrqs_done[i] = m
  <2>1. CASE Slots \ Done(h) = {}
    BY <1>1, <1>3, <2>1 DEF SetMrqDone, Warn, Ends, Host
  <2>2. CASE Slots \ Done(h) # {}
    BY <1>1, <1>3, <2>2 DEF SetMrqDone, Ends, Host
  <2> QED BY <2>1, <2>2
<1> QED BY <1>2, <1>3

LEMMA FinishFields ==
  ASSUME NEW h \in Host, NEW m \in Reqs,
         NEW f \in {FinishMrqNoWork(h, m), FinishMrq(h, m)}
  PROVE  /\ f \in Host /\ Ends(f) = Ends(h) /\ f.error = h.error
         /\ f.timers = h.timers \ {TimerOf(m)}
         /\ f.pending_reset = (h.pending_reset \/ NeedsReset(h, m))
<1> DEFINE detached == [h EXCEPT
             !.cmd = Drop(@, m), !.data_cmd = Drop(@, m),
             !.deferred_cmd = Drop(@, m), !.data = IF @ = m THEN None ELSE @,
             !.pending_reset = @ \/ NeedsReset(h, m)]
           s == SetMrqDone(detached, m)
           g == FinishMrqNoWork(h, m)
<1>1. detached \in Host
  BY DetachType
<1>2. /\ Ends(detached) = Ends(h) /\ detached.error = h.error
      /\ detached.timers = h.timers
      /\ detached.pending_reset = (h.pending_reset \/ NeedsReset(h, m))
  BY DEF Host, Ends
<1>3. g = [s EXCEPT !.timers = @ \ {TimerOf(m)}]
  BY DEF FinishMrqNoWork
<1> HIDE DEF detached
<1>4. /\ s \in Host /\ Ends(s) = Ends(h) /\ s.error = h.error
      /\ s.timers = h.timers
      /\ s.pending_reset = (h.pending_reset \/ NeedsReset(h, m))
  BY <1>1, <1>2, SetMrqDoneFields, SetMrqDoneType
<1> HIDE DEF s, g
<1>5. /\ Ends(g) = Ends(h) /\ g.error = h.error
      /\ g.timers = h.timers \ {TimerOf(m)}
      /\ g.pending_reset = (h.pending_reset \/ NeedsReset(h, m))
  BY <1>3, <1>4 DEF Ends, Host
<1>6. g \in Host
  BY FinishMrqNoWorkType DEF g
<1>7. FinishMrq(h, m) = [g EXCEPT !.work = TRUE]
  BY DEF FinishMrq, g
<1>8. CASE f = g
  BY <1>5, <1>6, <1>8
<1>9. CASE f = [g EXCEPT !.work = TRUE]
  BY <1>5, <1>6, <1>9 DEF Ends, Host
<1> QED BY <1>7, <1>8, <1>9 DEF g

\* Begin clears the error of the command, which a Ready command does not have.
LEMMA BeginFields ==
  ASSUME NEW h \in Host, NEW c \in Cmds, h.cmd = None
  PROVE  LET b == Begin(h, c)
         IN /\ b \in Host /\ Roles(b) = Roles(h) /\ Ends(b) = Ends(h)
            /\ b.error[Mrq(c)] = h.error[Mrq(c)] \ {Part(c)}
            /\ \A n \in Reqs \ {Mrq(c)} : b.error[n] = h.error[n]
            /\ b.timers = h.timers /\ b.pending_reset = h.pending_reset
            /\ b.data_early = h.data_early
<1>1. Begin(h, c) \in Host /\ Roles(Begin(h, c)) = Roles(h)
  BY BeginType, BeginRoles
<1>2. Begin(h, c) = [h EXCEPT !.error[Mrq(c)] = @ \ {Part(c)}]
  BY DEF Begin, Warn, Host
<1>3. Mrq(c) \in Reqs
  BY CommandParts
<1> QED BY <1>1, <1>2, <1>3 DEF Ends, Host

LEMMA SendFields ==
  ASSUME NEW h \in Host, NEW c \in Cmds, Parked(h), h.warned = {},
         ~Inhibited(h, c)
  PROVE  LET s == SendCommand(h, c)
         IN /\ s.cmdLine = c
            /\ s.datLine = IF DataLine(c) THEN c ELSE h.datLine
            /\ s.status = h.status /\ s.served = h.served
            /\ s.error[Mrq(c)] = h.error[Mrq(c)] \ {Part(c)}
            /\ \A n \in Reqs \ {Mrq(c)} : s.error[n] = h.error[n]
            /\ s.timers = h.timers \cup {TimerOf(Mrq(c))}
            /\ s.pending_reset = h.pending_reset
            /\ HasData(c) => ~s.data_early
<1> DEFINE b == Begin(h, c)
           g == IF DataLine(c)
                THEN [Warn(b, b.data_cmd # None, "data_cmd") EXCEPT !.data_cmd = c]
                ELSE b
           d == IF HasData(c) THEN PrepareData(g, Mrq(c)) ELSE g
           s == SendCommand(h, c)
<1>1. /\ b \in Host /\ Roles(b) = Roles(h) /\ Ends(b) = Ends(h)
      /\ b.error[Mrq(c)] = h.error[Mrq(c)] \ {Part(c)}
      /\ \A n \in Reqs \ {Mrq(c)} : b.error[n] = h.error[n]
      /\ b.timers = h.timers /\ b.pending_reset = h.pending_reset
  BY BeginFields DEF Parked
<1>2. Warn(b, b.data_cmd # None, "data_cmd") = b
  BY <1>1 DEF Warn, Roles, Parked
<1>3. /\ g \in Host /\ Ends(g) = Ends(h) /\ g.error = b.error /\ g.data = None
      /\ g.timers = h.timers /\ g.pending_reset = h.pending_reset
  <2> HIDE DEF b
  <2>1. g = b \/ g = [b EXCEPT !.data_cmd = c]
    BY <1>2
  <2>2. b.data = None
    BY <1>1 DEF Roles, Parked
  <2> QED BY <1>1, <2>1, <2>2 DEF Host, Ends, MaybeCmd
<1>4. s = [d EXCEPT !.cmd = c, !.timers = @ \cup {TimerOf(Mrq(c))},
                    !.cmdLine = c, !.datLine = IF DataLine(c) THEN c ELSE @]
  BY DEF SendCommand, Issue
<1> HIDE DEF b, g
<1>5. PrepareData(g, Mrq(c)) =
        [g EXCEPT !.data = Mrq(c), !.data_early = FALSE,
                  !.mapped = IF Mapping = "pio" THEN @ ELSE @ \cup {Mrq(c)}]
  BY <1>3 DEF PrepareData, Warn
<1>6. /\ d \in Host /\ Ends(d) = Ends(h) /\ d.error = b.error
      /\ d.timers = h.timers /\ d.pending_reset = h.pending_reset
      /\ HasData(c) => ~d.data_early
  <2>1. d \in Host
    BY <1>3, PrepareDataType, CommandParts
  <2> QED BY <1>3, <1>5, <2>1 DEF Host, Ends
<1> HIDE DEF d
<1>7. s \in Host
  BY SendCommandType
<1> HIDE DEF s
<1>8. /\ s.cmdLine = c /\ s.datLine = IF DataLine(c) THEN c ELSE d.datLine
      /\ s.status = d.status /\ s.served = d.served /\ s.error = d.error
      /\ s.timers = d.timers \cup {TimerOf(Mrq(c))}
      /\ s.pending_reset = d.pending_reset /\ s.data_early = d.data_early
  BY <1>4, <1>6, <1>7 DEF Host
<1> QED BY <1>1, <1>6, <1>8 DEF s, Ends

-----------------------------------------------------------------------------
(* Finishing and sending *)

\* A request may be finished when an error will have the thread reset the
\* controller, or when the controller has stopped and did what m needs.
LEMMA FinishBooks ==
  ASSUME NEW h \in Host, NEW m \in Reqs, Owns(h, m), Done(h) = {}, h.warned = {},
         h.timers \subseteq {TimerOf(m)},
         \/ NeedsReset(h, m)
         \/ ~h.pending_reset /\ Silent(h) /\ Honest(h, m, {}),
         NEW f \in {FinishMrqNoWork(h, m), FinishMrq(h, m)}
  PROVE  f \in Host /\ Finished(f, m) /\ Frame(h, f, m) /\ Parked(f)
<1>1. /\ f \in Host /\ Ends(f) = Ends(h) /\ f.error = h.error
      /\ f.timers = h.timers \ {TimerOf(m)}
      /\ f.pending_reset = (h.pending_reset \/ NeedsReset(h, m))
  BY FinishFields
<1>2. Done(f) # {} /\ Parked(f)
  BY FinishRoles
<1>3. NeedsReset(f, m) = NeedsReset(h, m)
  BY <1>1 DEF NeedsReset
<1>4. f.pending_reset <=> NeedsReset(f, m)
  BY <1>1, <1>3 DEF Host
<1>5. ~f.pending_reset => Silent(f) /\ Honest(f, m, {})
  BY <1>1 DEF Silent, Honest, Ends
<1>6. f.timers = {} /\ f.served = h.served
  BY <1>1 DEF Ends
<1> QED BY <1>1, <1>2, <1>4, <1>5, <1>6 DEF Finished, Frame

LEMMA FailedBooks ==
  ASSUME NEW h \in Host, NEW m \in Reqs, Owns(h, m), Done(h) = {}, h.warned = {},
         h.timers \subseteq {TimerOf(m)}, NEW field \in Parts,
         NEW f \in {FinishMrqNoWork(Fail(h, m, field), m),
                    FinishMrq(Fail(h, m, field), m)}
  PROVE  f \in Host /\ Finished(f, m) /\ Frame(h, f, m) /\ Parked(f)
<1> DEFINE g == Fail(h, m, field)
<1>1. /\ g \in Host /\ Roles(g) = Roles(h) /\ Ends(g) = Ends(h)
      /\ g.error[m] = h.error[m] \cup {field}
      /\ \A n \in Reqs \ {m} : g.error[n] = h.error[n]
      /\ g.timers = h.timers
  BY FailFields DEF ErrorFields
<1> HIDE DEF g
<1>2. Owns(g, m) /\ Done(g) = {} /\ g.warned = {}
  BY <1>1 DEF Roles, Owns, Done
<1>3. NeedsReset(g, m)
  BY <1>1 DEF NeedsReset
<1>4. f \in Host /\ Finished(f, m) /\ Frame(g, f, m) /\ Parked(f)
  BY <1>1, <1>2, <1>3, FinishBooks DEF g
<1> QED BY <1>1, <1>4 DEF Frame, Ends

\* A command that is sent runs.
LEMMA SendBooks ==
  ASSUME NEW h \in Host, NEW m \in Reqs, NEW c, Ready(h, m, c), h.warned = {},
         ~Inhibited(h, c),
         NEW g \in Host, g = [SendCommand(h, c) EXCEPT !.deferred_cmd = g.deferred_cmd]
  PROVE  Runs(g, m) /\ Frame(h, g, m)
<1> DEFINE s == SendCommand(h, c)
<1>1. /\ c \in Cmds /\ Mrq(c) = m /\ c # None /\ c[1] = m
      /\ Parked(h) /\ Silent(h) /\ ~h.pending_reset
  BY RequestAssumption DEF Ready, Cmds, Parts, Mrq
<1>2. /\ s \in Host /\ s.cmd = c
      /\ s.data_cmd = IF DataLine(c) THEN c ELSE None
      /\ s.data = IF HasData(c) THEN m ELSE None
  BY <1>1, SendRoles
<1>3. /\ s.cmdLine = c
      /\ s.datLine = IF DataLine(c) THEN c ELSE h.datLine
      /\ s.status = h.status /\ s.served = h.served
      /\ s.error[m] = h.error[m] \ {Part(c)}
      /\ \A n \in Reqs \ {m} : s.error[n] = h.error[n]
      /\ s.timers = h.timers \cup {TimerOf(m)}
      /\ s.pending_reset = h.pending_reset
      /\ HasData(c) => ~s.data_early
  BY <1>1, SendFields
<1> HIDE DEF s
<1>4. /\ g.cmd = c /\ g.data_cmd = (IF DataLine(c) THEN c ELSE None)
      /\ g.data = (IF HasData(c) THEN m ELSE None)
      /\ g.cmdLine = c /\ g.datLine = (IF DataLine(c) THEN c ELSE None)
      /\ g.status = h.status /\ g.served = h.served
      /\ g.error[m] = h.error[m] \ {Part(c)}
      /\ \A n \in Reqs \ {m} : g.error[n] = h.error[n]
      /\ g.timers \subseteq {TimerOf(m)} /\ ~g.pending_reset
      /\ HasData(c) => ~g.data_early
  <2>1. h.datLine = None /\ h.timers \subseteq {TimerOf(m)}
    BY <1>1 DEF Silent, Ready
  <2> QED BY <1>1, <1>2, <1>3, <2>1 DEF Host, s
<1>5. g.error[m] = h.error[m]
  BY <1>4 DEF Ready
<1>6. Part(c) \in Parts /\ c = <<m, Part(c)>>
  BY <1>1 DEF Cmds, Mrq, Part
<1>7. ~Early(g)
  BY <1>4 DEF Early
<1>8. Wired(g, m)
  <2>1. DataLine(c) => c = <<m, "cmd">>
    BY <1>6 DEF DataLine, HasData, Busy
  <2>2. HasData(c) <=> DataLine(c) /\ m \in WithData
    BY <1>1, RequestAssumption DEF DataLine, HasData, Busy
  <2>3. c = <<m, "cmd">> /\ m \in WithData => DataLine(c)
    BY <1>1 DEF DataLine, HasData, Part, Mrq
  <2>4. Bits(g.status) \subseteq {"CARD"}
    BY <1>1, <1>4 DEF Silent
  <2>5. \A b \in g.status : b[1] = "CARD"
    BY <2>4 DEF Bits
  <2>6. Bits(g.status) \cap CmdAnswers(m) = {} /\ Bits(g.status) \cap DataAnswers(m) = {}
    BY <2>4 DEF CmdAnswers, DataAnswers, DataBits
  <2>7. Genuine(g, m, Bits(g.status))
    BY <2>4 DEF Genuine
  <2> QED BY <1>1, <1>4, <1>7, <2>1, <2>2, <2>3, <2>5, <2>6, <2>7 DEF Wired
<1>9. Honest(g, m, Owed(g))
  <2>1. Honest(h, m, Ahead(c))
    BY DEF Ready
  <2>2. SUFFICES ASSUME h.error[m] = {}, NEW p \in Needs[m], p \notin g.served
                 PROVE  p \in Owed(g)
    BY <1>5 DEF Honest
  <2>3. p \in Ahead(c)
    BY <1>4, <2>1, <2>2 DEF Honest
  <2>4. p \in ErrorFields
    BY <2>3 DEF Ahead
  <2>5. CASE p = "stop" \/ Part(c) = "sbc"
    BY <1>1, <1>4, <2>4, <2>5 DEF Owed
  <2>6. CASE Part(c) = "cmd" /\ p = "cmd"
    BY <1>1, <1>4, <2>4, <2>6 DEF Owed
  <2>7. CASE Part(c) = "cmd" /\ p = "data"
    <3>1. m \in WithData \cup WithBusy
      BY <2>2, <2>7 DEF Needs
    <3>2. DataLine(c)
      BY <1>1, <2>7, <3>1 DEF DataLine, HasData, Busy
    <3> QED BY <1>1, <1>4, <1>7, <2>4, <2>7, <3>2 DEF Owed
  <2> QED BY <1>6, <2>3, <2>4, <2>5, <2>6, <2>7 DEF Ahead, ErrorFields, Parts
<1>10. ~Parked(g)
  BY <1>1, <1>4 DEF Parked
<1>11. "stop" \notin g.error[m] /\ (Part(c) = "sbc" => g.error[m] = {})
  BY <1>5 DEF Ready
<1> QED BY <1>4, <1>8, <1>9, <1>10, <1>11 DEF Runs, Frame

LEMMA SendOrDeferBooks ==
  ASSUME NEW h \in Host, NEW m \in Reqs, NEW c, Ready(h, m, c), h.warned = {},
         h.deferred_cmd = None
  PROVE  LET s == SendOrDefer(h, c)
         IN s \in Host /\ Books(s, m) /\ Frame(h, s, m)
<1> DEFINE s == SendCommand(h, c)
<1>0. c \in Cmds /\ Mrq(c) = m /\ Parked(h)
  BY DEF Ready
<1>1. CASE ~Inhibited(h, c)
  <2>1. SendOrDefer(h, c) = s
    BY <1>1 DEF SendOrDefer
  <2>2. s \in Host
    BY <1>0, SendCommandType
  <2>3. s = [s EXCEPT !.deferred_cmd = s.deferred_cmd]
    <3> HIDE DEF s
    <3> QED BY <2>2 DEF Host
  <2> QED BY <1>1, <2>1, <2>2, <2>3, SendBooks DEF Books
<1>2. CASE Inhibited(h, c)
  <2>1. s = Begin(h, c)
    BY <1>2 DEF SendCommand
  <2>2. /\ s \in Host /\ Roles(s) = Roles(h) /\ Ends(s) = Ends(h)
        /\ s.error[m] = h.error[m] \ {Part(c)}
        /\ \A n \in Reqs \ {m} : s.error[n] = h.error[n]
        /\ s.timers = h.timers /\ s.pending_reset = h.pending_reset
    BY <1>0, <2>1, BeginFields DEF Parked
  <2> DEFINE g == [s EXCEPT !.deferred_cmd = c]
  <2>3. SendOrDefer(h, c) = g
    BY <1>2, <2>2 DEF SendOrDefer, Warn, Roles
  <2> HIDE DEF s
  <2>4. /\ g \in Host /\ g.deferred_cmd = c /\ Parked(g) /\ Done(g) = {}
        /\ g.cmdLine = h.cmdLine /\ g.datLine = h.datLine
        /\ g.status = h.status /\ g.served = h.served
        /\ g.timers = h.timers /\ g.pending_reset = h.pending_reset
        /\ g.error[m] = h.error[m] \ {Part(c)}
        /\ \A n \in Reqs \ {m} : g.error[n] = h.error[n]
    BY <1>0, <2>2 DEF Host, MaybeCmd, Roles, Ends, Parked, Done, Ready
  <2> HIDE DEF g
  <2>5. g.error[m] = h.error[m]
    BY <2>4 DEF Ready
  <2>6. Ready(g, m, c)
    BY <2>4, <2>5 DEF Ready, Silent, Honest
  <2> QED BY <2>3, <2>4, <2>6 DEF Books, Frame
<1> QED BY <1>1, <1>2

-----------------------------------------------------------------------------
(* Interrupts *)

LEMMA CommandOf ==
  ASSUME NEW h \in Host, NEW m \in MaybeReq, OneRole(h, m),
         NEW c \in {h.cmd, h.data_cmd}, c # None
  PROVE  /\ c \in Cmds /\ Mrq(c) = m /\ m \in Reqs /\ m # None
         /\ Part(c) \in Parts /\ c = <<m, Part(c)>>
         /\ Done(h) = {} /\ h.warned = {} /\ Owns(h, m) /\ h.deferred_cmd = None
<1>1. c \in MaybeCmd /\ Owner(c) \in {None, m}
  BY DEF Host, OneRole, Owns
<1>2. c \in Cmds /\ Mrq(c) = m /\ m \in Reqs /\ m # None
  BY <1>1, OwnerType
<1>3. Part(c) \in Parts /\ c = <<m, Part(c)>>
  BY <1>2 DEF Cmds, Mrq, Part
<1>4. ~Parked(h)
  BY DEF Parked
<1> QED BY <1>2, <1>3, <1>4, Running

LEMMA RunsIf ==
  ASSUME NEW h \in Host, NEW m, OneRole(h, m), Books(h, m), ~Parked(h)
  PROVE  Runs(h, m)
BY DEF Books, Ready, Finished, OneRole

\* The end of the data, once the controller has stopped, or with an error that
\* has the driver stop it.
LEMMA DataEnds ==
  ASSUME NEW h \in Host, NEW m \in MaybeReq, OneRole(h, m), h.data # None,
         ~h.pending_reset, h.timers \subseteq {TimerOf(m)},
         "stop" \notin h.error[m], h.cmd \in {None, h.data_cmd},
         \/ "data" \in h.error[m]
         \/ h.cmd = None /\ Silent(h) /\ Honest(h, m, {"stop"}),
         NEW swTimeout \in BOOLEAN
  PROVE  LET f == FinishData(h, swTimeout)
         IN f \in Host /\ Books(f, m) /\ Frame(h, f, m)
<1> DEFINE stop == <<m, "stop">>
           lines == IF "data" \notin h.error[m] THEN {}
                    ELSE IF h.cmd = None \/ h.cmd = h.data_cmd THEN Lines
                    ELSE {"dat"}
           e == [h EXCEPT !.data = None, !.data_cmd = None]
           g == DoReset(e, lines)
           k == [g EXCEPT !.cmd = None]
<1>1. m \in Reqs /\ h.data = m /\ m # None
  BY DEF OneRole, Owns, Host, MaybeReq
<1>2. /\ h.deferred_cmd = None /\ Done(h) = {} /\ h.warned = {} /\ Owns(h, m)
  BY Running DEF Parked
<1>3. /\ e \in Host /\ Ends(e) = Ends(h) /\ e.error = h.error
      /\ e.timers = h.timers /\ e.pending_reset = h.pending_reset
      /\ e.cmd = h.cmd /\ e.data_cmd = None /\ e.data = None
      /\ e.deferred_cmd = None /\ e.mrqs_done = h.mrqs_done /\ e.warned = {}
  <2>1. e \in Host
    BY DEF Host, MaybeCmd, MaybeReq
  <2>2. /\ e.data_cmd = None /\ e.data = None /\ e.cmd = h.cmd
        /\ e.deferred_cmd = h.deferred_cmd /\ e.mrqs_done = h.mrqs_done
        /\ e.warned = h.warned /\ e.error = h.error /\ e.timers = h.timers
    BY DEF Host
  <2>3. e.pending_reset = h.pending_reset
    BY DEF Host
  <2>4. Ends(e) = Ends(h)
    BY DEF Host, Ends
  <2> HIDE DEF e
  <2> QED BY <1>2, <2>1, <2>2, <2>3, <2>4
<1> HIDE DEF e
<1>4. lines \in SUBSET Lines
  BY DEF Lines
<1>5. /\ g \in Host /\ Roles(g) = Roles(e)
      /\ g.error = h.error /\ g.served = h.served
      /\ g.timers = h.timers /\ g.pending_reset = h.pending_reset
      /\ lines = {} => Ends(g) = Ends(h)
      /\ lines = Lines => Silent(g)
  BY <1>3, <1>4, ResetFields DEF Ends
<1>6. Silent(g)
  <2>1. CASE "data" \in h.error[m]
    BY <1>5, <2>1
  <2>2. CASE "data" \notin h.error[m]
    <3>1. Ends(g) = Ends(h) /\ Silent(h)
      BY <1>5, <2>2
    <3> HIDE DEF g
    <3> QED BY <3>1 DEF Silent, Ends
  <2> QED BY <2>1, <2>2
<1> HIDE DEF lines, g
<1>7. /\ g.cmd = h.cmd /\ g.data_cmd = None /\ g.data = None
      /\ g.deferred_cmd = None /\ g.mrqs_done = h.mrqs_done /\ g.warned = {}
  BY <1>3, <1>5 DEF Roles
<1>8. Done(g) = {} /\ Owns(g, m)
  BY <1>2, <1>7 DEF Done, Owns, Owner
<1>9. Honest(g, m, {"stop"})
  BY <1>5 DEF Honest
<1>10. CASE ~NeedsStop(h, m)
  <2>1. Honest(g, m, {})
    <3> SUFFICES ASSUME g.error[m] = {}, NEW p \in Needs[m] PROVE p \in g.served
      BY DEF Honest
    <3>1. p \in g.served \cup {"stop"}
      BY <1>9 DEF Honest
    <3>2. m \notin WithStop \/ m \in WithSbc \/ AutoCmd12
      BY <1>5, <1>10 DEF NeedsStop
    <3>3. p # "stop"
      BY <1>1, <3>2 DEF Needs
    <3> QED BY <3>1, <3>3
  <2>2. /\ FinishMrqNoWork(g, m) \in Host /\ Finished(FinishMrqNoWork(g, m), m)
        /\ Frame(g, FinishMrqNoWork(g, m), m)
    BY <1>1, <1>5, <1>6, <1>7, <1>8, <2>1, FinishBooks
  <2>3. FinishData(h, swTimeout) = FinishMrqNoWork(g, m)
    BY <1>1, <1>10 DEF FinishData, g, e, lines
  <2> QED BY <1>5, <2>2, <2>3 DEF Books, Frame
<1>11. CASE NeedsStop(h, m)
  <2>1. /\ k \in Host /\ Parked(k) /\ Done(k) = {} /\ k.warned = {}
        /\ k.deferred_cmd = None /\ Owns(k, m) /\ Ends(k) = Ends(g)
        /\ k.error = g.error /\ k.timers = g.timers
        /\ k.pending_reset = g.pending_reset
    BY <1>5, <1>7, <1>8 DEF Host, MaybeCmd, Parked, Done, Owns, Owner, Ends
  <2>2. stop \in Cmds /\ Mrq(stop) = m /\ Part(stop) = "stop"
    BY <1>1 DEF Cmds, Parts, Mrq, Part
  <2> HIDE DEF k, stop
  <2>3. Ready(k, m, stop)
    <3>1. Honest(k, m, Ahead(stop))
      BY <1>9, <2>1, <2>2 DEF Honest, Ahead, Ends, ErrorFields, Parts
    <3> QED BY <1>5, <1>6, <2>1, <2>2, <3>1 DEF Ready, Silent, Ends
  <2>4. CASE swTimeout /\ Inhibited(k, stop)
    <3> DEFINE b == Begin(k, stop)
               f == FinishMrqNoWork(Fail(b, m, "stop"), m)
    <3>1. /\ b \in Host /\ Roles(b) = Roles(k) /\ Ends(b) = Ends(k)
          /\ \A n \in Reqs \ {m} : b.error[n] = k.error[n]
          /\ b.timers = k.timers
      BY <2>1, <2>2, BeginFields DEF Parked
    <3>2. Owns(b, m) /\ Done(b) = {} /\ b.warned = {}
      <4> HIDE DEF b
      <4> QED BY <2>1, <3>1 DEF Roles, Owns, Done
    <3>3. f \in Host /\ Finished(f, m) /\ Frame(b, f, m)
      <4> HIDE DEF b
      <4> QED BY <1>1, <1>5, <2>1, <3>1, <3>2, FailedBooks DEF Parts
    <3>4. FinishData(h, swTimeout) = f
      BY <1>1, <1>11, <2>4 DEF FinishData, k, stop, g, e, lines
    <3> HIDE DEF b, f
    <3>5. Frame(h, f, m)
      BY <1>5, <2>1, <3>1, <3>3 DEF Frame, Ends
    <3> QED BY <3>3, <3>4, <3>5 DEF Books
  <2>5. CASE ~(swTimeout /\ Inhibited(k, stop))
    <3> DEFINE f == SendOrDefer(k, stop)
    <3>1. f \in Host /\ Books(f, m) /\ Frame(k, f, m)
      BY <1>1, <2>1, <2>3, SendOrDeferBooks
    <3>2. FinishData(h, swTimeout) = f
      BY <1>1, <1>11, <2>5 DEF FinishData, k, stop, g, e, lines
    <3> HIDE DEF f
    <3>3. Frame(h, f, m)
      BY <1>5, <2>1, <3>1 DEF Frame, Ends
    <3> QED BY <3>1, <3>2, <3>3
  <2> QED BY <2>4, <2>5
<1> QED BY <1>10, <1>11

\* The data of a request that runs fail.
LEMMA FailedDataBooks ==
  ASSUME NEW h \in Host, NEW m \in MaybeReq, OneRole(h, m), Runs(h, m),
         h.data # None, NEW swTimeout \in BOOLEAN
  PROVE  LET f == FinishData(Fail(h, h.data, "data"), swTimeout)
         IN f \in Host /\ Books(f, m) /\ Frame(h, f, m)
<1> DEFINE g == Fail(h, h.data, "data")
<1>1. h.data = m /\ m \in Reqs /\ "data" \in ErrorFields
  BY DEF OneRole, Owns, Host, MaybeReq, ErrorFields
<1>2. /\ g \in Host /\ Roles(g) = Roles(h) /\ Ends(g) = Ends(h)
      /\ g.error[m] = h.error[m] \cup {"data"}
      /\ \A n \in Reqs \ {m} : g.error[n] = h.error[n]
      /\ g.timers = h.timers /\ g.pending_reset = h.pending_reset
  BY <1>1, FailFields
<1> HIDE DEF g
<1>3. OneRole(g, m) /\ g.data # None
  BY <1>1, <1>2, SameRoles DEF Moves, Roles
<1>4. h.cmd \in {None, h.data_cmd}
  BY DEF Runs, Wired
<1>5. FinishData(g, swTimeout) \in Host /\ Books(FinishData(g, swTimeout), m)
        /\ Frame(g, FinishData(g, swTimeout), m)
  BY <1>2, <1>3, <1>4, DataEnds DEF Runs, Roles
<1> QED BY <1>2, <1>5 DEF Frame, Ends, g

\* The data of a request that runs are there, and the response was before.
LEMMA DoneDataBooks ==
  ASSUME NEW h \in Host, NEW m \in MaybeReq, OneRole(h, m), Runs(h, m),
         h.data # None, h.cmd = None, h.datLine = None,
         Bits(h.status) \cap DataAnswers(m) = {}, "data" \in h.served
  PROVE  LET f == FinishData(h, FALSE)
         IN f \in Host /\ Books(f, m) /\ Frame(h, f, m)
<1>1. Silent(h)
  <2>1. ASSUME NEW s \in h.status PROVE s[1] = "CARD"
    BY <2>1 DEF Runs, Wired, Bits
  <2> QED BY <2>1 DEF Silent, Bits, Runs, Wired
<1>2. Honest(h, m, {"stop"})
  BY DEF Runs, Honest, Owed
<1> QED BY <1>1, <1>2, DataEnds DEF Runs

\* The data of g are as far as those of h, or there are none.
SameData(h, g, m) == DataOver(h, m) /\ h.data_cmd # None => g.data_cmd = None \/ DataOver(g, m)

\* The command is over and the request goes on with its data.
LEMMA CommandGone ==
  ASSUME NEW h \in Host, NEW m \in MaybeReq, OneRole(h, m), Runs(h, m),
         h.cmd # None, h.data_cmd # None, CmdOver(h, m),
         h.error[m] = {} => "cmd" \in h.served
  PROVE  LET g == [h EXCEPT !.cmd = None]
         IN g \in Host /\ Runs(g, m) /\ Frame(h, g, m) /\ SameData(h, g, m)
<1> DEFINE g == [h EXCEPT !.cmd = None]
<1>1. /\ g \in Host /\ g.cmd = None /\ g.data_cmd = h.data_cmd /\ g.data = h.data
      /\ g.data_early = h.data_early /\ g.cmdLine = h.cmdLine
      /\ g.datLine = h.datLine /\ g.status = h.status /\ g.served = h.served
      /\ g.error = h.error /\ g.timers = h.timers
      /\ g.pending_reset = h.pending_reset
  BY DEF Host, MaybeCmd
<1> HIDE DEF g
<1>2. h.cmdLine = None /\ Bits(h.status) \cap CmdAnswers(m) = {}
  BY DEF CmdOver
<1>3. h.cmd = <<m, "cmd">> /\ Part(h.cmd) = "cmd"
  BY DEF Runs, Wired, Part
<1>4. m # None
  BY CommandOf
<1>5. Wired(g, m)
  <2>1. Wired(h, m)
    BY DEF Runs
  <2>2. Early(g) = Early(h)
    BY <1>1 DEF Early
  <2>3. \A s \in h.status : s[1] \notin CmdAnswers(m)
    BY <1>2 DEF Bits
  <2>4. Genuine(g, m, Bits(g.status))
    <3>1. "RESPONSE" \notin Bits(g.status)
      BY <1>1, <1>2 DEF CmdAnswers
    <3> QED BY <1>1, <2>1, <3>1 DEF Genuine, Wired
  <2>5. \A s \in g.status :
          \/ s[1] = "CARD"
          \/ s[1] \in DataAnswers(m) /\ g.data_cmd # None /\ s[2] = g.data_cmd
    BY <1>1, <2>1, <2>3 DEF Wired
  <2>6. g.cmd # <<m, "cmd">>
    BY <1>1, <1>3
  <2> QED BY <1>1, <1>2, <2>1, <2>2, <2>4, <2>5, <2>6 DEF Wired
<1>6. Honest(g, m, Owed(g))
  <2> SUFFICES ASSUME g.error[m] = {}, NEW p \in Needs[m], p \notin g.served
               PROVE  p \in Owed(g)
    BY DEF Honest
  <2>1. p \in Owed(h) /\ p # "cmd"
    BY <1>1 DEF Runs, Honest
  <2> QED BY <1>1, <1>3, <2>1 DEF Owed, Early
<1>7. ~Parked(g)
  BY <1>1 DEF Parked
<1>8. Frame(h, g, m) /\ SameData(h, g, m)
  BY <1>1 DEF Frame, SameData, DataOver, Early
<1> QED BY <1>1, <1>5, <1>6, <1>7, <1>8 DEF Runs, g

LEMMA FinishCommandBooks ==
  ASSUME NEW h \in Host, NEW m \in MaybeReq, OneRole(h, m), Runs(h, m),
         h.cmd # None, CmdOver(h, m), Part(h.cmd) \in h.served
  PROVE  LET f == FinishCommand(h)
         IN f \in Host /\ Books(f, m) /\ Frame(h, f, m) /\ SameData(h, f, m)
<1> DEFINE c == h.cmd
           g == [h EXCEPT !.cmd = None]
           d == IF g.data # None /\ g.data_early THEN FinishData(g, FALSE) ELSE g
<1>1. /\ c \in Cmds /\ Mrq(c) = m /\ m \in Reqs /\ m # None
      /\ Part(c) \in Parts /\ c = <<m, Part(c)>>
      /\ Done(h) = {} /\ h.warned = {} /\ Owns(h, m) /\ h.deferred_cmd = None
  BY CommandOf
<1>2. /\ g \in Host /\ g.cmd = None /\ g.data_cmd = h.data_cmd /\ g.data = h.data
      /\ g.data_early = h.data_early /\ Ends(g) = Ends(h)
      /\ g.error = h.error /\ g.timers = h.timers
      /\ g.pending_reset = h.pending_reset
      /\ g.deferred_cmd = None /\ g.mrqs_done = h.mrqs_done /\ g.warned = {}
  BY <1>1 DEF Host, MaybeCmd, Ends
<1>3. Wired(h, m)
  BY DEF Runs
<1>4. CASE c = <<m, "cmd">> /\ h.data_cmd # None
  <2>1. Part(c) = "cmd" /\ c = h.data_cmd
    BY <1>3, <1>4 DEF Part, Wired
  <2>2. g \in Host /\ Runs(g, m) /\ Frame(h, g, m) /\ SameData(h, g, m)
    BY <1>4, <2>1, CommandGone
  <2>3. Busy(c) \/ HasData(c)
    BY <1>3, <2>1 DEF Wired, DataLine
  <2>4. CASE Busy(c)
    BY <2>1, <2>2, <2>4 DEF FinishCommand, Books
  <2>5. CASE HasData(c) /\ ~(g.data # None /\ g.data_early)
    <3>1. ~Busy(c)
      BY <2>5, RequestAssumption DEF Busy, HasData
    <3>2. FinishCommand(h) = g
      BY <2>1, <2>5, <3>1 DEF FinishCommand
    <3> HIDE DEF g
    <3> QED BY <2>2, <3>2 DEF Books
  <2>6. CASE HasData(c) /\ g.data # None /\ g.data_early
    <3>1. ~Busy(c)
      BY <2>6, RequestAssumption DEF Busy, HasData
    <3>2. FinishCommand(h) = FinishData(g, FALSE)
      BY <2>1, <2>6, <3>1 DEF FinishCommand
    <3> HIDE DEF g
    <3>3. Early(h)
      BY <1>2, <2>6 DEF Early
    <3>4. h.datLine = None /\ "data" \in h.served /\ Bits(h.status) \cap DataAnswers(m) = {}
      BY <1>3, <3>3 DEF Wired
    <3>5. Roles(g) = <<None, h.data_cmd, None, h.data, h.mrqs_done, {}>>
      BY <1>2 DEF Roles
    <3>6. Done(g) = {} /\ Owns(g, m)
      BY <1>1, <1>2 DEF Done, Owns, Owner
    <3>7. h.data \in WithData
      BY <1>2, <2>6 DEF OneRole
    <3>8. OneRole(g, m)
      BY <1>2, <3>6, <3>7 DEF OneRole
    <3>9. FinishData(g, FALSE) \in Host /\ Books(FinishData(g, FALSE), m)
            /\ Frame(g, FinishData(g, FALSE), m)
      BY <1>2, <2>2, <2>6, <3>4, <3>8, DoneDataBooks DEF Ends
    <3>10. SameData(h, FinishData(g, FALSE), m)
      BY <3>3 DEF SameData, DataOver
    <3>11. Frame(h, FinishData(g, FALSE), m)
      BY <1>2, <3>9 DEF Frame, Ends
    <3> QED BY <3>2, <3>9, <3>10, <3>11
  <2> QED BY <2>3, <2>4, <2>5, <2>6
<1>5. CASE h.data_cmd = None
  <2>1. h.data = None /\ h.datLine = None
    BY <1>3, <1>5 DEF Wired
  <2>2. Silent(g)
    <3>1. ASSUME NEW s \in h.status PROVE s[1] = "CARD"
      BY <1>3, <1>5, <3>1 DEF Wired, CmdOver, Bits
    <3> HIDE DEF g
    <3> QED BY <1>2, <2>1, <3>1 DEF Silent, Bits, CmdOver, Ends
  <2>3. ~(Busy(c) /\ c = h.data_cmd)
    BY <1>1, <1>5, RequestAssumption DEF Cmds, Parts
  <2>4. d = g
    BY <1>2, <2>1
  <2> HIDE DEF g, d
  <2>5. Done(g) = {} /\ Owns(g, m) /\ Parked(g)
    BY <1>1, <1>2, <1>5, <2>1 DEF Done, Owns, Owner, Parked
  <2>6. CASE Part(c) = "sbc"
    <3> DEFINE next == <<m, "cmd">>
               f == SendOrDefer(g, next)
    <3>1. next \in Cmds /\ Mrq(next) = m /\ Part(next) = "cmd"
      BY <1>1 DEF Cmds, Parts, Mrq, Part
    <3> HIDE DEF next
    <3>2. Honest(g, m, Ahead(next))
      <4> SUFFICES ASSUME NEW p \in Needs[m], p \notin g.served, g.error[m] = {}
                   PROVE  p \in Ahead(next)
        BY DEF Honest
      <4>1. p \in Owed(h) /\ p # "sbc"
        BY <1>2, <2>6 DEF Runs, Honest, Ends
      <4> QED BY <3>1, <4>1 DEF Owed, Ahead
    <3>3. Ready(g, m, next)
      BY <1>2, <2>2, <2>5, <2>6, <3>1, <3>2 DEF Ready, Runs
    <3>4. f \in Host /\ Books(f, m) /\ Frame(g, f, m)
      BY <1>1, <1>2, <3>3, SendOrDeferBooks
    <3>5. FinishCommand(h) = f
      BY <1>1, <2>3, <2>6 DEF FinishCommand, g, next
    <3> HIDE DEF f
    <3> QED BY <1>2, <1>5, <3>4, <3>5 DEF SameData, Frame, Ends
  <2>7. CASE Part(c) # "sbc"
    <3> DEFINE f == FinishMrqNoWork(g, m)
    <3>1. ~HasData(c)
      BY <1>1, <1>3, <1>5, <2>7, RequestAssumption DEF Wired, HasData, Part, Mrq, Cmds, Parts
    <3>2. FinishCommand(h) = f
      BY <1>1, <2>3, <2>4, <2>7, <3>1 DEF FinishCommand, g, d
    <3>3. Honest(g, m, {})
      <4> SUFFICES ASSUME NEW p \in Needs[m], p \notin g.served, g.error[m] = {}
                   PROVE  FALSE
        BY DEF Honest
      <4>1. p \in Owed(h) /\ p # Part(c)
        BY <1>2 DEF Runs, Honest, Ends
      <4>2. p = "stop" /\ Part(c) = "cmd"
        BY <1>1, <1>5, <2>7, <4>1 DEF Owed, Parts
      <4>3. m \in WithData
        BY <4>2, <1>1, RequestAssumption DEF Needs
      <4> QED BY <3>1, <1>1, <4>2, <4>3 DEF HasData
    <3>4. f \in Host /\ Finished(f, m) /\ Frame(g, f, m)
      BY <1>1, <1>2, <2>2, <2>5, <3>3, FinishBooks DEF Runs
    <3> HIDE DEF f
    <3> QED BY <1>2, <1>5, <3>2, <3>4 DEF SameData, Frame, Ends, Books
  <2> QED BY <2>6, <2>7
<1>6. h.data_cmd # None => c = <<m, "cmd">>
  BY <1>1, <1>3 DEF Wired
<1> QED BY <1>4, <1>5, <1>6

\* The bits M of the status register as sdhci_irq holds them before its command
\* part: what they answer is still there.
CmdInHand(h, m, M) ==
  /\ M \cap CmdAnswers(m) # {} => h.cmd # None /\ CmdOver(h, m)
  /\ M \cap DataAnswers(m) # {} => h.data_cmd # None /\ DataOver(h, m)
  /\ Genuine(h, m, M)

\* And before its data part: if data are there, they failed, or they are over.
DataInHand(h, m, M) ==
  h.data_cmd # None /\ M \cap DataBits # {} =>
    \/ h.data # None /\ M \cap {"DATA_TIMEOUT", "DATA_CRC"} # {}
    \/ DataOver(h, m) /\ ("DATA_END" \in M => "data" \in h.served)

LEMMA SameWires ==
  ASSUME NEW h, NEW g, NEW m, Roles(g) = Roles(h), Ends(g) = Ends(h),
         g.data_early = h.data_early, Wired(h, m)
  PROVE  Wired(g, m)
<1>1. /\ g.cmd = h.cmd /\ g.data_cmd = h.data_cmd /\ g.data = h.data
      /\ g.cmdLine = h.cmdLine /\ g.datLine = h.datLine /\ g.status = h.status
      /\ g.served = h.served
  BY DEF Roles, Ends
<1>2. Early(g) = Early(h) /\ Genuine(g, m, Bits(g.status)) = Genuine(h, m, Bits(h.status))
  BY <1>1 DEF Early, Genuine
<1> QED BY <1>1, <1>2 DEF Wired

\* The response of a data command was broken: the data interrupt comes next.
LEMMA BrokenResponse ==
  ASSUME NEW h \in Host, NEW m \in MaybeReq, OneRole(h, m), Runs(h, m),
         h.cmd # None, HasData(h.cmd), CmdOver(h, m)
  PROVE  LET g == [Fail(h, m, "cmd") EXCEPT !.cmd = None]
         IN g \in Host /\ Runs(g, m) /\ Frame(h, g, m) /\ g.data # None
<1> DEFINE f == Fail(h, m, "cmd")
           g == [f EXCEPT !.cmd = None]
<1>1. h.cmd = <<m, "cmd">> /\ m \in WithData /\ m \in Reqs /\ m # None
  BY CommandOf DEF HasData
<1>2. /\ f \in Host /\ Roles(f) = Roles(h) /\ Ends(f) = Ends(h)
      /\ f.error[m] = h.error[m] \cup {"cmd"}
      /\ \A n \in Reqs \ {m} : f.error[n] = h.error[n]
      /\ f.timers = h.timers /\ f.pending_reset = h.pending_reset
      /\ f.data_early = h.data_early
  BY <1>1, FailFields DEF ErrorFields, Parts
<1> HIDE DEF f
<1>3. h.data_cmd = <<m, "cmd">> /\ h.data = m
  BY <1>1 DEF Runs, Wired
<1>4. OneRole(f, m) /\ f.cmd = <<m, "cmd">> /\ f.data_cmd # None
  BY <1>1, <1>2, <1>3, SameRoles DEF Moves, Roles
<1>5. Runs(f, m)
  <2>1. Wired(f, m)
    BY <1>2, SameWires DEF Runs
  <2>2. Honest(f, m, Owed(f))
    BY <1>2 DEF Honest
  <2>3. Part(f.cmd) = "cmd"
    BY <1>4 DEF Part
  <2>4. ~Parked(f)
    BY <1>4 DEF Parked
  <2> QED BY <1>2, <2>1, <2>2, <2>3, <2>4 DEF Runs
<1>6. CmdOver(f, m)
  BY <1>2 DEF CmdOver, Ends
<1>7. g \in Host /\ Runs(g, m) /\ Frame(f, g, m)
  <2>1. f.cmd # None /\ f.error[m] # {}
    BY <1>2 DEF Roles
  <2> QED BY <1>2, <1>4, <1>5, <1>6, <2>1, CommandGone
<1>8. g.data = h.data
  BY <1>2 DEF Host, Roles
<1> HIDE DEF g
<1> QED BY <1>1, <1>2, <1>3, <1>7, <1>8 DEF Frame, Ends, g, f

LEMMA CmdIrqBooks ==
  ASSUME NEW h \in Host, NEW m \in MaybeReq, OneRole(h, m), Runs(h, m),
         NEW M \in SUBSET IntBits, CmdInHand(h, m, M)
  PROVE  LET bits == M \cap CmdBits
             g == CmdIrq(h, bits)
         IN /\ g \in Host /\ Books(g, m) /\ Frame(h, g, m)
            /\ DataInHand(g, m, M \cup CmdIrqAdds(h, bits))
<1> DEFINE bits == M \cap CmdBits
           g == CmdIrq(h, bits)
           adds == CmdIrqAdds(h, bits)
<1>1. Books(h, m) /\ Frame(h, h, m)
  BY DEF Books, Frame
<1>2. DataInHand(h, m, M)
  <2> SUFFICES ASSUME M \cap DataBits # {} PROVE DataInHand(h, m, M)
    BY DEF DataInHand
  <2>1. M \cap DataAnswers(m) # {}
    BY DEF DataAnswers
  <2> QED BY <2>1 DEF CmdInHand, Genuine, DataInHand
<1>3. m \in Reqs /\ m # None /\ Done(h) = {} /\ h.warned = {} /\ Owns(h, m)
  <2>1. m \in Reqs /\ m # None
    BY CommandOf DEF Runs, Parked, Wired
  <2> QED BY <2>1, Running DEF Runs
<1>4. CASE AutoCmd12Failed(h, bits)
  <2>1. g = h /\ adds = {"DATA_CRC"}
    BY <1>4 DEF CmdIrq, CmdIrqAdds
  <2>2. h.data = m
    BY <1>4 DEF AutoCmd12Failed, CmdInHand, Genuine, Runs, Wired
  <2>3. DataInHand(h, m, M \cup {"DATA_CRC"})
    BY <1>3, <2>2 DEF DataInHand
  <2> QED BY <1>1, <2>1, <2>3
<1>5. CASE ~AutoCmd12Failed(h, bits) /\ h.cmd = None
  <2>1. g = h /\ adds = {}
    BY <1>5 DEF CmdIrq, CmdIrqAdds, CrcOfDataCmd
  <2> QED BY <1>1, <1>2, <2>1
<1>6. CASE ~AutoCmd12Failed(h, bits) /\ h.cmd # None
  <2>1. Mrq(h.cmd) = m /\ Part(h.cmd) \in Parts
    BY <1>6, CommandOf
  <2>2. bits \cap {"RESPONSE", "TIMEOUT", "CRC"} # {} => CmdOver(h, m)
    BY DEF CmdInHand, CmdAnswers
  <2> DEFINE failed == Fail(h, m, Part(h.cmd))
  <2>3. CASE CrcOfDataCmd(h, bits)
    <3>1. CmdOver(h, m) /\ HasData(h.cmd) /\ Part(h.cmd) = "cmd"
      BY <2>2, <2>3 DEF CrcOfDataCmd, HasData
    <3>2. adds = {"DATA_CRC"} /\ g = [Fail(h, m, "cmd") EXCEPT !.cmd = None]
      BY <1>6, <2>1, <2>3, <3>1 DEF CmdIrq, CmdIrqAdds
    <3> HIDE DEF g
    <3>3. g \in Host /\ Runs(g, m) /\ Frame(h, g, m) /\ g.data # None
      BY <1>6, <3>1, <3>2, BrokenResponse
    <3>4. DataInHand(g, m, M \cup {"DATA_CRC"})
      BY <3>3 DEF DataInHand
    <3> QED BY <3>2, <3>3, <3>4 DEF Books, g
  <2>4. CASE ~CrcOfDataCmd(h, bits)
    <3>1. adds = {}
      BY <1>6, <2>4 DEF CmdIrqAdds
    <3>2. CASE bits \cap {"TIMEOUT", "CRC"} # {}
      <4>1. g = FinishMrqNoWork(failed, m)
        BY <1>6, <2>1, <2>4, <3>2 DEF CmdIrq
      <4> HIDE DEF g
      <4>2. g \in Host /\ Finished(g, m) /\ Frame(h, g, m) /\ Parked(g)
        BY <1>3, <2>1, <4>1, FailedBooks DEF Runs
      <4> QED BY <3>1, <4>2 DEF Books, DataInHand, Parked, g
    <3>3. CASE /\ bits \cap {"TIMEOUT", "CRC"} = {}
               /\ "AUTO_CMD_ERR" \in bits /\ m \in WithSbc /\ AutoCmd23
      <4>1. g = FinishMrqNoWork(Fail(h, m, "sbc"), m)
        BY <1>6, <2>1, <2>4, <3>3 DEF CmdIrq
      <4> HIDE DEF g
      <4>2. g \in Host /\ Finished(g, m) /\ Frame(h, g, m) /\ Parked(g)
        BY <1>3, <4>1, FailedBooks DEF Runs, Parts
      <4> QED BY <3>1, <4>2 DEF Books, DataInHand, Parked, g
    <3>4. CASE /\ bits \cap {"TIMEOUT", "CRC"} = {}
               /\ ~("AUTO_CMD_ERR" \in bits /\ m \in WithSbc /\ AutoCmd23)
      <4>1. CASE "RESPONSE" \in bits
        <5>1. g = FinishCommand(h)
          BY <1>6, <2>1, <2>4, <3>4, <4>1 DEF CmdIrq
        <5>2. CmdOver(h, m) /\ Part(h.cmd) \in h.served
          BY <2>2, <3>4, <4>1 DEF CmdInHand, Genuine, CmdBits
        <5> HIDE DEF g
        <5>3. g \in Host /\ Books(g, m) /\ Frame(h, g, m) /\ SameData(h, g, m)
          BY <1>6, <5>1, <5>2, FinishCommandBooks
        <5>4. DataInHand(g, m, M)
          <6> SUFFICES ASSUME M \cap DataBits # {}, g.data_cmd # None
                       PROVE  DataOver(g, m) /\ ("DATA_END" \in M => "data" \in g.served)
            BY DEF DataInHand
          <6>1. h.data_cmd # None /\ DataOver(h, m)
            BY DEF CmdInHand, DataAnswers
          <6>2. "DATA_END" \in M => "data" \in h.served
            BY DEF CmdInHand, Genuine
          <6> QED BY <5>3, <6>1, <6>2 DEF SameData, Frame
        <5> QED BY <3>1, <5>3, <5>4 DEF g
      <4>2. CASE "RESPONSE" \notin bits
        <5>1. g = h
          BY <1>6, <2>1, <2>4, <3>4, <4>2 DEF CmdIrq
        <5> QED BY <1>1, <1>2, <3>1, <5>1
      <4> QED BY <4>1, <4>2
    <3> QED BY <3>2, <3>3, <3>4
  <2> QED BY <2>3, <2>4
<1> QED BY <1>4, <1>5, <1>6

LEMMA BusyIrqBooks ==
  ASSUME NEW h \in Host, NEW m \in MaybeReq, OneRole(h, m), Runs(h, m),
         h.data = None, NEW M \in SUBSET IntBits, M \cap DataBits # {},
         DataInHand(h, m, M)
  PROVE  LET g == BusyIrq(h, M \cap DataBits)
         IN g \in Host /\ Books(g, m) /\ Frame(h, g, m)
<1> DEFINE bits == M \cap DataBits
           c == h.data_cmd
           g == [h EXCEPT !.data_cmd = None]
           f == BusyIrq(h, bits)
<1>1. Wired(h, m) /\ Books(h, m) /\ Frame(h, h, m)
  BY DEF Runs, Books, Frame
<1>2. CASE c = None \/ ~Busy(c) \/ bits \cap {"DATA_TIMEOUT", "DATA_END"} = {}
  <2>1. f = h
    BY <1>2 DEF BusyIrq
  <2> QED BY <1>1, <2>1
<1>3. CASE c # None /\ Busy(c) /\ bits \cap {"DATA_TIMEOUT", "DATA_END"} # {}
  <2>1. /\ Mrq(c) = m /\ m \in Reqs /\ m # None /\ Part(c) = "cmd"
        /\ c = <<m, "cmd">>
        /\ Done(h) = {} /\ h.warned = {} /\ Owns(h, m) /\ h.deferred_cmd = None
    BY <1>3, CommandOf DEF Busy
  <2>2. /\ g \in Host /\ g.cmd = h.cmd /\ g.data_cmd = None /\ g.data = None
        /\ g.data_early = h.data_early /\ g.cmdLine = h.cmdLine
        /\ g.datLine = h.datLine /\ g.status = h.status /\ g.served = h.served
        /\ g.error = h.error /\ g.timers = h.timers
        /\ g.pending_reset = h.pending_reset
        /\ g.mrqs_done = h.mrqs_done /\ g.warned = {}
        /\ g.deferred_cmd = None
    BY <2>1 DEF Host, MaybeCmd
  <2> HIDE DEF g
  <2>3. Done(g) = {} /\ Owns(g, m)
    BY <2>1, <2>2 DEF Done, Owns, Owner
  <2>4. DataOver(h, m) /\ ("DATA_END" \in M => "data" \in h.served)
    BY <1>3 DEF DataInHand
  <2>5. h.cmd = None \/ h.cmd = c
    BY <1>1, <1>3, <2>1 DEF Wired
  <2>6. \A s \in h.status :
          s[1] = "CARD" \/ (s[1] \in CmdAnswers(m) /\ h.cmd # None /\ s[2] = h.cmd)
    <3>1. \A s \in h.status : s[1] \notin DataAnswers(m)
      BY <2>4 DEF DataOver, Bits
    <3> QED BY <1>1, <3>1 DEF Wired
  <2>7. CASE "DATA_TIMEOUT" \in bits
    <3> DEFINE k == FinishMrqNoWork(Fail(g, m, "cmd"), m)
    <3>1. f = k
      BY <1>3, <2>1, <2>7 DEF BusyIrq, g
    <3>2. k \in Host /\ Finished(k, m) /\ Frame(g, k, m)
      BY <2>1, <2>2, <2>3, FailedBooks DEF Runs, Parts
    <3> HIDE DEF k
    <3>3. Frame(h, k, m)
      BY <2>2, <3>2 DEF Frame
    <3> QED BY <3>1, <3>2, <3>3 DEF Books
  <2>8. CASE "DATA_TIMEOUT" \notin bits /\ h.cmd = c
    <3>1. f = g
      BY <1>3, <2>8 DEF BusyIrq, g
    <3>2. m \notin WithData
      BY <1>3, <2>1, RequestAssumption DEF Busy
    <3>3. Wired(g, m)
      <4>1. ~Early(g)
        BY <2>2 DEF Early
      <4>2. g.datLine = None
        BY <2>2, <2>4 DEF DataOver
      <4>3. Genuine(g, m, Bits(g.status))
        BY <1>1, <2>2 DEF Wired, Genuine
      <4>4. g.cmdLine \in {None, g.cmd}
             /\ (Bits(g.status) \cap CmdAnswers(m) # {} => g.cmdLine = None)
        BY <1>1, <2>2 DEF Wired
      <4>5. \A s \in g.status :
              s[1] = "CARD" \/ (s[1] \in CmdAnswers(m) /\ g.cmd # None /\ s[2] = g.cmd)
        BY <2>2, <2>6
      <4> QED BY <2>2, <3>2, <4>1, <4>2, <4>3, <4>4, <4>5 DEF Wired
    <3>4. Honest(g, m, Owed(g))
      <4> SUFFICES ASSUME NEW p \in Needs[m], p \notin g.served, g.error[m] = {}
                   PROVE  p \in Owed(g)
        BY DEF Honest
      <4>1. p \in Owed(h)
        BY <2>2 DEF Runs, Honest
      <4>2. p # "data"
        BY <1>3, <2>2, <2>4, <2>8
      <4> QED BY <2>2, <4>1, <4>2 DEF Owed
    <3>5. ~Parked(g)
      BY <1>3, <2>2, <2>8 DEF Parked
    <3> QED BY <2>2, <3>1, <3>3, <3>4, <3>5 DEF Runs, Books, Frame
  <2>9. CASE "DATA_TIMEOUT" \notin bits /\ h.cmd # c
    <3> DEFINE k == FinishMrqNoWork(g, m)
    <3>1. f = k
      BY <1>3, <2>1, <2>9 DEF BusyIrq, g
    <3>2. h.cmd = None
      BY <2>5, <2>9
    <3>3. Silent(g)
      <4>1. \A s \in g.status : s[1] = "CARD"
        BY <2>2, <2>6, <3>2
      <4>2. g.cmdLine = None /\ g.datLine = None
        BY <1>1, <2>2, <2>4, <3>2 DEF Wired, DataOver
      <4> QED BY <4>1, <4>2 DEF Silent, Bits
    <3>4. Honest(g, m, {})
      <4> SUFFICES ASSUME NEW p \in Needs[m], p \notin g.served, g.error[m] = {}
                   PROVE  FALSE
        BY DEF Honest
      <4>1. p \in Owed(h)
        BY <2>2 DEF Runs, Honest
      <4>2. p # "data"
        BY <1>3, <2>2, <2>4, <2>9
      <4>3. p # "stop"
        BY <1>3, <2>1, RequestAssumption DEF Busy, Needs
      <4> QED BY <3>2, <4>1, <4>2, <4>3 DEF Owed
    <3>5. k \in Host /\ Finished(k, m) /\ Frame(g, k, m)
      BY <2>1, <2>2, <2>3, <3>3, <3>4, FinishBooks DEF Runs
    <3> HIDE DEF k
    <3>6. Frame(h, k, m)
      BY <2>2, <3>5 DEF Frame
    <3> QED BY <3>1, <3>5, <3>6 DEF Books
  <2> QED BY <2>7, <2>8, <2>9
<1> QED BY <1>2, <1>3

LEMMA DataIrqBooks ==
  ASSUME NEW h \in Host, NEW m \in MaybeReq, OneRole(h, m), Runs(h, m),
         NEW M \in SUBSET IntBits, M \cap DataBits # {}, DataInHand(h, m, M)
  PROVE  LET g == DataIrq(h, M \cap DataBits)
         IN g \in Host /\ Books(g, m) /\ Frame(h, g, m)
<1> DEFINE bits == M \cap DataBits
           f == DataIrq(h, bits)
<1>1. Wired(h, m) /\ Books(h, m) /\ Frame(h, h, m)
  BY DEF Runs, Books, Frame
<1>2. CASE h.data = None
  BY <1>2, BusyIrqBooks DEF DataIrq
<1>3. CASE h.data # None /\ bits \cap {"DATA_TIMEOUT", "DATA_CRC"} # {}
  BY <1>3, FailedDataBooks DEF DataIrq
<1>4. CASE h.data # None /\ bits \cap {"DATA_TIMEOUT", "DATA_CRC"} = {}
  <2>1. h.data_cmd # None /\ h.data = m /\ m \in WithData
          /\ h.data_cmd = <<m, "cmd">> /\ h.cmd \in {None, <<m, "cmd">>}
    BY <1>1, <1>4 DEF Wired
  <2>2. "DATA_END" \in bits
    BY <1>4 DEF DataBits
  <2>3. M \cap {"DATA_TIMEOUT", "DATA_CRC"} = {}
    BY <1>4 DEF DataBits
  <2>4. DataOver(h, m) /\ "data" \in h.served
    BY <1>4, <2>1, <2>2, <2>3 DEF DataInHand
  <2>5. CASE h.cmd = h.data_cmd
    <3> DEFINE g == [h EXCEPT !.data_early = TRUE]
    <3>1. f = g
      BY <1>4, <2>2, <2>5 DEF DataIrq
    <3>2. /\ g \in Host /\ Roles(g) = Roles(h) /\ Ends(g) = Ends(h)
          /\ g.cmd = h.cmd /\ g.data_cmd = h.data_cmd /\ g.data = h.data
          /\ g.cmdLine = h.cmdLine /\ g.datLine = h.datLine
          /\ g.status = h.status /\ g.served = h.served /\ g.data_early
          /\ g.error = h.error /\ g.timers = h.timers
          /\ g.pending_reset = h.pending_reset
      BY DEF Host, Roles, Ends
    <3> HIDE DEF g
    <3>3. Genuine(g, m, Bits(g.status))
      BY <1>1, <3>2 DEF Wired, Genuine
    <3>4. g.datLine = None /\ Bits(g.status) \cap DataAnswers(m) = {}
      BY <2>4, <3>2 DEF DataOver
    <3>5. Wired(g, m)
      BY <1>1, <2>4, <3>2, <3>3, <3>4 DEF Wired
    <3>6. Honest(g, m, Owed(g))
      <4> SUFFICES ASSUME NEW p \in Needs[m], p \notin g.served, g.error[m] = {}
                   PROVE  p \in Owed(g)
        BY DEF Honest
      <4>1. p \in Owed(h) /\ p # "data"
        BY <2>4, <3>2 DEF Runs, Honest
      <4> QED BY <3>2, <4>1 DEF Owed
    <3>7. ~Parked(g)
      BY <1>4, <3>2 DEF Parked
    <3> QED BY <3>1, <3>2, <3>5, <3>6, <3>7 DEF Runs, Books, Frame
  <2>6. CASE h.cmd # h.data_cmd
    <3>1. f = FinishData(h, FALSE)
      BY <1>4, <2>2, <2>6 DEF DataIrq
    <3>2. h.cmd = None
      BY <2>1, <2>6
    <3> QED BY <1>4, <2>4, <3>1, <3>2, DoneDataBooks DEF DataOver
  <2> QED BY <2>5, <2>6
<1> QED BY <1>2, <1>3, <1>4

-----------------------------------------------------------------------------
(* Timers, card removal and completion *)

\* A running command c of m fails and m is finished.
LEMMA FailAndFinishBooks ==
  ASSUME NEW h \in Host, NEW m \in MaybeReq, OneRole(h, m),
         h.timers \subseteq {TimerOf(m)}, NEW c \in {h.cmd, h.data_cmd}, c # None
  PROVE  LET f == FinishMrq(Fail(h, Mrq(c), Part(c)), Mrq(c))
         IN f \in Host /\ Finished(f, m) /\ Frame(h, f, m) /\ Parked(f)
BY CommandOf, FailedBooks

LEMMA TimeoutTimerBooks ==
  ASSUME NEW h \in Host, NEW m \in MaybeReq, OneRole(h, m), Runs(h, m)
  PROVE  LET g == TimeoutTimer(h)
         IN g \in Host /\ Books(g, m) /\ Frame(h, g, m)
<1>1. CASE h.cmd # None /\ ~DataLine(h.cmd)
  BY <1>1, FailAndFinishBooks DEF TimeoutTimer, Runs, Books
<1>2. CASE ~(h.cmd # None /\ ~DataLine(h.cmd))
  BY <1>2 DEF TimeoutTimer, Books, Frame
<1> QED BY <1>1, <1>2

LEMMA TimeoutDataTimerBooks ==
  ASSUME NEW h \in Host, NEW m \in MaybeReq, OneRole(h, m), Runs(h, m)
  PROVE  LET g == TimeoutDataTimer(h)
         IN g \in Host /\ Books(g, m) /\ Frame(h, g, m)
<1>1. CASE h.data # None
  <2> DEFINE f == FinishData(Fail(h, h.data, "data"), TRUE)
             g == [f EXCEPT !.work = TRUE]
  <2>1. f \in Host /\ Books(f, m) /\ Frame(h, f, m)
    BY <1>1, FailedDataBooks
  <2> HIDE DEF f
  <2>2. /\ g \in Host /\ Roles(g) = Roles(f) /\ Ends(g) = Ends(f)
        /\ g.error = f.error /\ g.timers = f.timers
        /\ g.pending_reset = f.pending_reset /\ g.data_early = f.data_early
    BY <2>1 DEF Host, Roles, Ends
  <2> HIDE DEF g
  <2>3. /\ g.cmd = f.cmd /\ g.data_cmd = f.data_cmd /\ g.data = f.data
        /\ g.deferred_cmd = f.deferred_cmd /\ Done(g) = Done(f)
        /\ g.served = f.served
    BY <2>2 DEF Roles, Ends, Done
  <2>4. Parked(g) = Parked(f) /\ Silent(g) = Silent(f) /\ Owed(g) = Owed(f)
    BY <2>2, <2>3 DEF Parked, Silent, Ends, Owed, Early
  <2>5. Frame(h, g, m)
    BY <2>1, <2>2, <2>3 DEF Frame
  <2>6. \A rest : Honest(g, m, rest) = Honest(f, m, rest)
    BY <2>2, <2>3 DEF Honest
  <2>7. ASSUME Ready(f, m, f.deferred_cmd) PROVE Books(g, m)
    BY <2>2, <2>3, <2>4, <2>6, <2>7 DEF Ready, Books
  <2>8. ASSUME Runs(f, m) PROVE Books(g, m)
    <3>1. Wired(g, m)
      BY <2>2, <2>8, SameWires DEF Runs
    <3> QED BY <2>2, <2>3, <2>4, <2>6, <2>8, <3>1 DEF Runs, Books
  <2>9. ASSUME Finished(f, m) PROVE Books(g, m)
    BY <2>2, <2>3, <2>4, <2>6, <2>9 DEF Finished, Books, NeedsReset
  <2>10. g \in Host /\ Books(g, m)
    BY <2>1, <2>2, <2>7, <2>8, <2>9 DEF Books
  <2> QED BY <1>1, <2>5, <2>10 DEF TimeoutDataTimer, g, f
<1>2. CASE h.data = None /\ h.data_cmd # None
  BY <1>2, FailAndFinishBooks DEF TimeoutDataTimer, Runs, Books
<1>3. CASE h.data = None /\ h.data_cmd = None
  <2>1. CASE DataLine(h.cmd) /\ h.cmd # None
    BY <1>3, <2>1, FailAndFinishBooks DEF TimeoutDataTimer, Runs, Books
  <2>2. CASE ~(DataLine(h.cmd) /\ h.cmd # None)
    BY <1>3, <2>2 DEF TimeoutDataTimer, Books, Frame
  <2> QED BY <2>1, <2>2
<1> QED BY <1>1, <1>2, <1>3

LEMMA CardEventBooks ==
  ASSUME NEW h \in Host, NEW m \in MaybeReq, OneRole(h, m), Runs(h, m),
         NEW there \in BOOLEAN
  PROVE  LET g == CardEvent(h, there)
         IN g \in Host /\ Books(g, m) /\ Frame(h, g, m)
<1>1. CASE there \/ ~HasRequests(h)
  BY <1>1 DEF CardEvent, Books, Frame
<1>2. CASE ~there /\ HasRequests(h)
  <2> DEFINE r == DoReset(h, Lines)
             g == ErrorOut(r, r.data_cmd)
  <2>1. /\ r \in Host /\ Roles(r) = Roles(h) /\ r.error = h.error
        /\ r.served = h.served /\ r.timers = h.timers
    BY ResetFields
  <2>2. CardEvent(h, there) = ErrorOut(g, g.cmd)
    BY <1>2 DEF CardEvent, ErrorOutMrqs
  <2> HIDE DEF r
  <2>3. OneRole(r, m) /\ r.timers \subseteq {TimerOf(m)} /\ Frame(h, r, m)
          /\ (r.data_cmd # None \/ r.cmd # None)
    BY <1>2, <2>1, SameRoles DEF Moves, Runs, Frame, Roles, HasRequests
  <2>4. CASE r.data_cmd # None
    <3>1. g = FinishMrq(Fail(r, Mrq(r.data_cmd), Part(r.data_cmd)), Mrq(r.data_cmd))
      BY <2>4 DEF ErrorOut
    <3> HIDE DEF g
    <3>2. g \in Host /\ Finished(g, m) /\ Frame(r, g, m) /\ Parked(g)
      BY <2>1, <2>3, <2>4, <3>1, FailAndFinishBooks
    <3>3. ErrorOut(g, g.cmd) = g
      BY <3>2 DEF ErrorOut, Parked
    <3> QED BY <2>2, <2>3, <3>2, <3>3 DEF Books, Frame
  <2>5. CASE r.data_cmd = None
    <3>1. g = r
      BY <2>5 DEF ErrorOut
    <3> HIDE DEF g
    <3> DEFINE f == FinishMrq(Fail(r, Mrq(r.cmd), Part(r.cmd)), Mrq(r.cmd))
    <3>2. ErrorOut(g, g.cmd) = f
      BY <2>3, <2>5, <3>1 DEF ErrorOut
    <3>3. f \in Host /\ Finished(f, m) /\ Frame(r, f, m)
      BY <2>1, <2>3, <2>5, FailAndFinishBooks
    <3> HIDE DEF f
    <3> QED BY <2>2, <2>3, <3>2, <3>3 DEF Books, Frame
  <2> QED BY <2>4, <2>5
<1> QED BY <1>1, <1>2

\* None of them touches a host where nothing runs.
LEMMA NothingRuns ==
  ASSUME NEW h, Parked(h)
  PROVE  /\ \A bits : CmdIrq(h, bits) = h /\ DataIrq(h, bits) = h
         /\ TimeoutTimer(h) = h /\ TimeoutDataTimer(h) = h
         /\ \A there : CardEvent(h, there) = h
<1>1. h.cmd = None /\ h.data_cmd = None /\ h.data = None
  BY DEF Parked
<1>2. \A bits : CmdIrq(h, bits) = h
  BY <1>1 DEF CmdIrq
<1>3. \A bits : DataIrq(h, bits) = h
  BY <1>1 DEF DataIrq, BusyIrq
<1>4. TimeoutTimer(h) = h /\ TimeoutDataTimer(h) = h
  BY <1>1 DEF TimeoutTimer, TimeoutDataTimer
<1>5. \A there : CardEvent(h, there) = h
  BY <1>1 DEF CardEvent, HasRequests
<1> QED BY <1>2, <1>3, <1>4, <1>5

\* A host with no request, or with one that is completed: the controller has
\* stopped.
AtRest(h) == Silent(h) /\ h.timers = {} /\ ~h.pending_reset

LEMMA CompleteBooks ==
  ASSUME NEW h \in Host, NEW m \in Reqs, Finished(h, m), NEW i \in Slots
  PROVE  LET g == Complete(h, i, m)
         IN AtRest(g) /\ Honest(g, m, {}) /\ Frame(h, g, m)
<1> DEFINE r == DoReset(h, Lines)
           k == IF NeedsReset(h, m) THEN [r EXCEPT !.pending_reset = FALSE] ELSE h
           g == Complete(h, i, m)
<1>1. /\ r \in Host /\ r.error = h.error /\ r.served = h.served
      /\ r.timers = h.timers /\ Silent(r)
  BY ResetFields
<1> HIDE DEF r
<1>2. /\ k \in Host /\ k.error = h.error /\ k.served = h.served
      /\ k.timers = {} /\ Silent(k) /\ ~k.pending_reset
  <2>1. CASE NeedsReset(h, m)
    BY <1>1, <2>1 DEF Finished, Host, Silent
  <2>2. CASE ~NeedsReset(h, m)
    BY <2>2 DEF Finished
  <2> QED BY <2>1, <2>2
<1>3. Honest(h, m, {})
  <2>1. CASE NeedsReset(h, m)
    BY <2>1 DEF NeedsReset, Honest
  <2>2. CASE ~NeedsReset(h, m)
    BY <2>2 DEF Finished
  <2> QED BY <2>1, <2>2
<1>4. g = [k EXCEPT !.mrqs_done[i] = None]
  BY DEF Complete, r
<1> HIDE DEF k, g
<1>5. /\ g.error = h.error /\ g.served = h.served /\ AtRest(g)
  BY <1>2, <1>4 DEF Host, AtRest, Silent
<1> QED BY <1>3, <1>5 DEF Frame, Honest, g

=============================================================================
