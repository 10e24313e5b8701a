---------------------------- MODULE TimerProofs -----------------------------
(***************************************************************************)
(* The timer, the software interrupt and the firmware give a kernel what   *)
(* Alarm promises, for words of any width and any length of run.           *)
(***************************************************************************)
EXTENDS Timer, TLAPS

(* Registers made of two words *)

LEMMA Quotient ==
  ASSUME NEW x \in Nat, NEW n \in Nat \ {0}, NEW q, q = x \div n
  PROVE  q \in Nat /\ q * n <= x /\ x < q * n + n
OBVIOUS

LEMMA Digits ==
  ASSUME NEW x \in Nat, NEW n \in Nat \ {0}, NEW q \in Nat, NEW s \in 0 .. (n - 1), x = q * n + s
  PROVE  x \div n = q /\ x % n = s
OBVIOUS

LEMMA Multiples ==
  ASSUME NEW q \in Nat, NEW m \in Nat, NEW n \in Nat, q < m PROVE q * n \in Nat /\ q * n + n <= m * n
OBVIOUS

LEMMA NatTimes == ASSUME NEW q \in Nat, NEW n \in Nat PROVE q * n \in Nat
OBVIOUS

LEMMA Split ==
  ASSUME NEW x \in Nat, NEW n \in Nat \ {0}
  PROVE  x \div n \in Nat /\ x % n \in 0 .. (n - 1) /\ x = (x \div n) * n + (x % n)
<1> DEFINE q == x \div n
<1>1. q \in Nat /\ q * n <= x /\ x < q * n + n
  BY Quotient
<1> HIDE DEF q
<1>2. q * n \in Nat
  BY <1>1, NatTimes
<1>3. x - q * n \in 0 .. (n - 1) /\ x = q * n + (x - q * n)
  BY <1>1, <1>2
<1>4. x % n = x - q * n
  BY <1>1, <1>3, Digits
<1> QED  BY <1>1, <1>3, <1>4 DEF q

LEMMA Monotone ==
  ASSUME NEW x \in Nat, NEW y \in Nat, x <= y, NEW n \in Nat \ {0} PROVE x \div n <= y \div n
OBVIOUS

LEMMA BaseIsNat == Base \in Nat \ {0} /\ 0 \in Words /\ 1 \in Words /\ 0 \in Times
<1>1. Base \in Nat /\ Base >= 2
  BY BaseAssumption DEF BaseAssumption
<1>2. 1 * Base + Base <= Base * Base
  BY <1>1, Multiples
<1> QED  BY <1>1, <1>2 DEF Words, Times

LEMMA Compose ==
  ASSUME NEW q \in Words, NEW s \in Words PROVE q * Base \in Nat /\ q * Base + s \in Times
<1>1. Base \in Nat \ {0} /\ q \in Nat /\ q < Base /\ s \in Nat /\ s < Base
  BY BaseIsNat DEF Words
<1>2. q * Base \in Nat /\ q * Base + Base <= Base * Base
  BY <1>1, Multiples
<1>3. Base * Base \in Nat
  BY <1>1, NatTimes
<1> HIDE DEF Words
<1>4. q * Base + s \in Nat /\ q * Base + s <= Base * Base - 1
  BY <1>1, <1>2, <1>3
<1> QED  BY <1>2, <1>4 DEF Times

LEMMA WordsOf ==
  ASSUME NEW x \in Times
  PROVE  x \in Nat /\ x \div Base \in Words /\ x % Base \in Words /\ x = (x \div Base) * Base + (x % Base)
<1>1. Base \in Nat \ {0} /\ Base * Base \in Nat
  BY BaseIsNat, NatTimes
<1>2. x \in Nat /\ x < Base * Base
  BY <1>1 DEF Times
<1> DEFINE q == x \div Base
<1>3. q \in Nat /\ x % Base \in 0 .. (Base - 1) /\ x = q * Base + (x % Base)
  BY <1>1, <1>2, Split
<1>4. q * Base <= x
  BY <1>1, <1>2, Quotient
<1> HIDE DEF q
<1>5. q < Base
  <2> SUFFICES ASSUME Base <= q PROVE FALSE
    BY <1>1, <1>3
  <2>1. CASE Base = q
    BY <1>1, <1>2, <1>4, <2>1
  <2>2. CASE Base < q
    <3>1. Base * Base + Base <= q * Base
      BY <1>1, <1>3, <2>2, Multiples
    <3>2. q * Base \in Nat
      BY <1>1, <1>3, NatTimes
    <3> QED  BY <1>1, <1>2, <1>4, <3>1, <3>2
  <2> QED  BY <1>1, <1>3, <2>1, <2>2
<1>6. q \in Words
  BY <1>1, <1>3, <1>5 DEF Words
<1> QED  BY <1>2, <1>3, <1>6 DEF q, Words

LEMMA WordIsItself == ASSUME NEW v \in Words PROVE v % Base = v
<1>1. Base \in Nat \ {0} /\ v \in 0 .. (Base - 1)
  BY BaseIsNat DEF Words
<1>2. v = 0 * Base + v
  BY <1>1
<1> QED  BY <1>1, <1>2, Digits

(* ClintDevice::load of a word returns that word. *)
LEMMA LoadsWord ==
  ASSUME NEW x \in Times
  PROVE  LoadReg(x, 0, 1) = x % Base /\ LoadReg(x, 1, 1) = x \div Base
<1>1. x \in Nat /\ x \div Base \in Words
  BY WordsOf
<1>2. Place(0) = 1 /\ Place(1) = Base /\ x \div 1 = x
  BY <1>1 DEF Place
<1> QED  BY <1>1, <1>2, WordIsItself DEF LoadReg, WordOf

(* ClintDevice::store of a word leaves the other word of the register. *)
LEMMA StoresWord ==
  ASSUME NEW x \in Times, NEW v \in Words
  PROVE  /\ StoreReg(x, 0, 1, v) = (x \div Base) * Base + v
         /\ StoreReg(x, 1, 1, v) = v * Base + (x % Base)
<1>1. /\ x \in Nat /\ x \div Base \in Words /\ x % Base \in Words
      /\ x = (x \div Base) * Base + (x % Base)
  BY WordsOf
<1>2. Place(0) = 1 /\ Place(1) = Base /\ x \div 1 = x
  BY <1>1 DEF Place
<1>3. WordOf(x, 0) = x % Base /\ WordOf(x, 1) = x \div Base /\ v % Base = v
  BY <1>1, <1>2, WordIsItself DEF WordOf
<1>4. /\ StoreReg(x, 0, 1, v) = x + (v - (x % Base)) * 1
      /\ StoreReg(x, 1, 1, v) = x + (v - (x \div Base)) * Base
  BY <1>2, <1>3 DEF StoreReg
<1> DEFINE q == x \div Base
           s == x % Base
<1>5. q \in Int /\ s \in Int /\ v \in Int /\ Base \in Int /\ x = q * Base + s
  BY <1>1, BaseIsNat DEF Words
<1> HIDE DEF q, s
<1>6. (v - q) * Base = v * Base - q * Base
  BY <1>5
<1>7. q * Base \in Int /\ v * Base \in Int
  BY <1>5
<1>8. x + (v - s) * 1 = q * Base + v /\ x + (v - q) * Base = v * Base + s
  BY <1>5, <1>6, <1>7
<1> QED  BY <1>4, <1>8 DEF q, s

LEMMA StoresType ==
  ASSUME NEW x \in Times, NEW v \in Words
  PROVE  /\ StoreReg(x, 0, 1, v) \in Times /\ StoreReg(x, 0, 1, v) % Base = v
         /\ StoreReg(x, 1, 1, v) \in Times
<1>1. x \div Base \in Words /\ x % Base \in Words
  BY WordsOf
<1>2. (x \div Base) * Base + v \in Times /\ v * Base + (x % Base) \in Times
  BY <1>1, Compose
<1>3. ((x \div Base) * Base + v) % Base = v
  <2> DEFINE q == x \div Base
  <2>1. q \in Nat /\ v \in 0 .. (Base - 1) /\ Base \in Nat \ {0} /\ q * Base + v \in Nat
    BY <1>1, <1>2, BaseIsNat DEF Words, Times
  <2> HIDE DEF q
  <2>2. (q * Base + v) % Base = v
    BY <2>1, Digits
  <2> QED  BY <2>2 DEF q
<1> QED  BY <1>2, <1>3, StoresWord

(* The two stores of sbi_set_timer together store the whole register. *)
LEMMA StoresBoth ==
  ASSUME NEW x \in Times, NEW d \in Times, x % Base = d % Base
  PROVE  StoreReg(x, 1, 1, d \div Base) = d
BY WordsOf, StoresWord

(* msip keeps the word it is given. *)
LEMMA StoresMsip ==
  ASSUME NEW m \in Words, NEW v \in {0, 1} PROVE StoreReg(m, 0, 1, v) % Base = v
<1>1. v \in Words /\ v % Base = v /\ m % Base = m /\ m \in Nat /\ v \in Nat
  BY BaseIsNat, WordIsItself DEF Words
<1>2. StoreReg(m, 0, 1, v) = v
  BY <1>1 DEF StoreReg, WordOf, Place
<1> QED  BY <1>1, <1>2

-----------------------------------------------------------------------------
(* What is left of the firmware's routines *)

Last == << MRet >>
Second(d) == << Cmp(1, 1, d \div Base), ClearStip, SetMtie, MRet >>
Armed == << ClearStip, SetMtie, MRet >>
Enabling == << SetMtie, MRet >>
Sending == << <<"msip", 1>>, MRet >>
ReadLower == << <<"mtime", 0, 1>>, <<"again">>, MRet >>
ReadAgain == << <<"again">>, MRet >>
Ringing == << SetStip, MRet >>
Taking == << <<"take">>, MRet >>

Routine ==
  \/ fw \in {<<>>, Last, Armed, Enabling, SendIpi, Sending, ReadWords, ReadLower, ReadAgain,
             ReadWhole, TimerHandler, Ringing, SoftHandler, Taking}
  \/ \E d \in 0 .. MaxTime : fw \in {SetWhole(d), SetWords(d), Second(d)}

LEMMA Tails ==
  /\ Tail(Armed) = Enabling /\ Tail(Enabling) = Last
  /\ Tail(SendIpi) = Sending /\ Tail(Sending) = Last
  /\ Tail(ReadWords) = ReadLower /\ Tail(ReadLower) = ReadAgain /\ Tail(ReadAgain) = Last
  /\ Tail(ReadWhole) = Last
  /\ Tail(TimerHandler) = Ringing /\ Tail(Ringing) = Last
  /\ Tail(SoftHandler) = Taking /\ Tail(Taking) = Last
  /\ \A d : Tail(SetWhole(d)) = Armed /\ Tail(SetWords(d)) = Second(d) /\ Tail(Second(d)) = Armed
<1>1. Tail(Armed) = Enabling /\ Tail(Enabling) = Last
  BY DEF Armed, Enabling, Last
<1>2. Tail(SendIpi) = Sending /\ Tail(Sending) = Last
  BY DEF SendIpi, Sending, Last
<1>3. Tail(ReadWords) = ReadLower /\ Tail(ReadLower) = ReadAgain /\ Tail(ReadAgain) = Last
  BY DEF ReadWords, ReadLower, ReadAgain, Last
<1>4. Tail(ReadWhole) = Last
  BY DEF ReadWhole, Last
<1>5. Tail(TimerHandler) = Ringing /\ Tail(Ringing) = Last
  BY DEF TimerHandler, Ringing, Last
<1>6. Tail(SoftHandler) = Taking /\ Tail(Taking) = Last
  BY DEF SoftHandler, Taking, Last
<1>7. ASSUME NEW d PROVE Tail(SetWhole(d)) = Armed
  BY DEF SetWhole, Armed
<1>8. ASSUME NEW d PROVE Tail(SetWords(d)) = Second(d)
  BY DEF SetWords, Second
<1>9. ASSUME NEW d PROVE Tail(Second(d)) = Armed
  BY DEF Second, Armed
<1> QED  BY <1>1, <1>2, <1>3, <1>4, <1>5, <1>6, <1>7, <1>8, <1>9

LEMMA Heads ==
  /\ Head(Last) = MRet /\ Head(Armed) = ClearStip /\ Head(Enabling) = SetMtie
  /\ Head(SendIpi) = <<"note">> /\ Head(Sending) = <<"msip", 1>>
  /\ Head(ReadWords) = <<"mtime", 1, 1>> /\ Head(ReadLower) = <<"mtime", 0, 1>>
  /\ Head(ReadAgain) = <<"again">> /\ Head(ReadWhole) = <<"mtime", 0, 2>>
  /\ Head(TimerHandler) = ClearMtie /\ Head(Ringing) = SetStip
  /\ Head(SoftHandler) = <<"msip", 0>> /\ Head(Taking) = <<"take">>
  /\ \A d : /\ Head(SetWhole(d)) = Cmp(0, 2, d) /\ Head(SetWords(d)) = Cmp(0, 1, d % Base)
            /\ Head(Second(d)) = Cmp(1, 1, d \div Base)
BY DEF Last, Second, Armed, Enabling, SendIpi, Sending, ReadWords, ReadLower, ReadAgain, ReadWhole,
       TimerHandler, Ringing, SoftHandler, Taking, SetWhole, SetWords

LEMMA Codes ==
  /\ MRet[1] = "mret" /\ ClearStip[1] = "stip" /\ SetStip[1] = "stip"
  /\ SetMtie[1] = "mtie" /\ ClearMtie[1] = "mtie"
  /\ ClearStip[2] = "clear" /\ SetStip[2] = "set" /\ SetMtie[2] = "set" /\ ClearMtie[2] = "clear"
  /\ \A a, b, c : Cmp(a, b, c)[1] = "mtimecmp" /\ Cmp(a, b, c)[2] = a /\ Cmp(a, b, c)[3] = b
                 /\ Cmp(a, b, c)[4] = c
BY DEF MRet, ClearStip, SetStip, SetMtie, ClearMtie, Cmp

(* The routine an instruction is of *)
LEMMA RoutineOf ==
  ASSUME Routine, fw # <<>>
  PROVE  /\ Insn[1] = "mtimecmp" => \E d \in 0 .. MaxTime : fw \in {SetWhole(d), SetWords(d), Second(d)}
         /\ Insn[1] = "stip" => fw \in {Armed, Ringing}
         /\ Insn[1] = "mtie" => fw \in {Enabling, TimerHandler}
         /\ Insn[1] = "msip" => fw \in {Sending, SoftHandler}
         /\ Insn[1] = "mtime" => fw \in {ReadWords, ReadLower, ReadWhole}
         /\ Insn[1] = "again" => fw = ReadAgain
         /\ Insn[1] = "note" => fw = SendIpi
         /\ Insn[1] = "take" => fw = Taking
         /\ Insn[1] = "mret" => fw = Last
<1>1. CASE \E d \in 0 .. MaxTime : fw \in {SetWhole(d), SetWords(d), Second(d)}
  <2>1. Insn[1] = "mtimecmp"
    BY <1>1, Heads, Codes DEF Insn
  <2> QED  BY <1>1, <2>1
<1>2. CASE fw \in {Last, Armed, Enabling, SendIpi, Sending, ReadWords, ReadLower, ReadAgain,
                  ReadWhole, TimerHandler, Ringing, SoftHandler, Taking}
  BY <1>2, Heads, Codes DEF Insn
<1> QED  BY <1>1, <1>2 DEF Routine

LEMMA NotEmpty ==
  /\ Last # <<>> /\ Armed # <<>> /\ Enabling # <<>> /\ SendIpi # <<>> /\ Sending # <<>>
  /\ ReadWords # <<>> /\ ReadLower # <<>> /\ ReadAgain # <<>> /\ ReadWhole # <<>>
  /\ TimerHandler # <<>> /\ Ringing # <<>> /\ SoftHandler # <<>> /\ Taking # <<>>
  /\ \A d : SetWhole(d) # <<>> /\ SetWords(d) # <<>> /\ Second(d) # <<>>
BY DEF Last, Second, Armed, Enabling, SendIpi, Sending, ReadWords, ReadLower, ReadAgain, ReadWhole,
       TimerHandler, Ringing, SoftHandler, Taking, SetWhole, SetWords

LEMMA TailIsRoutine ==
  ASSUME Routine, fw # <<>>, fw' = Tail(fw)
  PROVE  Routine'
<1>1. CASE \E d \in 0 .. MaxTime : fw \in {SetWhole(d), SetWords(d), Second(d)}
  BY <1>1, Tails DEF Routine
<1>2. CASE fw \in {Armed, Enabling, SendIpi, Sending, ReadWords, ReadLower, ReadAgain,
                  ReadWhole, TimerHandler, Ringing, SoftHandler, Taking}
  BY <1>2, Tails DEF Routine
<1>3. CASE fw = Last
  BY <1>3 DEF Routine, Last
<1> QED  BY <1>1, <1>2, <1>3 DEF Routine

-----------------------------------------------------------------------------
(* Type correctness, whatever the host's clock does *)

MipBits == {MSI, MTI, SSI, STI}

LEMMA MaxTimeIsTime == MaxTime \in Nat /\ 0 .. MaxTime \subseteq Times
<1>1. MaxTime \in Times /\ Base * Base \in Nat
  BY TimerAssumption, BaseIsNat, NatTimes DEF TimerAssumption
<1> QED  BY <1>1 DEF Times

LEMMA TickedType ==
  ASSUME NEW m \in SUBSET MipBits, NEW t
  PROVE  /\ Ticked(m, t) \in SUBSET MipBits
         /\ STI \in Ticked(m, t) <=> STI \in m
         /\ SSI \in Ticked(m, t) <=> SSI \in m
         /\ msip = 1 => MSI \in Ticked(m, t)
         /\ MTI \in Ticked(m, t) <=> t >= mtimecmp
BY DEF Ticked, MipBits, MSI, MTI, SSI, STI

LEMMA PollDoes ==
  ASSUME TypeOK, Routine, Poll
  PROVE  /\ TypeOK' /\ Routine'
         /\ mtime' \in 0 .. MaxTime /\ (Steady => mtime <= mtime')
         /\ UNCHANGED <<mtimecmp, msip, mtie, hi, lo, ipi, since>>
<1>1. PICK t \in 0 .. MaxTime : PollNone(t) \/ PollMachine(t) \/ PollSupervisor(t)
  BY DEF Poll
<1>2. /\ mtime' = t /\ (Steady => t >= mtime) /\ phase' = "exec" /\ UNCHANGED <<mtimecmp, msip>>
  BY <1>1 DEF PollNone, PollMachine, PollSupervisor, Tick, Clock
<1>3. mtime \in Nat /\ t \in Nat
  BY MaxTimeIsTime DEF TypeOK
<1>4. /\ mip' \in SUBSET MipBits /\ UNCHANGED <<mtie, hi, lo, ipi, since>>
      /\ fw' \in {fw, SoftHandler, TimerHandler}
      /\ sie' \in {sie, FALSE} /\ asked' \in {asked, FALSE} /\ due' \in {due, None}
  <2>1. Ticked(mip, t) \in SUBSET MipBits
    BY TickedType DEF TypeOK, MipBits
  <2>2. CASE PollNone(t)
    BY <2>1, <2>2 DEF PollNone, firmware, kernel
  <2>3. CASE PollMachine(t)
    BY <2>1, <2>3 DEF PollMachine, Acknowledge, kernel
  <2>4. CASE PollSupervisor(t)
    BY <2>1, <2>4 DEF PollSupervisor, Acknowledge, firmware
  <2> QED  BY <1>1, <2>2, <2>3, <2>4
<1>5. Routine'
  BY <1>4 DEF Routine
<1>6. TypeOK'
  BY <1>2, <1>4 DEF TypeOK, MipBits
<1> QED  BY <1>2, <1>3, <1>4, <1>5, <1>6

LEMMA KernelTypes == ASSUME TypeOK, Routine, RunKernel PROVE TypeOK' /\ Routine'
<1>1. UNCHANGED <<clint, mip, mtie, hi, lo, ipi>> /\ phase' = "poll"
  BY DEF RunKernel, Work, Mask, Unmask, CallSendIpi, CallGetTime, ReadTime, CallSetTimer, Kernel
<1>2. /\ sie' \in BOOLEAN /\ asked' \in BOOLEAN
      /\ due' \in 0 .. MaxTime \cup {None} /\ since' \in 0 .. MaxTime \cup {None}
  BY DEF TypeOK, RunKernel, Work, Mask, Unmask, CallSendIpi, CallGetTime, ReadTime, CallSetTimer
<1>3. Routine'
  <2>1. CASE Work \/ Mask \/ Unmask \/ ReadTime
    BY <2>1 DEF Work, Mask, Unmask, ReadTime, Kernel, Routine
  <2>2. CASE CallSendIpi
    BY <2>2 DEF CallSendIpi, Routine
  <2>3. CASE CallGetTime
    BY <2>3 DEF CallGetTime, GetTime, Routine
  <2>4. ASSUME NEW d \in 0 .. MaxTime, CallSetTimer(d) PROVE Routine'
    BY <2>4 DEF CallSetTimer, SetTimer, Routine
  <2> QED  BY <2>1, <2>2, <2>3, <2>4 DEF RunKernel
<1> QED  BY <1>1, <1>2, <1>3 DEF TypeOK, clint

(* The stores of sbi_set_timer *)
LEMMA MtimecmpStored ==
  ASSUME TypeOK, Routine, StoreMtimecmp
  PROVE  /\ mtimecmp' \in Times
         /\ \A d \in 0 .. MaxTime :
              /\ fw = SetWhole(d) => mtimecmp' = d
              /\ fw = SetWords(d) => mtimecmp' % Base = d % Base
              /\ fw = Second(d) /\ mtimecmp % Base = d % Base => mtimecmp' = d
<1>1. mtimecmp' = StoreReg(mtimecmp, Insn[2], Insn[3], Insn[4])
  BY DEF StoreMtimecmp, StoreCmp
<1>2. ASSUME NEW d \in 0 .. MaxTime, fw = SetWhole(d) PROVE mtimecmp' = d /\ mtimecmp' \in Times
  BY <1>1, <1>2, MaxTimeIsTime, Heads, Codes DEF Insn, StoreReg
<1>3. ASSUME NEW d \in 0 .. MaxTime
      PROVE  /\ mtimecmp \in Times /\ d \in Times /\ d % Base \in Words /\ d \div Base \in Words
  BY MaxTimeIsTime, WordsOf DEF TypeOK
<1>4. ASSUME NEW d \in 0 .. MaxTime, fw = SetWords(d)
      PROVE  mtimecmp' % Base = d % Base /\ mtimecmp' \in Times
  <2>1. mtimecmp' = StoreReg(mtimecmp, 0, 1, d % Base)
    BY <1>1, <1>4, Heads, Codes DEF Insn
  <2> QED  BY <1>3, <2>1, StoresType
<1>5. ASSUME NEW d \in 0 .. MaxTime, fw = Second(d)
      PROVE  mtimecmp' \in Times /\ (mtimecmp % Base = d % Base => mtimecmp' = d)
  <2>1. mtimecmp' = StoreReg(mtimecmp, 1, 1, d \div Base)
    BY <1>1, <1>5, Heads, Codes DEF Insn
  <2> QED  BY <1>3, <2>1, StoresType, StoresBoth
<1>6. \E d \in 0 .. MaxTime : fw \in {SetWhole(d), SetWords(d), Second(d)}
  BY RoutineOf DEF StoreMtimecmp, Firmware
<1> QED  BY <1>2, <1>4, <1>5, <1>6

LEMMA MsipStored ==
  ASSUME TypeOK, Routine, WriteMsip
  PROVE  \/ fw = Sending /\ msip' = 1
         \/ fw = SoftHandler /\ msip' = 0
<1>1. fw \in {Sending, SoftHandler}
  BY RoutineOf DEF WriteMsip, Firmware
<1>2. msip' = StoreReg(msip, 0, 1, Insn[2]) % Base
  BY DEF WriteMsip, StoreMsip
<1>3. CASE fw = Sending
  <2>1. Insn[2] = 1
    BY <1>3, Heads DEF Insn
  <2> QED  BY <1>2, <1>3, <2>1, StoresMsip DEF TypeOK
<1>4. CASE fw = SoftHandler
  <2>1. Insn[2] = 0
    BY <1>4, Heads DEF Insn
  <2> QED  BY <1>2, <1>4, <2>1, StoresMsip DEF TypeOK
<1> QED  BY <1>1, <1>3, <1>4

LEMMA MtimeLoaded ==
  ASSUME TypeOK, Routine, LoadMtime
  PROVE  \/ fw = ReadWords /\ hi' = mtime \div Base /\ lo' = lo
         \/ fw = ReadLower /\ lo' = mtime % Base /\ hi' = hi
         \/ fw = ReadWhole /\ lo' = 0 /\ hi' = 0
<1>1. fw \in {ReadWords, ReadLower, ReadWhole}
  BY RoutineOf DEF LoadMtime, Firmware
<1>2. mtime \in Times
  BY MaxTimeIsTime DEF TypeOK
<1>3. CASE fw = ReadWords
  <2>1. Insn[2] = 1 /\ Insn[3] = 1
    BY <1>3, Heads DEF Insn
  <2> QED  BY <1>2, <1>3, <2>1, LoadsWord DEF LoadMtime
<1>4. CASE fw = ReadLower
  <2>1. Insn[2] = 0 /\ Insn[3] = 1
    BY <1>4, Heads DEF Insn
  <2> QED  BY <1>2, <1>4, <2>1, LoadsWord DEF LoadMtime
<1>5. CASE fw = ReadWhole
  <2>1. Insn[2] = 0 /\ Insn[3] = 2
    BY <1>5, Heads DEF Insn
  <2> QED  BY <1>5, <2>1 DEF LoadMtime, LoadReg
<1> QED  BY <1>1, <1>3, <1>4, <1>5

LEMMA FirmwareTypes == ASSUME TypeOK, Routine, RunFirmware PROVE TypeOK' /\ Routine'
<1>1. UNCHANGED <<mtime, sie, due, asked>> /\ phase' = "poll" /\ fw # <<>>
  BY DEF RunFirmware, StoreMtimecmp, WriteMsip, WriteMtie, WriteStip, LoadMtime, LoadAgain, Note, Take,
         Return, Firmware, StoreCmp, StoreMsip, clint
<1>2. Routine' /\ since' \in {since, None}
  <2>1. CASE fw' = Tail(fw) /\ since' = since
    BY <1>1, <2>1, TailIsRoutine
  <2>2. CASE fw' = ReadWords /\ since' = since
    BY <2>2 DEF Routine
  <2>3. CASE fw' = <<>> /\ since' = None
    BY <2>3 DEF Routine
  <2> QED  BY <2>1, <2>2, <2>3
           DEF RunFirmware, StoreMtimecmp, WriteMsip, WriteMtie, WriteStip, LoadMtime, LoadAgain, Note,
               Take, Return, Goes
<1>3. mtimecmp' \in Times /\ msip' \in Words
  <2>1. CASE StoreMtimecmp
    BY <2>1, MtimecmpStored DEF StoreMtimecmp, StoreCmp, TypeOK
  <2>2. CASE WriteMsip
    BY <2>2, MsipStored, BaseIsNat DEF WriteMsip, StoreMsip, TypeOK
  <2>3. ~ StoreMtimecmp /\ ~ WriteMsip => UNCHANGED clint
    BY DEF RunFirmware, WriteMtie, WriteStip, LoadMtime, LoadAgain, Note, Take, Return
  <2> QED  BY <2>1, <2>2, <2>3 DEF clint, TypeOK
<1>4. hi' \in Words /\ lo' \in Words
  <2>1. CASE LoadMtime
    <3>1. mtime \div Base \in Words /\ mtime % Base \in Words
      BY MaxTimeIsTime, WordsOf DEF TypeOK
    <3> QED  BY <2>1, <3>1, MtimeLoaded, BaseIsNat DEF TypeOK
  <2>2. ~ LoadMtime => UNCHANGED <<hi, lo>>
    BY DEF RunFirmware, StoreMtimecmp, WriteMsip, WriteMtie, WriteStip, LoadAgain, Note, Take, Return
  <2> QED  BY <2>1, <2>2 DEF TypeOK
<1>5. mip' \subseteq MipBits
  BY DEF RunFirmware, StoreMtimecmp, WriteMsip, WriteMtie, WriteStip, LoadMtime, LoadAgain, Note, Take,
         Return, TypeOK, MipBits
<1>6. mtie' \in BOOLEAN /\ ipi' \in BOOLEAN
  BY DEF RunFirmware, StoreMtimecmp, WriteMsip, WriteMtie, WriteStip, LoadMtime, LoadAgain, Note, Take,
         Return, TypeOK
<1> QED  BY <1>1, <1>2, <1>3, <1>4, <1>5, <1>6 DEF TypeOK, MipBits

LEMMA TypesInit == Init => TypeOK /\ Routine
<1> SUFFICES ASSUME Init PROVE TypeOK /\ Routine
  OBVIOUS
<1>1. 0 \in 0 .. MaxTime
  BY MaxTimeIsTime
<1> QED  BY <1>1, BaseIsNat DEF Init, TypeOK, Routine

LEMMA TypesNext == TypeOK /\ Routine /\ [Next]_vars => TypeOK' /\ Routine'
<1> SUFFICES ASSUME TypeOK, Routine, [Next]_vars PROVE TypeOK' /\ Routine'
  OBVIOUS
<1>1. CASE UNCHANGED vars
  BY <1>1 DEF vars, clint, firmware, kernel, TypeOK, Routine
<1> QED  BY <1>1, PollDoes, KernelTypes, FirmwareTypes DEF Next

(* The registers of the CLINT stay doublewords and words, and what the
   firmware loads from them words, whatever the offset and the length of the
   accesses and whatever the host's clock does (ClintDevice::load, store). *)
THEOREM TypesHold == Spec => []TypeOK
BY TypesInit, TypesNext, PTL DEF Spec

-----------------------------------------------------------------------------
(* The alarm while the firmware is at rest, or at work on something else: it
   is in the compare register with its interrupt enabled, or it is pending. *)
Core ==
  /\ due # None => (mtie \/ STI \in mip)
  /\ mtie => due # None /\ mtimecmp = due
  /\ STI \in mip => due # None /\ due <= mtime /\ ~ mtie

(* What the firmware has noted interrupts it. *)
Noted == ipi => msip = 1

Untimed == since = None

(* The time that has been read lies between the question and now. *)
Answered == since <= hi * Base + lo /\ hi * Base + lo <= mtime

Asking == Core /\ Noted /\ since # None /\ since <= mtime

Resting == fw = <<>> /\ Core /\ Noted /\ Untimed
Returning == fw = Last /\ Core /\ Noted /\ (Careful /\ since # None => Answered)
Setting == due # None /\ fw \in {SetWhole(due), SetWords(due)} /\ Noted /\ Untimed
SettingUpper ==
  due # None /\ fw = Second(due) /\ mtimecmp % Base = due % Base /\ Noted /\ Untimed
Arming == fw = Armed /\ due # None /\ mtimecmp = due /\ Noted /\ Untimed
Arming2 == fw = Enabling /\ due # None /\ mtimecmp = due /\ STI \notin mip /\ Noted /\ Untimed
Expired == fw = TimerHandler /\ due # None /\ due <= mtime /\ Noted /\ Untimed
Expired2 == fw = Ringing /\ due # None /\ due <= mtime /\ ~ mtie /\ Noted /\ Untimed
Noting == fw = SendIpi /\ Core /\ Noted /\ asked /\ Untimed
Signalling == fw \in {Sending, SoftHandler, Taking} /\ Core /\ Untimed
ReadingUpper == fw = ReadWords /\ Asking
ReadingLower == fw = ReadLower /\ Asking /\ hi <= mtime \div Base
ReadingAgain ==
  fw = ReadAgain /\ Asking /\ hi <= mtime \div Base /\ (hi = mtime \div Base => Answered)
ReadingWhole == fw = ReadWhole /\ Asking /\ ~ Careful

Progress ==
  \/ Resting \/ Returning \/ Setting \/ SettingUpper \/ Arming \/ Arming2 \/ Expired \/ Expired2
  \/ Noting \/ Signalling \/ ReadingUpper \/ ReadingLower \/ ReadingAgain \/ ReadingWhole

(* A signal that is noted or pending was asked for. *)
AskedFor == (ipi => asked) /\ (SSI \in mip => asked)

Inv == TypeOK /\ Routine /\ Progress /\ AskedFor

LEMMA ProgressOf ==
  ASSUME Progress, fw # <<>>
  PROVE  /\ Insn[1] = "mtimecmp" => Setting \/ SettingUpper
         /\ Insn[1] = "stip" => Arming \/ Expired2
         /\ Insn[1] = "mtie" => Arming2 \/ Expired
         /\ Insn[1] \in {"msip", "take"} => Signalling
         /\ Insn[1] = "mtime" => ReadingUpper \/ ReadingLower \/ ReadingWhole
         /\ Insn[1] = "again" => ReadingAgain
         /\ Insn[1] = "note" => Noting
         /\ Insn[1] = "mret" => Returning
<1>1. CASE Returning \/ Arming \/ Arming2
  BY <1>1, Heads, Codes DEF Insn, Returning, Arming, Arming2
<1>2. CASE Setting \/ SettingUpper
  BY <1>2, Heads, Codes DEF Insn, Setting, SettingUpper
<1>3. CASE Expired \/ Expired2
  BY <1>3, Heads, Codes DEF Insn, Expired, Expired2
<1>4. CASE Noting \/ Signalling
  BY <1>4, Heads, Codes DEF Insn, Noting, Signalling
<1>5. CASE ReadingUpper \/ ReadingLower \/ ReadingAgain \/ ReadingWhole
  BY <1>5, Heads, Codes DEF Insn, ReadingUpper, ReadingLower, ReadingAgain, ReadingWhole
<1>6. ~ Resting
  BY DEF Resting
<1> QED  BY <1>1, <1>2, <1>3, <1>4, <1>5, <1>6 DEF Progress

LEMMA ProgressAtRest == ASSUME Progress, fw = <<>> PROVE Core /\ Noted /\ Untimed
BY NotEmpty DEF Progress, Resting, Returning, Setting, SettingUpper, Arming, Arming2, Expired, Expired2,
                Noting, Signalling, ReadingUpper, ReadingLower, ReadingAgain, ReadingWhole

-----------------------------------------------------------------------------
(* The head of the loop: the clock moves, an interrupt may be taken. *)

LEMMA NoneIsNoTime == None \notin 0 .. MaxTime
BY MaxTimeIsTime, TimerAssumption DEF TimerAssumption

LEMMA TimesAreNat ==
  ASSUME TypeOK
  PROVE  /\ mtime \in Nat /\ hi \in Nat /\ lo \in Nat /\ hi * Base + lo \in Nat
         /\ (due # None => due \in Nat /\ due \in 0 .. MaxTime)
         /\ (since # None => since \in Nat /\ since \in 0 .. MaxTime)
<1>1. hi \in Words /\ lo \in Words
  BY DEF TypeOK
<1>2. hi * Base + lo \in Times
  BY <1>1, Compose
<1>3. hi \in Nat /\ lo \in Nat /\ hi * Base + lo \in Nat
  BY <1>1, <1>2, WordsOf, BaseIsNat DEF Words
<1> QED  BY <1>3, MaxTimeIsTime DEF TypeOK

(* As time passes nothing but the time changes. *)
LEMMA TimePasses ==
  ASSUME TypeOK, Progress, mtime' \in Nat, mtime <= mtime', STI \in mip' <=> STI \in mip,
         UNCHANGED <<fw, mtimecmp, msip, mtie, hi, lo, ipi, since, due, asked>>
  PROVE  Progress'
<1>1. /\ mtime \in Nat /\ hi \in Nat /\ hi * Base + lo \in Nat
      /\ (due # None => due \in Nat) /\ (since # None => since \in Nat)
  BY TimesAreNat
<1>2. Core => Core'
  BY <1>1 DEF Core
<1>3. (Noted => Noted') /\ (Untimed => Untimed')
  BY DEF Noted, Untimed
<1>4. since # None /\ Answered => Answered'
  BY <1>1 DEF Answered
<1>5. Asking => Asking' /\ since # None
  BY <1>1, <1>2, <1>3 DEF Asking
<1>6. mtime \div Base \in Nat /\ mtime' \div Base \in Nat /\ mtime \div Base <= mtime' \div Base
  BY <1>1, BaseIsNat, Monotone, Quotient
<1>7. CASE Resting \/ Returning \/ Noting \/ Signalling
  BY <1>2, <1>3, <1>4, <1>7 DEF Progress, Resting, Returning, Noting, Signalling
<1>8. CASE Setting \/ SettingUpper \/ Arming \/ Arming2
  BY <1>3, <1>8 DEF Progress, Setting, SettingUpper, Arming, Arming2
<1>9. CASE Expired \/ Expired2
  BY <1>1, <1>3, <1>9 DEF Progress, Expired, Expired2
<1>10. CASE ReadingUpper \/ ReadingWhole
  BY <1>5, <1>10 DEF Progress, ReadingUpper, ReadingWhole
<1>11. CASE ReadingLower
  BY <1>1, <1>5, <1>6, <1>11 DEF Progress, ReadingLower
<1>12. CASE ReadingAgain
  <2>1. hi <= mtime' \div Base
    BY <1>1, <1>6, <1>12 DEF ReadingAgain
  <2>2. hi = mtime' \div Base => hi = mtime \div Base
    BY <1>1, <1>6, <1>12 DEF ReadingAgain
  <2> QED  BY <1>4, <1>5, <1>12, <2>1, <2>2 DEF Progress, ReadingAgain
<1> QED  BY <1>7, <1>8, <1>9, <1>10, <1>11, <1>12 DEF Progress

(* What the kernel sees of a poll *)
LEMMA PollStep ==
  ASSUME Steady, Inv, Poll
  PROVE  Inv' /\ (Promise!Ring \/ Promise!Signal \/ Promise!Pass)
<1>1. PICK t \in 0 .. MaxTime : PollNone(t) \/ PollMachine(t) \/ PollSupervisor(t)
  BY DEF Poll
<1>2. /\ TypeOK' /\ Routine' /\ mtime' \in 0 .. MaxTime /\ mtime <= mtime'
      /\ UNCHANGED <<mtimecmp, msip, mtie, hi, lo, ipi, since>>
  BY PollDoes DEF Inv
<1>3. mtime' = t /\ mtime' \in Nat /\ mtime \in Nat /\ (due # None => due \in Nat)
  BY <1>1, <1>2, MaxTimeIsTime, TimesAreNat DEF PollNone, PollMachine, PollSupervisor, Tick, Clock, Inv
<1>4. Promise!Tick
  BY <1>2, <1>3 DEF Promise!Tick
<1>5. /\ STI \in Ticked(mip, t) <=> STI \in mip
      /\ SSI \in Ticked(mip, t) <=> SSI \in mip
      /\ msip = 1 => MSI \in Ticked(mip, t)
      /\ MTI \in Ticked(mip, t) <=> t >= mtimecmp
  BY TickedType DEF Inv, TypeOK, MipBits
<1>6. CASE PollNone(t)
  <2>1. mip' = Ticked(mip, t) /\ UNCHANGED <<fw, due, asked, event>>
    BY <1>6 DEF PollNone, firmware, kernel
  <2>2. Progress'
    BY <1>2, <1>3, <1>5, <2>1, TimePasses DEF Inv
  <2>3. AskedFor'
    BY <1>2, <1>5, <2>1 DEF Inv, AskedFor
  <2>4. Promise!Pass
    BY <1>2, <1>4, <2>1 DEF Promise!Pass
  <2> QED  BY <1>2, <2>2, <2>3, <2>4 DEF Inv
<1>7. CASE PollMachine(t)
  <2>1. fw = <<>> /\ UNCHANGED <<due, asked, event>>
    BY <1>7 DEF PollMachine, Masked, kernel
  <2>2. Core /\ Noted /\ Untimed
    BY <2>1, ProgressAtRest DEF Inv
  <2>3. Noted' /\ Untimed'
    BY <1>2, <2>2 DEF Noted, Untimed
  <2>4. CASE Acknowledge(t, MSI) /\ fw' = SoftHandler
    <3>1. mip' = Ticked(mip, t) \ {MSI}
      BY <2>4 DEF Acknowledge
    <3>2. (STI \in mip' <=> STI \in mip) /\ (SSI \in mip' <=> SSI \in mip)
      BY <1>5, <3>1 DEF STI, SSI, MSI
    <3>3. Core'
      BY <1>2, <1>3, <2>1, <2>2, <3>2 DEF Core
    <3>4. Progress'
      BY <2>3, <2>4, <3>3 DEF Progress, Signalling
    <3>5. AskedFor'
      BY <1>2, <2>1, <3>2 DEF Inv, AskedFor
    <3>6. Promise!Pass
      BY <1>2, <1>4, <2>1 DEF Promise!Pass
    <3> QED  BY <1>2, <3>4, <3>5, <3>6 DEF Inv
  <2>5. CASE Acknowledge(t, MTI) /\ fw' = TimerHandler
    <3>1. mip' = Ticked(mip, t) \ {MTI} /\ MTI \in Ticked(mip, t) /\ MTI \in Enabled
      BY <2>5 DEF Acknowledge
    <3>2. (STI \in mip' <=> STI \in mip) /\ (SSI \in mip' <=> SSI \in mip)
      BY <1>5, <3>1 DEF STI, SSI, MTI
    <3>3. mtie
      BY <3>1 DEF Enabled, MTI, MSI, SSI, STI
    <3>4. due # None /\ due <= mtime'
      BY <1>3, <1>5, <2>2, <3>1, <3>3 DEF Core
    <3>5. Progress'
      BY <2>1, <2>3, <2>5, <3>4 DEF Progress, Expired
    <3>6. AskedFor'
      BY <1>2, <2>1, <3>2 DEF Inv, AskedFor
    <3>7. Promise!Pass
      BY <1>2, <1>4, <2>1 DEF Promise!Pass
    <3> QED  BY <1>2, <3>5, <3>6, <3>7 DEF Inv
  <2> QED  BY <1>7, <2>4, <2>5 DEF PollMachine
<1>8. CASE PollSupervisor(t)
  <2>1. fw = <<>> /\ fw' = fw
    BY <1>8 DEF PollSupervisor, Masked, firmware
  <2>2. Core /\ Noted /\ Untimed
    BY <2>1, ProgressAtRest DEF Inv
  <2>3. Noted' /\ Untimed'
    BY <1>2, <2>2 DEF Noted, Untimed
  <2>4. CASE Acknowledge(t, SSI) /\ asked' = FALSE /\ event' = <<"signal">> /\ UNCHANGED due
    <3>1. /\ mip' = Ticked(mip, t) \ {SSI} /\ SSI \in Ticked(mip, t)
          /\ \A j \in Ticked(mip, t) \cap Enabled : Rank(SSI) <= Rank(j)
      BY <2>4 DEF Acknowledge
    <3>2. (STI \in mip' <=> STI \in mip) /\ SSI \notin mip'
      BY <1>5, <3>1 DEF STI, SSI
    <3>3. ~ ipi
      <4>1. MSI \in Enabled /\ Rank(SSI) = 5 /\ Rank(MSI) = 2
        BY DEF Enabled, Rank, MSI, MTI, SSI, STI
      <4>2. MSI \notin Ticked(mip, t)
        BY <3>1, <4>1
      <4> QED  BY <1>5, <2>2, <4>2 DEF Noted
    <3>4. Core'
      BY <1>2, <1>3, <2>2, <2>4, <3>2 DEF Core
    <3>5. Progress'
      BY <2>1, <2>3, <3>4 DEF Progress, Resting
    <3>6. AskedFor'
      BY <1>2, <3>2, <3>3 DEF AskedFor
    <3>7. asked
      BY <1>5, <3>1 DEF Inv, AskedFor
    <3>8. Promise!Signal
      BY <1>2, <1>4, <2>4, <3>7 DEF Promise!Signal
    <3> QED  BY <1>2, <3>5, <3>6, <3>8 DEF Inv
  <2>5. CASE Acknowledge(t, STI) /\ due' = None /\ event' = <<"ring">> /\ UNCHANGED asked
    <3>1. mip' = Ticked(mip, t) \ {STI} /\ STI \in Ticked(mip, t)
      BY <2>5 DEF Acknowledge
    <3>2. STI \notin mip' /\ (SSI \in mip' <=> SSI \in mip) /\ STI \in mip
      BY <1>5, <3>1 DEF STI, SSI
    <3>3. due # None /\ due <= mtime /\ ~ mtie
      BY <2>2, <3>2 DEF Core
    <3>4. Core'
      BY <1>2, <2>5, <3>2, <3>3 DEF Core
    <3>5. Progress'
      BY <2>1, <2>3, <3>4 DEF Progress, Resting
    <3>6. AskedFor'
      BY <1>2, <2>5, <3>2 DEF Inv, AskedFor
    <3>7. due <= mtime'
      BY <1>2, <1>3, <3>3
    <3>8. Promise!Ring
      BY <1>2, <1>4, <2>5, <3>3, <3>7 DEF Promise!Ring
    <3> QED  BY <1>2, <3>5, <3>6, <3>8 DEF Inv
  <2> QED  BY <1>8, <2>4, <2>5 DEF PollSupervisor
<1> QED  BY <1>1, <1>6, <1>7, <1>8

-----------------------------------------------------------------------------
(* The kernel's instructions *)

LEMMA KernelStep ==
  ASSUME Inv, RunKernel
  PROVE  /\ Inv'
         /\ \/ Promise!Set \/ Promise!Ask \/ Promise!Question \/ Promise!Answer \/ Promise!Pass
<1>1. /\ fw = <<>> /\ UNCHANGED <<mtime, mtimecmp, msip, mip, mtie, hi, lo, ipi>>
  BY DEF RunKernel, Work, Mask, Unmask, CallSendIpi, CallGetTime, ReadTime, CallSetTimer, Kernel, clint
<1>2. Core /\ Noted /\ Untimed /\ TypeOK' /\ Routine'
  BY <1>1, ProgressAtRest, KernelTypes DEF Inv
<1>3. Noted' /\ mtime \in 0 .. MaxTime /\ mtime \in Nat
  BY <1>1, <1>2, TimesAreNat DEF Noted, Inv, TypeOK
<1>4. UNCHANGED due => Core'
  BY <1>1, <1>2 DEF Core
<1>5. UNCHANGED asked => AskedFor'
  BY <1>1 DEF Inv, AskedFor
<1>6. CASE Work \/ Mask \/ Unmask
  <2>1. fw' = <<>> /\ event' = None /\ UNCHANGED <<due, asked, since>>
    BY <1>1, <1>6 DEF Work, Mask, Unmask
  <2>2. Progress'
    BY <1>2, <1>3, <1>4, <2>1 DEF Progress, Resting, Untimed
  <2>3. Promise!Pass
    BY <1>1, <1>3, <2>1, MaxTimeIsTime DEF Promise!Pass, Promise!Tick
  <2> QED  BY <1>2, <1>5, <2>1, <2>2, <2>3 DEF Inv
<1>7. CASE ReadTime
  <2>1. fw' = <<>> /\ event' = <<"time", mtime>> /\ UNCHANGED <<due, asked, since>>
    BY <1>1, <1>7 DEF ReadTime
  <2>2. Progress'
    BY <1>2, <1>3, <1>4, <2>1 DEF Progress, Resting, Untimed
  <2>3. Promise!Answer
    BY <1>1, <1>2, <1>3, <2>1 DEF Promise!Answer, Untimed
  <2> QED  BY <1>2, <1>5, <2>1, <2>2, <2>3 DEF Inv
<1>8. CASE CallSendIpi
  <2>1. fw' = SendIpi /\ asked' = TRUE /\ event' = None /\ UNCHANGED <<due, since>>
    BY <1>8 DEF CallSendIpi
  <2>2. Progress'
    BY <1>2, <1>3, <1>4, <2>1 DEF Progress, Noting, Untimed
  <2>3. AskedFor' /\ Promise!Ask
    BY <1>1, <2>1 DEF AskedFor, Promise!Ask
  <2> QED  BY <1>2, <2>2, <2>3 DEF Inv
<1>9. CASE CallGetTime
  <2>1. fw' \in GetTime /\ since' = mtime /\ event' = None /\ UNCHANGED <<due, asked>>
    BY <1>9 DEF CallGetTime
  <2>2. since' # None /\ since' <= mtime'
    BY <1>1, <1>3, <2>1, NoneIsNoTime
  <2>3. Asking'
    BY <1>3, <1>4, <2>1, <2>2 DEF Asking
  <2>4. fw' = ReadWords \/ (fw' = ReadWhole /\ ~ Careful)
    BY <2>1 DEF GetTime
  <2>5. Progress'
    BY <2>3, <2>4 DEF Progress, ReadingUpper, ReadingWhole
  <2>6. Promise!Question
    BY <1>1, <2>1 DEF Promise!Question
  <2> QED  BY <1>2, <1>5, <2>1, <2>5, <2>6 DEF Inv
<1>10. ASSUME NEW d \in 0 .. MaxTime, CallSetTimer(d) PROVE Inv' /\ Promise!Set
  <2>1. fw' \in SetTimer(d) /\ due' = d /\ event' = None /\ UNCHANGED <<asked, since>>
    BY <1>10 DEF CallSetTimer
  <2>2. due' # None /\ fw' \in {SetWhole(due'), SetWords(due')}
    BY <2>1, NoneIsNoTime DEF SetTimer
  <2>3. Untimed'
    BY <1>2, <2>1 DEF Untimed
  <2>4. Progress'
    BY <1>3, <2>2, <2>3 DEF Progress, Setting
  <2>5. Promise!Set
    BY <1>1, <2>1 DEF Promise!Set
  <2> QED  BY <1>2, <1>5, <2>1, <2>4, <2>5 DEF Inv
<1> QED  BY <1>6, <1>7, <1>8, <1>9, <1>10 DEF RunKernel

-----------------------------------------------------------------------------
(* The firmware's instructions *)

LEMMA StoringAlarm ==
  ASSUME Inv, StoreMtimecmp PROVE Progress' /\ AskedFor'
<1>1. /\ fw # <<>> /\ Insn[1] = "mtimecmp" /\ fw' = Tail(fw)
      /\ UNCHANGED <<msip, mip, ipi, since, due, asked>>
  BY DEF StoreMtimecmp, Firmware, Goes, StoreCmp
<1>2. Setting \/ SettingUpper
  BY <1>1, ProgressOf DEF Inv
<1>3. due \in 0 .. MaxTime /\ due # None /\ Noted /\ Untimed
  BY <1>2, TimesAreNat DEF Setting, SettingUpper, Inv
<1>4. Noted' /\ Untimed' /\ AskedFor'
  BY <1>1, <1>3 DEF Noted, Untimed, AskedFor, Inv
<1>5. CASE fw = SetWhole(due)
  <2>1. mtimecmp' = due /\ fw' = Armed
    BY <1>1, <1>3, <1>5, MtimecmpStored, Tails DEF Inv
  <2> QED  BY <1>1, <1>3, <1>4, <2>1 DEF Progress, Arming
<1>6. CASE fw = SetWords(due)
  <2>1. mtimecmp' % Base = due % Base /\ fw' = Second(due)
    BY <1>1, <1>3, <1>6, MtimecmpStored, Tails DEF Inv
  <2> QED  BY <1>1, <1>3, <1>4, <2>1 DEF Progress, SettingUpper
<1>7. CASE SettingUpper
  <2>1. mtimecmp' = due /\ fw' = Armed
    BY <1>1, <1>3, <1>7, MtimecmpStored, Tails DEF Inv, SettingUpper
  <2> QED  BY <1>1, <1>3, <1>4, <2>1 DEF Progress, Arming
<1> QED  BY <1>2, <1>5, <1>6, <1>7 DEF Setting

LEMMA StoringMsip == ASSUME Inv, WriteMsip PROVE Progress' /\ AskedFor'
<1>1. /\ fw # <<>> /\ Insn[1] = "msip" /\ fw' = Tail(fw)
      /\ UNCHANGED <<mtime, mtimecmp, mtie, mip, ipi, since, due, asked>>
  BY DEF WriteMsip, Firmware, Goes, StoreMsip
<1>2. Core /\ Untimed
  BY <1>1, ProgressOf DEF Signalling, Inv
<1>3. Core' /\ Untimed' /\ AskedFor'
  BY <1>1, <1>2 DEF Core, Untimed, AskedFor, Inv
<1>4. CASE fw = Sending /\ msip' = 1
  BY <1>1, <1>3, <1>4, Tails DEF Progress, Returning, Noted, Untimed
<1>5. CASE fw = SoftHandler
  BY <1>1, <1>3, <1>5, Tails DEF Progress, Signalling
<1> QED  BY <1>4, <1>5, MsipStored DEF Inv

LEMMA WritingMtie == ASSUME Inv, WriteMtie PROVE Progress' /\ AskedFor'
<1>1. /\ fw # <<>> /\ Insn[1] = "mtie" /\ fw' = Tail(fw) /\ mtie' = (Insn[2] = "set")
      /\ UNCHANGED <<mtime, mtimecmp, msip, mip, ipi, since, due, asked>>
  BY DEF WriteMtie, Firmware, Goes, clint
<1>2. CASE Arming2
  <2>1. Insn = SetMtie /\ fw' = Last
    BY <1>1, <1>2, Heads, Tails DEF Insn, Arming2
  <2>2. mtie'
    BY <1>1, <2>1, Codes
  <2>3. Core' /\ Noted' /\ Untimed'
    BY <1>1, <1>2, <2>2 DEF Arming2, Core, Noted, Untimed
  <2> QED  BY <1>1, <2>1, <2>3 DEF Progress, Returning, Untimed, AskedFor, Inv
<1>3. CASE Expired
  <2>1. Insn = ClearMtie /\ fw' = Ringing
    BY <1>1, <1>3, Heads, Tails DEF Insn, Expired
  <2>2. ~ mtie'
    BY <1>1, <2>1, Codes
  <2> QED  BY <1>1, <1>3, <2>1, <2>2 DEF Progress, Expired, Expired2, Noted, Untimed, AskedFor, Inv
<1> QED  BY <1>1, <1>2, <1>3, ProgressOf DEF Inv

LEMMA WritingStip == ASSUME Inv, WriteStip PROVE Progress' /\ AskedFor'
<1>1. /\ fw # <<>> /\ Insn[1] = "stip" /\ fw' = Tail(fw)
      /\ mip' = (IF Insn[2] = "set" THEN mip \cup {STI} ELSE mip \ {STI})
      /\ UNCHANGED <<mtime, mtimecmp, msip, mtie, ipi, since, due, asked>>
  BY DEF WriteStip, Firmware, Goes, clint
<1>2. AskedFor'
  BY <1>1 DEF AskedFor, Inv, SSI, STI
<1>3. CASE Arming
  <2>1. Insn = ClearStip /\ fw' = Enabling
    BY <1>1, <1>3, Heads, Tails DEF Insn, Arming
  <2>2. STI \notin mip'
    BY <1>1, <2>1, Codes
  <2> QED  BY <1>1, <1>2, <1>3, <2>1, <2>2 DEF Progress, Arming, Arming2, Noted, Untimed
<1>4. CASE Expired2
  <2>1. Insn = SetStip /\ fw' = Last
    BY <1>1, <1>4, Heads, Tails DEF Insn, Expired2
  <2>2. STI \in mip'
    BY <1>1, <2>1, Codes
  <2>3. Core' /\ Noted' /\ Untimed'
    BY <1>1, <1>4, <2>2 DEF Expired2, Core, Noted, Untimed
  <2> QED  BY <1>2, <2>1, <2>3 DEF Progress, Returning, Untimed
<1> QED  BY <1>1, <1>3, <1>4, ProgressOf DEF Inv

LEMMA LoadingMtime == ASSUME Inv, LoadMtime PROVE Progress' /\ AskedFor'
<1>1. /\ fw # <<>> /\ Insn[1] = "mtime" /\ fw' = Tail(fw)
      /\ UNCHANGED <<mtime, mtimecmp, msip, mtie, mip, ipi, since, due, asked>>
  BY DEF LoadMtime, Firmware, Goes, clint
<1>2. AskedFor'
  BY <1>1 DEF AskedFor, Inv
<1>3. Asking => Asking'
  BY <1>1 DEF Asking, Core, Noted
<1>4. mtime \in Times /\ mtime \div Base \in Nat /\ mtime \in Nat /\ hi \in Nat
  <2>1. mtime \in Times
    BY MaxTimeIsTime DEF TypeOK, Inv
  <2>2. mtime \in Nat /\ hi \in Nat
    BY TimesAreNat DEF Inv
  <2>3. mtime \div Base \in Nat
    BY <2>2, BaseIsNat, Split
  <2> QED  BY <2>1, <2>2, <2>3
<1>5. CASE fw = ReadWords /\ hi' = mtime \div Base
  <2>1. Asking
    BY <1>1, ProgressOf DEF ReadingUpper, ReadingLower, ReadingWhole, Inv
  <2> QED  BY <1>1, <1>2, <1>3, <1>4, <1>5, <2>1, Tails DEF Progress, ReadingLower
<1>6. CASE fw = ReadLower /\ lo' = mtime % Base /\ hi' = hi
  <2>1. ReadingLower
    <3>1. fw # ReadWords /\ fw # ReadWhole
      BY <1>6, Heads
    <3> QED  BY <1>1, <3>1, ProgressOf DEF ReadingUpper, ReadingWhole, Inv
  <2>2. mtime = (mtime \div Base) * Base + (mtime % Base)
    BY <1>4, WordsOf
  <2>3. since <= mtime /\ Asking /\ hi <= mtime \div Base /\ since \in Nat
    BY <2>1, TimesAreNat DEF ReadingLower, Asking, Inv
  <2>4. hi' = mtime' \div Base => Answered'
    BY <1>1, <1>4, <1>6, <2>2, <2>3 DEF Answered
  <2> QED  BY <1>1, <1>2, <1>3, <1>6, <2>3, <2>4, Tails DEF Progress, ReadingAgain
<1>7. CASE fw = ReadWhole
  <2>1. ReadingWhole
    <3>1. fw # ReadWords /\ fw # ReadLower
      BY <1>7, Heads
    <3> QED  BY <1>1, <3>1, ProgressOf DEF ReadingUpper, ReadingLower, Inv
  <2> QED  BY <1>1, <1>2, <1>3, <1>7, <2>1, Tails DEF Progress, Returning, ReadingWhole, Asking
<1> QED  BY <1>5, <1>6, <1>7, MtimeLoaded DEF Inv

LEMMA ReadingTwice == ASSUME Inv, LoadAgain PROVE Progress' /\ AskedFor'
<1>1. /\ fw # <<>> /\ Insn[1] = "again"
      /\ fw' = (IF LoadReg(mtime, 1, 1) = hi THEN Tail(fw) ELSE ReadWords)
      /\ UNCHANGED <<mtime, mtimecmp, msip, mtie, mip, hi, lo, ipi, since, due, asked>>
  BY DEF LoadAgain, Firmware, clint
<1>2. AskedFor'
  BY <1>1 DEF AskedFor, Inv
<1>3. ReadingAgain
  BY <1>1, ProgressOf DEF Inv
<1>4. Asking' /\ Core' /\ Noted'
  BY <1>1, <1>3 DEF ReadingAgain, Asking, Core, Noted
<1>5. LoadReg(mtime, 1, 1) = mtime \div Base
  BY MaxTimeIsTime, LoadsWord DEF Inv, TypeOK
<1>6. CASE mtime \div Base = hi
  <2>1. Answered' /\ fw' = Last
    BY <1>1, <1>3, <1>5, <1>6, Tails DEF ReadingAgain, Answered
  <2> QED  BY <1>2, <1>4, <2>1 DEF Progress, Returning
<1>7. CASE mtime \div Base # hi
  BY <1>1, <1>2, <1>4, <1>5, <1>7 DEF Progress, ReadingUpper
<1> QED  BY <1>6, <1>7

LEMMA NotingAndTaking == ASSUME Inv, Note \/ Take PROVE Progress' /\ AskedFor'
<1>1. /\ fw # <<>> /\ fw' = Tail(fw)
      /\ UNCHANGED <<mtime, mtimecmp, msip, mtie, since, due, asked>>
  BY DEF Note, Take, Firmware, Goes, clint
<1>2. CASE Note
  <2>1. ipi' = TRUE /\ mip' = mip /\ Noting /\ fw' = Sending
    BY <1>1, <1>2, ProgressOf, Tails DEF Note, Firmware, Inv, Noting
  <2>2. Core' /\ Untimed'
    BY <1>1, <2>1 DEF Noting, Core, Untimed
  <2>3. AskedFor'
    BY <1>1, <2>1 DEF Noting, AskedFor
  <2> QED  BY <2>1, <2>2, <2>3 DEF Progress, Signalling
<1>3. CASE Take
  <2>1. ipi' = FALSE /\ mip' = (IF ipi THEN mip \cup {SSI} ELSE mip) /\ Core /\ Untimed /\ fw' = Last
    <3>1. fw = Taking
      BY <1>3, RoutineOf DEF Take, Firmware, Inv
    <3> QED  BY <1>1, <1>3, <3>1, ProgressOf, Tails DEF Take, Firmware, Inv, Signalling
  <2>2. STI \in mip' <=> STI \in mip
    BY <2>1 DEF STI, SSI
  <2>3. Core' /\ Untimed' /\ Noted'
    BY <1>1, <2>1, <2>2 DEF Core, Untimed, Noted
  <2>4. AskedFor'
    BY <1>1, <2>1 DEF Inv, AskedFor
  <2> QED  BY <2>1, <2>3, <2>4 DEF Progress, Returning, Untimed
<1> QED  BY <1>2, <1>3

LEMMA GoingBack ==
  ASSUME Inv, Return
  PROVE  Progress' /\ AskedFor' /\ (Careful => (Promise!Answer \/ Promise!Pass))
<1>1. /\ fw' = <<>> /\ since' = None /\ Returning
      /\ event' = (IF since = None THEN None ELSE <<"time", hi * Base + lo>>)
      /\ UNCHANGED <<mtime, mtimecmp, msip, mtie, mip, hi, lo, ipi, due, asked>>
  BY ProgressOf DEF Return, Firmware, clint, Inv
<1>2. Core' /\ Noted' /\ Untimed' /\ AskedFor'
  BY <1>1 DEF Returning, Core, Noted, Untimed, AskedFor, Inv
<1>3. Progress'
  BY <1>1, <1>2 DEF Progress, Resting
<1>4. mtime \in 0 .. MaxTime /\ mtime \in Nat /\ hi * Base + lo \in Nat
      /\ (since # None => since \in Nat)
  BY TimesAreNat DEF Inv, TypeOK
<1>5. CASE since = None
  <2>1. Promise!Pass
    BY <1>1, <1>4, <1>5, MaxTimeIsTime DEF Promise!Pass, Promise!Tick
  <2> QED  BY <1>2, <1>3, <2>1
<1>6. CASE since # None
  <2>1. Careful => hi * Base + lo \in since .. mtime
    BY <1>1, <1>4, <1>6 DEF Returning, Answered
  <2>2. event' = <<"time", hi * Base + lo>>
    BY <1>1, <1>6
  <2>3. Careful => \E t \in (IF since = None THEN mtime ELSE since) .. mtime : event' = <<"time", t>>
    BY <1>6, <2>1, <2>2
  <2>4. Careful => Promise!Answer
    BY <1>1, <2>3 DEF Promise!Answer
  <2> QED  BY <1>2, <1>3, <2>4
<1> QED  BY <1>5, <1>6

LEMMA FirmwareStep ==
  ASSUME Inv, RunFirmware
  PROVE  /\ Inv'
         /\ \/ Careful => (Promise!Answer \/ Promise!Pass)
            \/ UNCHANGED Promise!vars
<1>1. TypeOK' /\ Routine'
  BY FirmwareTypes DEF Inv
<1>2. Progress' /\ AskedFor'
  BY StoringAlarm, StoringMsip, WritingMtie, WritingStip, LoadingMtime, ReadingTwice, NotingAndTaking,
     GoingBack DEF RunFirmware
<1>3. ~ Return => UNCHANGED <<mtime, due, asked, since, event>>
  BY DEF RunFirmware, StoreMtimecmp, WriteMsip, WriteMtie, WriteStip, LoadMtime, LoadAgain, Note, Take,
         Firmware, Goes, StoreCmp, StoreMsip, clint
<1> QED  BY <1>1, <1>2, <1>3, GoingBack DEF Inv, Promise!vars

-----------------------------------------------------------------------------
(* The whole *)

LEMMA InvInit == Init => Inv
<1> SUFFICES ASSUME Init PROVE Inv
  OBVIOUS
<1>1. TypeOK /\ Routine
  BY TypesInit
<1>2. Progress
  BY DEF Init, Progress, Resting, Core, Noted, Untimed
<1>3. AskedFor
  BY DEF Init, AskedFor
<1> QED  BY <1>1, <1>2, <1>3 DEF Inv

LEMMA InvNext ==
  ASSUME Steady, Inv, [Next]_vars PROVE Inv'
<1>1. CASE Poll
  BY <1>1, PollStep
<1>2. CASE RunFirmware
  BY <1>2, FirmwareStep
<1>3. CASE RunKernel
  BY <1>3, KernelStep
<1>4. CASE UNCHANGED vars
  BY <1>4 DEF vars, clint, firmware, kernel, Inv, TypeOK, Routine, Progress, Resting, Returning, Setting,
     SettingUpper, Arming, Arming2, Expired, Expired2, Noting, Signalling, ReadingUpper, ReadingLower,
     ReadingAgain, ReadingWhole, AskedFor, Asking, Answered, Core, Noted, Untimed
<1> QED  BY <1>1, <1>2, <1>3, <1>4 DEF Next

LEMMA ArmedAtRest == Inv => AlarmIsArmed
BY ProgressAtRest DEF Inv, AlarmIsArmed, Core

(* While the firmware is at rest no alarm is lost and none is pending that
   was not set or is not due, for words of any width, whatever the order of
   ticks, interrupts and instructions, if the host's clock never goes back
   (ClintDevice::tick and store, get_pending_interrupt). *)
THEOREM AlarmsAreArmed == Steady => (Spec => []AlarmIsArmed)
<1> SUFFICES ASSUME Steady PROVE Spec => []AlarmIsArmed
  OBVIOUS
<1>1. Init => Inv
  BY InvInit
<1>2. Inv /\ [Next]_vars => Inv'
  BY InvNext
<1>3. Inv => AlarmIsArmed
  BY ArmedAtRest
<1> QED  BY <1>1, <1>2, <1>3, PTL DEF Spec

LEMMA StepRefines ==
  ASSUME Steady, Careful, Inv, [Next]_vars PROVE [Promise!Next]_(Promise!vars)
<1>1. CASE Poll
  BY <1>1, PollStep DEF Promise!Next
<1>2. CASE RunFirmware
  BY <1>2, FirmwareStep DEF Promise!Next
<1>3. CASE RunKernel
  BY <1>3, KernelStep DEF Promise!Next
<1>4. CASE UNCHANGED vars
  BY <1>4 DEF vars, clint, kernel, Promise!vars
<1> QED  BY <1>1, <1>2, <1>3, <1>4 DEF Next

(* The CLINT, the poll of the hart and firmware that reads the clock by
   words give a kernel what Alarm promises: an alarm rings once and never
   early, a signal comes only for what was asked since the last, and the time
   that is read lies between the question and the answer. *)
THEOREM PromiseIsKept == Steady /\ Careful => (Spec => AlarmSpec)
<1> SUFFICES ASSUME Steady, Careful PROVE Spec => AlarmSpec
  OBVIOUS
<1>1. Init => Inv /\ Promise!Init
  BY InvInit DEF Init, Promise!Init
<1>2. Inv /\ [Next]_vars => Inv'
  BY InvNext
<1>3. Inv /\ [Next]_vars => [Promise!Next]_(Promise!vars)
  BY StepRefines
<1> QED  BY <1>1, <1>2, <1>3, PTL DEF Spec, AlarmSpec, Promise!Spec
=============================================================================
