------------------------------ MODULE VamTime -------------------------------
(***************************************************************************)
(* The times of vam_time.h: absolute times, unsigned numbers of            *)
(* microseconds that wrap, relative times, signed, and their conversions.  *)
(* Words have TimeBits bits instead of 64, seconds of NTP time SecBits     *)
(* instead of 32, its fractions FracBits instead of 32, a unit is Kilo of  *)
(* the next smaller instead of 1000, and the fixed-point factors of the    *)
(* 90 kHz clock have smaller shifts.  A case is a choice of operands, to   *)
(* which the next step adds the results.                                   *)
(***************************************************************************)
EXTENDS Integers

CONSTANTS
  TimeBits, SecBits, FracBits, Kilo,
  Epoch,                 \* SYSTEM_EPOCH_TO_NTP_EPOCH
  PCR_TO_USEC_SHIFT, USEC_TO_PCR_SHIFT,
  PcrRange,              \* clock tics that are converted
  Factors                \* integers that times are multiplied and divided by

VARIABLE tcase

Word == 2 ^ TimeBits
AbsTimes == 0..(Word - 1)
RelTimes == (-(Word \div 2))..(Word \div 2 - 1)
AsUnsigned(x) == x % Word                                        \* stored unsigned
AsSigned(x) == LET u == x % Word                                 \* stored signed
               IN  IF u >= Word \div 2 THEN u - Word ELSE u
Mega == Kilo * Kilo
\* C's division truncates towards 0.
Quot(a, b) == LET q == (IF a < 0 THEN -a ELSE a) \div (IF b < 0 THEN -b ELSE b)
              IN  IF (a < 0) = (b < 0) THEN q ELSE -q

-----------------------------------------------------------------------------
(* Absolute times.                                                         *)

tod_to_ntp_NoEpoch(tv) == [upper |-> tv.sec % 2 ^ SecBits, lower |-> (tv.usec * 2 ^ FracBits) \div Mega]

\* The floating-point products are exact, so these are the whole parts.
tod_to_ntp(tv) == [upper |-> (tv.sec + Epoch) % 2 ^ SecBits, lower |-> (tv.usec * 2 ^ FracBits) \div Mega]
ntp_to_tod(ntp) == [sec |-> (ntp.upper - Epoch) % 2 ^ SecBits, usec |-> (ntp.lower * Mega) \div 2 ^ FracBits]
\* The zero time when the clock cannot be read.
get_ntp_time(ok, tv) == IF ok THEN tod_to_ntp(tv) ELSE [upper |-> 0, lower |-> 0]

sec_to_abs_time(sec) == AsUnsigned(Mega * sec)
msec_to_abs_time(msec) == AsUnsigned(Kilo * msec)
usec_to_abs_time(usec) == usec
nsec_to_abs_time(nsec) == nsec \div Kilo
timeval_to_abs_time(tv) == AsUnsigned(tv.sec * Mega + tv.usec)
ntp_to_abs_time(ntp) == timeval_to_abs_time(ntp_to_tod(ntp))
get_sys_time(tv) == timeval_to_abs_time(tv)

abs_time_to_sec(t) == t \div Mega
abs_time_to_msec(t) == t \div Kilo
abs_time_to_usec(t) == t
abs_time_to_nsec(t) == AsUnsigned(t * Kilo)
abs_time_to_timeval(t) == [sec |-> t \div Mega, usec |-> t - (t \div Mega) * Mega]
abs_time_to_ntp(t) == tod_to_ntp(abs_time_to_timeval(t))

abs_time_cmp(t0, t1) ==
  [lt |-> t0 < t1, gt |-> t0 > t1, le |-> t0 <= t1, ge |-> t0 >= t1, eq |-> t0 = t1, ne |-> t0 # t1]

-----------------------------------------------------------------------------
(* Relative times.                                                         *)

sec_to_rel_time(sec) == AsSigned(Mega * sec)
msec_to_rel_time(msec) == AsSigned(Kilo * msec)
usec_to_rel_time(usec) == usec
nsec_to_rel_time(nsec) == Quot(nsec, Kilo)
timeval_to_rel_time(tv) == AsSigned(tv.sec * Mega + tv.usec)
rel_time_to_sec(t) == Quot(t, Mega)
rel_time_to_msec(t) == Quot(t, Kilo)
rel_time_to_usec(t) == t
rel_time_to_nsec(t) == AsSigned(t * Kilo)
rel_time_to_timeval(t) == [sec |-> Quot(t, Mega), usec |-> t - Quot(t, Mega) * Mega]
rel_time_cmp(t0, t1) ==
  [lt |-> t0 < t1, gt |-> t0 > t1, le |-> t0 <= t1, ge |-> t0 >= t1, eq |-> t0 = t1, ne |-> t0 # t1]

\* Tics of 100/9 microseconds, by fixed-point factors; a shift right of a
\* negative number rounds down.  The inverse multiplies as unsigned.
PCR_TO_USEC_MULT == (100 * 2 ^ PCR_TO_USEC_SHIFT) \div 9
USEC_TO_PCR_MULT == (9 * 2 ^ USEC_TO_PCR_SHIFT) \div 100
pcr_to_rel_time(pcr) == (pcr * PCR_TO_USEC_MULT) \div 2 ^ PCR_TO_USEC_SHIFT
UnsignedExcess == 2 ^ 20     \* 2^64 >> USEC_TO_PCR_SHIFT
rel_time_to_pcr(t) ==
  ((t * USEC_TO_PCR_MULT) \div 2 ^ USEC_TO_PCR_SHIFT) + (IF t < 0 THEN UnsignedExcess ELSE 0)

-----------------------------------------------------------------------------
(* Arithmetic.                                                             *)

abs_plus_rel_time(t, r) == AsUnsigned(t + r)
abs_minus_rel_time(t, r) == AsUnsigned(t - r)
abs_minus_abs_time(t0, t1) == AsSigned(t0 - t1)
rel_plus_rel_time(r0, r1) == AsSigned(r0 + r1)
rel_minus_rel_time(r0, r1) == AsSigned(r0 - r1)
rel_time_neg(r) == AsSigned(-r)
TIME_ABS_R(r) == IF r < 0 THEN rel_time_neg(r) ELSE r
rel_time_mult_int(r, f) == AsSigned(r * f)
rel_time_mult_double(r, num, den) == Quot(r * num, den)     \* the factor is num/den
rel_time_div_int(r, d) == Quot(r, d)
rel_div_rel_time(r0, r1) == Quot(r0, r1)
rel_mod_rel_time(r0, r1) == AsSigned(r0 - Quot(r0, r1) * r1)
rel_time_lshift(r, shift) == AsSigned(r * 2 ^ shift)
rel_time_rshift(r, shift) == r \div 2 ^ shift
IS_ABS_TIME_ZERO(t) == abs_time_cmp(t, 0).eq

-----------------------------------------------------------------------------
\* A word has a sign bit; the fractions of an NTP second are finer than the
\* microseconds; "pcr small", says the comment at the fixed-point factors, and
\* the shifts are large enough for that.
ASSUME WordAssumption ==
  Word \in Nat \ {0} /\ Word % 2 = 0 /\ Kilo \in Nat \ {0} /\ Factors \subseteq Int \ {0} /\ 2 ^ 1 = 2
ASSUME NtpAssumption == 2 ^ SecBits \in Nat \ {0} /\ 2 ^ FracBits \in Nat /\ Mega <= 2 ^ FracBits /\ Epoch \in Nat
ASSUME PcrAssumption ==
  /\ {2 ^ PCR_TO_USEC_SHIFT, 2 ^ USEC_TO_PCR_SHIFT} \subseteq Nat \ {0} /\ UnsignedExcess \in Nat
  /\ \A p \in PcrRange : /\ p \in Int /\ p <= 2 ^ PCR_TO_USEC_SHIFT /\ 14 * p <= 2 ^ USEC_TO_PCR_SHIFT
                        /\ -(8 * p) < 2 ^ PCR_TO_USEC_SHIFT /\ 2 - p < UnsignedExcess

NoTimes == [op |-> "idle", a |-> 0, b |-> 0, done |-> FALSE, out |-> 0]
TimeIdle == tcase = NoTimes
TimeInit ==
  \/ \E t \in AbsTimes, r \in RelTimes : tcase = [NoTimes EXCEPT !.op = "abs", !.a = t, !.b = r]
  \/ \E r0, r1 \in RelTimes : tcase = [NoTimes EXCEPT !.op = "rel", !.a = r0, !.b = r1]
  \/ \E p \in PcrRange : tcase = [NoTimes EXCEPT !.op = "pcr", !.a = p]

AbsResults(t, r) ==
  [plus |-> abs_plus_rel_time(t, r), minus |-> abs_minus_rel_time(t, r),
   diff |-> abs_minus_abs_time(abs_plus_rel_time(t, r), t),
   later |-> abs_time_cmp(t, abs_plus_rel_time(t, r)).lt,
   tv |-> timeval_to_abs_time(abs_time_to_timeval(t)), ntp |-> ntp_to_abs_time(abs_time_to_ntp(t)),
   clock |-> ntp_to_abs_time(get_ntp_time(TRUE, abs_time_to_timeval(t))),
   sys |-> get_sys_time(abs_time_to_timeval(t)),
   sec |-> sec_to_abs_time(abs_time_to_sec(t)), msec |-> msec_to_abs_time(abs_time_to_msec(t)),
   usec |-> usec_to_abs_time(abs_time_to_usec(t)), nsec |-> nsec_to_abs_time(abs_time_to_nsec(t)),
   zero |-> IS_ABS_TIME_ZERO(t)]
RelResults(r0, r1) ==
  [sum |-> rel_plus_rel_time(r0, r1), diff |-> rel_minus_rel_time(r0, r1), neg |-> rel_time_neg(r0),
   abs |-> TIME_ABS_R(r0), lt |-> rel_time_cmp(r0, r1).lt,
   div |-> IF r1 = 0 THEN 0 ELSE rel_div_rel_time(r0, r1),
   mod |-> IF r1 = 0 THEN 0 ELSE rel_mod_rel_time(r0, r1),
   tv |-> timeval_to_rel_time(rel_time_to_timeval(r0)),
   sec |-> sec_to_rel_time(rel_time_to_sec(r0)), msec |-> msec_to_rel_time(rel_time_to_msec(r0)),
   usec |-> usec_to_rel_time(rel_time_to_usec(r0)), nsec |-> nsec_to_rel_time(rel_time_to_nsec(r0)),
   back |-> [f \in Factors |-> rel_time_div_int(rel_time_mult_int(r0, f), f)],
   half |-> rel_time_mult_double(r0, 1, 2), shift |-> rel_time_rshift(rel_time_lshift(r0, 1), 1)]
PcrResults(p) == [usec |-> pcr_to_rel_time(p), back |-> rel_time_to_pcr(pcr_to_rel_time(p))]

TimeNext ==
  /\ tcase.op # "idle" /\ ~tcase.done
  /\ tcase' = [tcase EXCEPT !.done = TRUE, !.out =
       CASE tcase.op = "abs" -> AbsResults(tcase.a, tcase.b)
         [] tcase.op = "rel" -> RelResults(tcase.a, tcase.b)
         [] tcase.op = "pcr" -> PcrResults(tcase.a)]

TimeSpec == TimeInit /\ [][TimeNext]_tcase

-----------------------------------------------------------------------------
\* Absolute times wrap, and still differences are right: what is added comes
\* back when the old time is subtracted from the new, for offsets of either
\* sign and across the wrap; the new time compares as later exactly when no
\* wrap came between.  A timeval gives the time back, coarser units the unit
\* below it, NTP at most one microsecond less while its seconds do not wrap.
TimesAgree ==
  /\ tcase.op = "abs" /\ tcase.done =>
       LET t == tcase.a
           r == tcase.b
           o == tcase.out
       IN  /\ o.diff = r /\ abs_plus_rel_time(o.minus, r) = t
           /\ t + r \in AbsTimes => (o.later <=> r > 0)
           /\ o.tv = t /\ o.sys = t /\ o.usec = t
           /\ t < 2 ^ SecBits * Mega => o.ntp \in {t - 1, t} /\ o.clock = o.ntp
           /\ t - o.sec \in 0..(Mega - 1) /\ t - o.msec \in 0..(Kilo - 1)
           /\ t * Kilo < Word => o.nsec = t
           /\ o.zero <=> t = 0
  /\ tcase.op = "rel" /\ tcase.done =>
       LET a == tcase.a
           b == tcase.b
           o == tcase.out
       IN  /\ a + b \in RelTimes => o.sum = a + b /\ rel_minus_rel_time(o.sum, b) = a
           /\ a - b \in RelTimes => (o.lt <=> o.diff < 0)
           /\ -a \in RelTimes => o.neg = -a /\ o.abs \in {a, -a} /\ o.abs >= 0
           /\ b # 0 /\ Quot(a, b) \in RelTimes =>
                /\ o.div * b + o.mod = a
                /\ o.mod * a >= 0 /\ TIME_ABS_R(o.mod) < (IF b < 0 THEN -b ELSE b)
           /\ o.tv = a /\ o.usec = a
           /\ Quot(a, Kilo) * Kilo = o.msec /\ o.msec * a >= 0 /\ o.sec * a >= 0
           /\ a * Kilo \in RelTimes => o.nsec = a
           /\ \A f \in Factors : a * f \in RelTimes => o.back[f] = a
           /\ 2 * a \in RelTimes => o.shift = a
           /\ o.half = Quot(a, 2)
  /\ tcase.op = "pcr" /\ tcase.done =>
       /\ tcase.out.usec - ((100 * tcase.a) \div 9) \in {-1, 0}
       /\ tcase.a >= 0 => tcase.a - tcase.out.back \in 0..1
       /\ tcase.a < 0 => tcase.out.back > 0
=============================================================================
