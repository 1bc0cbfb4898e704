--------------------------- MODULE IntensityHdf5File ---------------------------
(***************************************************************************)
(* intensity_hdf5_ofile and intensity_hdf5_file: intensities appended,     *)
(* chunk by chunk, to three extendable datasets of an HDF5 file, and read  *)
(* back.  The datasets grow one after the other, each in two calls of the  *)
(* library, and each call may fail; the caller may then close the file or  *)
(* try again.                                                              *)
(*                                                                         *)
(* Times are integers, Dt to a sample, so that a drift of one hundredth of *)
(* a sample is an integer as well.  An intensity or weight array has the   *)
(* index (ifreq * npol + ipol) * nt + it, as in memory.  In a dataset it   *)
(* is a sequence of columns, one for each time sample.                     *)
(***************************************************************************)
EXTENDS Integers, Sequences, FiniteSets, FiniteSetsExt

CONSTANTS
  Arguments,     \* of the constructor: records of nfreq, pol, freq0, freq1 and bitshuffle
  Dt,            \* dt_sample, and 1 is the smallest difference of times
  Lengths,       \* the values of nt_chunk
  Gaps,          \* the samples left out before a chunk; negative: the chunks overlap
  Drifts,        \* by how much the clock of the caller may be off
  WeightOf(_, _),   \* (pattern, index): the weights of a chunk
  Patterns,
  IntensityOf(_, _),   \* (index of a column, sample_ipos)
  MaxChunks, MaxFailures   \* bounds: calls of append_chunk(), calls of the library that fail

ASSUME Hdf5Assumption ==
  /\ Dt \in Nat \ {0}
  /\ \A a \in Arguments :
       /\ a.nfreq \in Int /\ a.freq0 \in Int /\ a.freq1 \in Int
       /\ a.pol \in Seq(STRING)
       /\ a.nfreq > 0 => (a.freq1 - a.freq0) % a.nfreq = 0   \* frequencies have a unit
  /\ Lengths \subseteq Int /\ Gaps \subseteq Int /\ Drifts \subseteq Int
  /\ \E longest \in Lengths : \A nt \in Lengths : nt <= longest
  /\ MaxChunks \in Nat /\ MaxFailures \in Nat

Datasets == <<"time", "intensity", "weight">>

VARIABLES
  args,         \* what the constructor was given
  step,         \* where the writer is: "new", "ready", a call <<name, dataset>>, "closed"
  chunk,        \* the arguments of the append_chunk() in progress
  file,         \* [dataset -> sequence of columns], what is in the file
  curr_shape,   \* [dataset -> Nat]: what each dataset object takes its length for
  writer,       \* curr_nt, curr_time, curr_ipos, initial_ipos, wsum, wmax
  reader,       \* what the file was read as, once it was
  appended,     \* the chunks accepted and written, a history
  calls, failures, refused   \* counts: appends, failed calls, chunks refused for a negative weight

fileVars == <<file, curr_shape>>
counters == <<calls, failures, refused>>
vars == <<args, step, chunk, fileVars, writer, reader, appended, counters>>

Width == args.nfreq * Len(args.pol)

(* f[0] + ... + f[n - 1]. *)
SumOf(n, f) ==
  LET sum[k \in Nat] == IF k = 0 THEN 0 ELSE sum[k - 1] + f[k - 1] IN sum[n]
Abs(x) == IF x < 0 THEN -x ELSE x

NoChunk == [nt |-> 0, ipos |-> 0, t0 |-> 0, pattern |-> 0]

-----------------------------------------------------------------------------
(* The writer.                                                             *)

Init ==
  /\ args \in Arguments
  /\ step = <<"new">> /\ chunk = NoChunk
  /\ file = [d \in {} |-> <<>>] /\ curr_shape = [d \in {} |-> 0]
  /\ writer = [curr_nt |-> 0, curr_time |-> 0, curr_ipos |-> 0, initial_ipos |-> 0,
               wsum |-> 0, wmax |-> 0]
  /\ reader = {} /\ appended = <<>>
  /\ calls = 0 /\ failures = 0 /\ refused = 0

ValidArguments ==
  /\ args.nfreq > 0
  /\ args.pol # <<>>
  /\ args.bitshuffle \in 0 .. 3
  /\ \A i \in DOMAIN args.pol :
       /\ args.pol[i] \in {"XX", "YY"}
       /\ \A j \in 1 .. i - 1 : args.pol[i] # args.pol[j]

freq == [i \in 0 .. args.nfreq - 1 |->
           (i * args.freq1 + (args.nfreq - i) * args.freq0) \div args.nfreq]

(* The constructor; with bitshuffle = 3 it fails where the plugin for      *)
(* compression is missing, and leaves a file without the other datasets.   *)
Construct ==
  /\ step = <<"new">>
  /\ \E plugin \in BOOLEAN :
       LET made == IF ~ValidArguments THEN {}
                   ELSE IF args.bitshuffle = 3 /\ ~plugin THEN {"time"}
                   ELSE {"time", "intensity", "weight"}
       IN  /\ file' = [d \in made |-> <<>>]
           /\ curr_shape' = [d \in made |-> 0]
           /\ step' = IF Cardinality(made) = 3 THEN <<"ready">> ELSE <<"closed">>
  /\ UNCHANGED <<args, chunk, writer, reader, appended, counters>>

(* mutant: a sample too early. *)
ExpectedUnadvanced(ipos) == writer.curr_time + Dt * (ipos - writer.curr_ipos) - Dt
Expected(ipos) == writer.curr_time + Dt * (ipos - writer.curr_ipos)

Follows(c) ==
  writer.curr_nt > 0 =>
    /\ c.ipos >= writer.curr_ipos
    /\ 100 * Abs(c.t0 - Expected(c.ipos)) <= Dt

(* append_chunk(), up to the first write.  A chunk with negative weights   *)
(* is refused only after its weights were counted.                         *)
InitialIposAlways(w, c) == c.ipos                   \* mutant: set by every chunk
InitialIpos(w, c) == IF w.curr_nt = 0 THEN c.ipos ELSE w.initial_ipos

WithWeights(w, c) ==
  LET n == Width * c.nt
      weights == [i \in 0 .. n - 1 |-> WeightOf(c.pattern, i)]
  IN  [w EXCEPT !.initial_ipos = InitialIpos(w, c),
                !.wsum = @ + SumOf(n, weights),
                !.wmax = Max({@} \union {weights[i] : i \in 0 .. n - 1})]

HasNegativeWeight(c) == \E i \in 0 .. Width * c.nt - 1 : WeightOf(c.pattern, i) < 0

AppendChunk(nt, ipos, t0, pattern) ==
  LET c == [nt |-> nt, ipos |-> ipos, t0 |-> t0, pattern |-> pattern]
  IN  /\ step = <<"ready">>
      /\ calls < MaxChunks
      /\ nt > 0
      /\ calls' = calls + 1
      /\ \/ /\ ~Follows(c)
            /\ UNCHANGED <<step, chunk, writer, refused>>
         \/ /\ Follows(c) /\ HasNegativeWeight(c)
            /\ writer' = WithWeights(writer, c)
            /\ refused' = refused + 1
            /\ UNCHANGED <<step, chunk>>
         \/ /\ Follows(c) /\ ~HasNegativeWeight(c)
            /\ writer' = WithWeights(writer, c)
            /\ chunk' = c
            /\ step' = <<"extend", 1>>
            /\ UNCHANGED refused
      /\ UNCHANGED <<args, fileVars, reader, appended, failures>>

(* The caller gives a time of its clock, or none. *)
AppendTimed(nt, gap, drift, pattern) ==
  LET ipos == writer.curr_ipos + gap IN AppendChunk(nt, ipos, Dt * ipos + drift, pattern)
AppendUntimed(nt, gap, pattern) ==
  LET ipos == writer.curr_ipos + gap IN AppendChunk(nt, ipos, Expected(ipos), pattern)

(* The column of dataset d for sample it of chunk c. *)
Column(c, d, it) ==
  IF d = "time" THEN c.t0 + it * Dt
  ELSE [k \in 0 .. Width - 1 |->
          IF d = "weight" THEN WeightOf(c.pattern, k * c.nt + it)
                          ELSE IntensityOf(k, c.ipos + it)]
FillValue(d) == IF d = "time" THEN 0 ELSE [k \in 0 .. Width - 1 |-> 0]

(* hdf5_extendable_dataset::write(): the dataset gets the length           *)
(* curr_shape + nt, then its new columns.  curr_shape grows only at the    *)
(* end.                                                                    *)
LengthAfter(n) == n + chunk.nt

Extend ==
  /\ step[1] = "extend"
  /\ LET d == Datasets[step[2]]
         n == LengthAfter(curr_shape[d])
     IN  file' = [file EXCEPT ![d] =
                    [i \in 1 .. n |-> IF i <= Len(file[d]) THEN file[d][i] ELSE FillValue(d)]]
  /\ step' = <<"write", step[2]>>
  /\ UNCHANGED <<args, chunk, curr_shape, writer, reader, appended, counters>>

WithColumns(d) ==
  [i \in 1 .. Len(file[d]) |->
     IF i \in curr_shape[d] + 1 .. curr_shape[d] + chunk.nt
     THEN Column(chunk, d, i - curr_shape[d] - 1) ELSE file[d][i]]

Write ==
  /\ step[1] = "write"
  /\ LET d == Datasets[step[2]] IN
       /\ file' = [file EXCEPT ![d] = WithColumns(d)]
       /\ curr_shape' = [curr_shape EXCEPT ![d] = LengthAfter(@)]
  /\ IF step[2] < 3
     THEN step' = <<"extend", step[2] + 1>> /\ UNCHANGED <<chunk, writer, appended>>
     ELSE /\ step' = <<"ready">>
          /\ writer' = [writer EXCEPT !.curr_nt = @ + chunk.nt,
                                      !.curr_ipos = chunk.ipos + chunk.nt,
                                      !.curr_time = chunk.t0 + chunk.nt * Dt]
          /\ appended' = Append(appended, chunk)
          /\ chunk' = NoChunk
  /\ UNCHANGED <<args, reader, counters>>

(* A call of the library fails: an exception leaves append_chunk(). *)
CallFails ==
  /\ step[1] \in {"extend", "write"}
  /\ failures < MaxFailures
  /\ failures' = failures + 1
  /\ step' = <<"ready">> /\ chunk' = NoChunk
  /\ UNCHANGED <<args, fileVars, writer, reader, appended, calls, refused>>

Close ==
  /\ step = <<"ready">>
  /\ step' = <<"closed">>
  /\ UNCHANGED <<args, chunk, fileVars, writer, reader, appended, counters>>

-----------------------------------------------------------------------------
(* The reader: each part yields what it reads or throws.                   *)

(* _init_frequencies(): the band, whose upper end is one channel behind    *)
(* the last frequency, if the frequencies are equally spaced.              *)
BandOf(f, n) ==
  LET span == f[n - 1] - f[0]
      nu_lo == f[0]
      nu_hi == f[n - 1] + span \div (n - 1)
      Expect(i) == (n - i) * nu_lo + i * nu_hi                 \* times n
  IN  [valid |-> nu_lo # nu_hi /\ \A i \in 0 .. n - 1 : Expect(i) = n * f[i],
       lo |-> IF nu_lo < nu_hi THEN nu_lo ELSE nu_hi,
       hi |-> IF nu_lo < nu_hi THEN nu_hi ELSE nu_lo,
       increasing |-> nu_lo < nu_hi]

(* _init_times(): the logical sample of each sample in the file, in units  *)
(* of the smallest step.  (Gaps of a million samples are refused as well.) *)
Steps(dt, dt_p) == (2 * dt + dt_p) \div (2 * dt_p)

TimesOf(times) ==
  LET n == Len(times)
      diff == [i \in 1 .. n - 1 |-> times[i + 1] - times[i]]
      dt_p == Min({diff[i] : i \in DOMAIN diff})
      steps == [i \in 0 .. n - 2 |-> Steps(diff[i + 1], dt_p)]
      even(i) == 100 * Abs(diff[i] - Steps(diff[i], dt_p) * dt_p) <= dt_p
  IN  IF n < 2 \/ dt_p <= 0 \/ \E i \in DOMAIN diff : ~even(i)
      THEN [valid |-> FALSE]
      ELSE [valid |-> TRUE, nt_file |-> n, dt_p |-> dt_p,
            time_index_mapping |-> [i \in 0 .. n - 1 |-> SumOf(i, steps)],
            nt_logical |-> SumOf(n - 1, steps) + 1,
            time_lo |-> times[1], time_hi |-> times[n] + dt_p]

(* read_dataset(): the columns in the order of memory. *)
Flat(columns) ==
  LET n == Len(columns)
  IN  [i \in 0 .. Width * n - 1 |-> columns[(i % n) + 1][i \div n]]

Loaded ==
  LET band  == BandOf(freq, args.nfreq)
      times == TimesOf(file["time"])
      n == Len(file["time"])
      weights == Flat(file["weight"])
      size == Width * n
  IN  IF \/ args.nfreq < 2 \/ ~band.valid
         \/ Len(args.pol) \notin 1 .. 2
         \/ DOMAIN file # {"time", "intensity", "weight"}
         \/ ~times.valid
         \/ Len(file["intensity"]) # n \/ Len(file["weight"]) # n
         \/ \E i \in 0 .. size - 1 : weights[i] < 0
      THEN {}
      ELSE {[band |-> band, times |-> times,
             intensity |-> Flat(file["intensity"]), weights |-> weights,
             wsum |-> SumOf(size, weights),
             wmax |-> Max({weights[i] : i \in 0 .. size - 1})]}

Read ==
  /\ step = <<"closed">>
  /\ step' = <<"read">>
  /\ reader' = IF DOMAIN file = {} THEN {} ELSE Loaded
  /\ UNCHANGED <<args, chunk, fileVars, writer, appended, counters>>

(* get_unpolarized_intensity(): the polarizations added, for the logical   *)
(* samples out_t0 .. out_t0 + out_nt - 1; an intensity is the quotient     *)
(* sum / weight, or 0 where the weight is.                                 *)
Stride(npol, nt_file) == npol * nt_file
FirstPolarization(npol) == {0}                       \* mutant: one polarization only
Polarizations(npol) == 0 .. npol - 1

get_unpolarized_intensity(f, ifreq, out_t0, out_nt) ==
  LET npol == Len(args.pol)
      n == f.times.nt_file
      at(ipol, it) == ipol * n + it + ifreq * Stride(npol, n)
      inFile(it_l) == {it \in 0 .. n - 1 : f.times.time_index_mapping[it] = it_l}
      products == [i \in DOMAIN f.weights |-> f.intensity[i] * f.weights[i]]
      Added(it_l, terms) ==
        LET here == inFile(it_l)
        IN  SumOf(npol * n, [k \in 0 .. npol * n - 1 |->
              IF k % n \in here /\ k \div n \in Polarizations(npol)
              THEN terms[at(k \div n, k % n)] ELSE 0])
  IN  [it \in 0 .. out_nt - 1 |->
         [sum    |-> Added(out_t0 + it, products),
          weight |-> Added(out_t0 + it, f.weights)]]

Done == step = <<"read">> /\ UNCHANGED vars

Next ==
  \/ Construct
  \/ \E nt \in Lengths, gap \in Gaps, pattern \in Patterns :
       AppendUntimed(nt, gap, pattern) \/ \E drift \in Drifts : AppendTimed(nt, gap, drift, pattern)
  \/ Extend \/ Write \/ CallFails
  \/ Close \/ Read \/ Done

Spec == Init /\ [][Next]_vars

-----------------------------------------------------------------------------
(* Properties.                                                             *)

(* The samples of the chunks that were appended, in their order. *)
AppendedCount ==
  SumOf(Len(appended), [k \in 0 .. Len(appended) - 1 |-> appended[k + 1].nt])
Samples ==
  {[ipos |-> appended[k].ipos + it, time |-> appended[k].t0 + it * Dt, k |-> k, it |-> it] :
     k \in DOMAIN appended, it \in 0 .. Max(Lengths) - 1}
Real(s) == s.it < appended[s.k].nt
WeightAt(s, ifreq, ipol) ==
  WeightOf(appended[s.k].pattern, (ifreq * Len(args.pol) + ipol) * appended[s.k].nt + s.it)

(* A file that can be read is read as what was appended, whatever failed   *)
(* in between: each logical sample with a weight holds the weighted sum of *)
(* the polarizations of one sample that was appended, and that at its      *)
(* time; each sample appended is there.  A write that failed half-way      *)
(* makes the file unreadable or its last chunk masked, never displaced     *)
(* (get_unpolarized_intensity() is compared with a reference in            *)
(* intensity_hdf5_file::run_unit_tests(), for whole files).                *)
AppendedAt(f, it_l) ==
  {s \in Samples : Real(s) /\ \E it \in 0 .. f.times.nt_file - 1 :
     f.times.time_index_mapping[it] = it_l /\ file["time"][it + 1] = s.time}

ReadAsAppended ==
  \A f \in reader :
    \A ifreq \in 0 .. args.nfreq - 1, t0 \in 0 .. 1 :
      LET nt == f.times.nt_logical - t0
          out == get_unpolarized_intensity(f, ifreq, t0, nt)
          npol == Len(args.pol)
      IN  \A it \in 0 .. nt - 1 :
            LET S == AppendedAt(f, t0 + it)
                weight(s) == SumOf(npol, [p \in 0 .. npol - 1 |-> WeightAt(s, ifreq, p)])
                sum(s) == SumOf(npol, [p \in 0 .. npol - 1 |->
                            WeightAt(s, ifreq, p) * IntensityOf(ifreq * npol + p, s.ipos)])
            IN  /\ Cardinality(S) <= 1
                /\ \A s \in S : out[it].weight = weight(s) /\ out[it].sum = sum(s)
                /\ S = {} => out[it].weight = 0

(* From one sample of a file to the next, the reader counts as many steps  *)
(* as there are positions between them, in some common unit of positions,  *)
(* up to an error of one in a hundred of the steps it counts: that is      *)
(* none below a hundred steps.  A longer gap may be counted a step too     *)
(* long or too short when the drift that append_chunk() tolerates is in    *)
(* the smallest step of the file, and no error tells; more it never is.    *)
IndexIsPosition ==
  \A f \in reader :
    LET mapping == f.times.time_index_mapping
        S == {s \in Samples : Real(s)}
        InColumn(s, it) == file["time"][it + 1] = s.time
        Near(steps, unit, positions) == 100 * Abs(steps * unit - positions) <= steps + unit + 1
    IN  /\ \A s \in S : \E it \in DOMAIN mapping : InColumn(s, it)
        /\ \E unit \in {1} \union {gap + 1 : gap \in Gaps} :
             /\ unit > 0
             /\ \A it \in DOMAIN mapping \ {0}, s, t \in S :
                  InColumn(s, it - 1) /\ InColumn(t, it) =>
                    Near(mapping[it] - mapping[it - 1], unit, t.ipos - s.ipos)

(* A file is readable if it has at least two frequencies that differ, two  *)
(* samples, no drift, no failed write, and steps that are multiples of the *)
(* smallest one (a file of single samples 2 and 3 apart is refused).  The  *)
(* summary the writer logs is then the one the reader computes, if no      *)
(* chunk was refused for its weights: the share of the samples that are    *)
(* there (where some of them are neighbours), the sum and the maximum of   *)
(* the weights.                                                            *)
StepsApart ==
  {1 : k \in {k \in DOMAIN appended : appended[k].nt > 1}} \union
  {appended[k + 1].ipos - (appended[k].ipos + appended[k].nt - 1) : k \in 1 .. Len(appended) - 1}
Commensurate == \E unit \in StepsApart : \A steps \in StepsApart : steps % unit = 0

Undamaged ==
  /\ failures = 0
  /\ \A k \in 2 .. Len(appended) :
       appended[k].t0 - appended[k - 1].t0 = Dt * (appended[k].ipos - appended[k - 1].ipos)

UndamagedReadsBack ==
  /\ step = <<"read">>
  /\ Undamaged /\ Commensurate
  /\ DOMAIN file = {"time", "intensity", "weight"}
  /\ args.nfreq >= 2 /\ args.freq0 # args.freq1 /\ AppendedCount >= 2
  => \E f \in reader :
       /\ f.times.nt_file = AppendedCount /\ AppendedCount = writer.curr_nt
       /\ f.band.increasing <=> args.freq0 < args.freq1
       /\ {f.band.lo, f.band.hi} = {args.freq0, args.freq1}
       /\ f.times.dt_p = Dt => f.times.nt_logical = writer.curr_ipos - writer.initial_ipos
       /\ refused = 0 => f.wsum = writer.wsum /\ f.wmax = writer.wmax
===============================================================================
