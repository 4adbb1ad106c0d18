----------------------- MODULE FlowOrchestrator_proofs -----------------------
(***************************************************************************)
(* Proofs that the artifacts a report advertises exist and that report,    *)
(* exit code and files agree, whichever and however many operations of the *)
(* run fail and whatever an earlier run left in the directory.             *)
(***************************************************************************)
EXTENDS FlowOrchestrator, LeastElements

\* A stage report of run_pipeline.
Result ==
    [stage : Stages, status : {"Success"},
     diagnostics : {<<>>} \cup {<<Warning(s)>> : s \in Stages},
     metrics : {TRUE}, artifacts : SUBSET Files]

FilesOf(i) == ArtifactsOf(FLOW_STAGES[i], options.emit_sidecar)

\* The stages are done in their order.
Done == Len(results)

ResultsInOrder ==
    /\ results \in Seq(Result) /\ Done \in 0 .. 6
    /\ \A i \in 1 .. Done : results[i].stage = FLOW_STAGES[i]

Types ==
    /\ options.emit_sidecar \in BOOLEAN
    /\ ResultsInOrder
    /\ DOMAIN disk = Files

\* Where the pipeline is.
Position ==
    /\ pc \in {"start", "load"} => Done = 0
    /\ pc \in {"stage", "lower"} => Done < 6
    /\ pc = "artifact" => Done > 0 /\ written \in 0 .. Len(FilesOf(Done)) - 1
    /\ pc = "report" => Done = 6
    /\ pc = "finish" => written \in 0 .. 2

\* The files of the stages that are done are on disk, and as many of the last
\* one as have been written.
ArtifactsOwn ==
    pc \in {"stage", "artifact", "lower", "report"} =>
        \A i \in 1 .. Done : \A k \in 1 .. Len(FilesOf(i)) :
            i < Done \/ pc # "artifact" \/ k <= written => disk[FilesOf(i)[k]] = "own"

\* What r says of the artifacts.
Borne(r) ==
    r # NoReport =>
        \A f \in r.artifacts \ ToSet(RunFiles) :
            /\ f \in Files /\ disk[f] # "absent"
            /\ r.status = "Success" => disk[f] = "own"

\* Nothing is reported before the pipeline has ended, and then the truth.
ReportsBorne ==
    /\ pc \notin {"finish", "done"} => report = NoReport /\ published = NoReport
    /\ Borne(report) /\ Borne(published)

FlowInv == Types /\ Position /\ ArtifactsOwn /\ ReportsBorne

-----------------------------------------------------------------------------
LEMMA EntryReplaced ==
    ASSUME NEW S, NEW s \in Seq(S), NEW n \in 1 .. 6, n = Len(s)
    PROVE  /\ s[n] \in S
           /\ \A x \in S : /\ [s EXCEPT ![n] = x] \in Seq(S)
                           /\ Len([s EXCEPT ![n] = x]) = n
                           /\ \A k \in 1 .. n : [s EXCEPT ![n] = x][k] = IF k = n THEN x ELSE s[k]
OBVIOUS

LEMMA StageNames ==
    /\ \A i \in 1 .. 6 : FLOW_STAGES[i] \in Stages
    /\ \A s \in Stages : \E i \in 1 .. 6 : s = FLOW_STAGES[i]
    /\ Len(FLOW_STAGES) = 6 /\ FLOW_STAGES[6] # "place"
<1>1. DOMAIN FLOW_STAGES = 1 .. 6 /\ Len(FLOW_STAGES) = 6
  BY DEF FLOW_STAGES
<1> QED
  BY <1>1 DEF Stages, ToSet, FLOW_STAGES

\* Every stage writes one to three files.
LEMMA StageArtifacts ==
    ASSUME NEW i \in 1 .. 6, NEW e \in BOOLEAN
    PROVE  LET files == ArtifactsOf(FLOW_STAGES[i], e)
           IN  /\ Len(files) \in Nat \ {0} /\ DOMAIN files = 1 .. Len(files)
               /\ \A k \in 1 .. Len(files) : files[k] \in Files
<1>1. FLOW_STAGES[i] \in Stages
  BY StageNames
<1>2. /\ Len(ArtifactsOf(FLOW_STAGES[i], e)) \in Nat \ {0}
      /\ DOMAIN ArtifactsOf(FLOW_STAGES[i], e) = 1 .. Len(ArtifactsOf(FLOW_STAGES[i], e))
  <2>1. CASE FLOW_STAGES[i] = "route"
    <3>1. ArtifactsOf(FLOW_STAGES[i], e) = <<"route", "device">>
      BY <2>1, Zenon DEF ArtifactsOf
    <3> QED
      BY <3>1
  <2>2. CASE FLOW_STAGES[i] = "sta"
    <3>1. ArtifactsOf(FLOW_STAGES[i], e) = <<"sta", "sta_report", "sta_report_json">>
      BY <2>2 DEF ArtifactsOf
    <3> QED
      BY <3>1
  <2>3. CASE FLOW_STAGES[i] = "bitgen"
    <3>1. ArtifactsOf(FLOW_STAGES[i], e) \in {<<"bitstream", "bitstream_sidecar">>, <<"bitstream">>}
      BY <2>3 DEF ArtifactsOf
    <3> QED
      BY <3>1
  <2>4. CASE FLOW_STAGES[i] \notin {"route", "sta", "bitgen"}
    <3>1. ArtifactsOf(FLOW_STAGES[i], e) = <<FLOW_STAGES[i]>>
      BY <2>4 DEF ArtifactsOf
    <3> QED
      BY <3>1
  <2> QED
    BY <2>1, <2>2, <2>3, <2>4
<1>3. ToSet(ArtifactsOf(FLOW_STAGES[i], e)) \subseteq ToSet(ArtifactsOf(FLOW_STAGES[i], TRUE))
  <2>1. CASE FLOW_STAGES[i] = "bitgen" /\ e = FALSE
    BY <2>1 DEF ArtifactsOf, ToSet
  <2>2. CASE FLOW_STAGES[i] # "bitgen"
    BY <2>2 DEF ArtifactsOf
  <2>3. CASE e = TRUE
    BY <2>3
  <2> QED
    BY <2>1, <2>2, <2>3
<1>4. ToSet(ArtifactsOf(FLOW_STAGES[i], TRUE)) \subseteq Files
  BY <1>1 DEF Files, StageFiles
<1> QED
  BY <1>2, <1>3, <1>4 DEF ToSet

LEMMA RunFilesApart ==
    /\ \A k \in 1 .. 3 : RunFiles[k] \in ToSet(RunFiles)
    /\ ToSet(RunFiles) \subseteq Files
<1>1. DOMAIN RunFiles = 1 .. 3
  BY DEF RunFiles
<1> QED
  BY <1>1 DEF ToSet, Files

\* The files of a flow are those of its stages.
LEMMA AllStageFiles ==
    ASSUME NEW e \in BOOLEAN, NEW f \in StageFiles(e)
    PROVE  \E i \in 1 .. 6 : \E k \in 1 .. Len(ArtifactsOf(FLOW_STAGES[i], e)) :
               f = ArtifactsOf(FLOW_STAGES[i], e)[k]
<1>1. PICK s \in Stages : f \in ToSet(ArtifactsOf(s, e))
  BY DEF StageFiles
<1>2. PICK i \in 1 .. 6 : s = FLOW_STAGES[i]
  BY StageNames
<1>3. DOMAIN ArtifactsOf(s, e) = 1 .. Len(ArtifactsOf(s, e))
  BY <1>2, StageArtifacts
<1> QED
  BY <1>1, <1>2, <1>3 DEF ToSet

\* A failure report advertises what is on the disk it describes.
LEMMA FailureReportBorne ==
    ASSUME FlowInv, NEW files, NEW reports, NEW ds, DOMAIN files = Files,
           PipelineFails(reports, ds, files), UNCHANGED options
    PROVE  Borne(report)'
<1>1. disk' = files /\ report' = FailureReport(reports, Append(ds, Error("impl")), files)
  BY DEF PipelineFails
<1>2. report'.status = "Failed" /\ report'.artifacts = FailureArtifactMap(files)
  BY <1>1 DEF FailureReport
<1>3. \A f \in FailureArtifactMap(files) \ ToSet(RunFiles) : files[f] # "absent"
                                                      /\ f \in StageFiles(options.emit_sidecar)
  BY DEF FailureArtifactMap, ArtifactMap
<1>4. \A f \in StageFiles(options.emit_sidecar) : f \in Files
  <2>1. options.emit_sidecar \in BOOLEAN
    BY DEF FlowInv, Types
  <2> QED
    <3>1. TAKE f \in StageFiles(options.emit_sidecar)
    <3>2. PICK i \in 1 .. 6 : \E k \in 1 .. Len(FilesOf(i)) : f = FilesOf(i)[k]
      BY <2>1, AllStageFiles DEF FilesOf
    <3> QED
      BY <2>1, <3>2, StageArtifacts, SMTT(30) DEF FilesOf
<1> QED
  BY <1>1, <1>2, <1>3, <1>4 DEF Borne

\* When run_pipeline fails the other parts of the invariant are kept.
LEMMA FailureKept ==
    ASSUME FlowInv, NEW files, NEW reports, NEW ds, DOMAIN files = Files,
           PipelineFails(reports, ds, files), UNCHANGED <<options, results>>,
           Borne(published)'
    PROVE  FlowInv'
<1>1. pc' = "finish" /\ written' = 0 /\ disk' = files
  BY DEF PipelineFails
<1>2. Types'
  BY <1>1 DEF FlowInv, Types, ResultsInOrder, Done
<1>3. Position' /\ ArtifactsOwn'
  BY <1>1 DEF Position, ArtifactsOwn
<1>4. ReportsBorne'
  BY <1>1, FailureReportBorne DEF ReportsBorne
<1> QED
  BY <1>2, <1>3, <1>4 DEF FlowInv

LEMMA FailedWrite ==
    ASSUME FlowInv, NEW f \in Files, NEW files \in DiskAfterFailedWrite(f)
    PROVE  DOMAIN files = Files /\ \A g \in Files : g # f => files[g] = disk[g]
BY DEF DiskAfterFailedWrite, FlowInv, Types

LEMMA InitFlow == ASSUME Init PROVE FlowInv
<1>1. Types
  BY DEF Init, Types, ResultsInOrder, Done
<1>2. Position /\ ArtifactsOwn /\ ReportsBorne
  BY DEF Init, Position, ArtifactsOwn, ReportsBorne, Borne, Done
<1> QED
  BY <1>1, <1>2 DEF FlowInv

-----------------------------------------------------------------------------
(* The lists of diagnostics. *)

LEMMA Appended ==
    ASSUME NEW S, NEW t \in Seq(S), NEW x \in S
    PROVE  /\ Append(t, x) \in Seq(S) /\ Len(Append(t, x)) = Len(t) + 1
           /\ \A i \in 1 .. Len(t) : Append(t, x)[i] = t[i]
           /\ Append(t, x)[Len(t) + 1] = x
           /\ ToSet(Append(t, x)) = ToSet(t) \cup {x}
<1>1. /\ Append(t, x) \in Seq(S) /\ Len(Append(t, x)) = Len(t) + 1
      /\ \A i \in 1 .. Len(t) : Append(t, x)[i] = t[i]
      /\ Append(t, x)[Len(t) + 1] = x /\ Len(t) \in Nat
  OBVIOUS
<1>2. DOMAIN t = 1 .. Len(t) /\ DOMAIN Append(t, x) = 1 .. Len(t) + 1
  BY <1>1
<1>3. ToSet(Append(t, x)) = ToSet(t) \cup {x}
  <2> HIDE <1>1
  <2>1. 1 .. Len(t) + 1 = (1 .. Len(t)) \cup {Len(t) + 1}
    BY <1>1
  <2> QED
    BY <1>1, <1>2, <2>1 DEF ToSet
<1> QED
  BY <1>1, <1>3

\* No two places of a list hold the same.
Apart(t) == \A i, j \in 1 .. Len(t) : t[i] = t[j] => i = j

\* Distinct leaves each element once.
LEMMA DistinctOnce ==
    ASSUME NEW S, NEW s \in Seq(S)
    PROVE  /\ Distinct(s) \in Seq(S)
           /\ ToSet(Distinct(s)) = ToSet(s)
           /\ Cardinality(ToSet(Distinct(s))) = Len(Distinct(s))
<1> DEFINE N == Len(s)
           Step(t, n) == IF s[n] \in ToSet(t) THEN t ELSE Append(t, s[n])
           Upto(f, m) == /\ f \in [0 .. m -> Seq(S)] /\ f[0] = <<>>
                         /\ \A k \in 1 .. m : f[k] = Step(f[k - 1], k)
<1>0. N \in Nat
  OBVIOUS
<1>1. /\ N \in Nat /\ N \in 0 .. N /\ 0 .. N \in SUBSET Nat
      /\ \A n \in 1 .. N : s[n] \in S
  BY <1>0
<1>2. \A t \in Seq(S) : \A n \in 1 .. N : Step(t, n) \in Seq(S)
  BY <1>1, Appended
<1> HIDE DEF N, Step
<1> HIDE DEF Upto
<1>3. \A m \in 0 .. N : \E f : Upto(f, m)
  <2> DEFINE Bad == {m \in 0 .. N : ~ \E f : Upto(f, m)}
  <2> SUFFICES ASSUME Bad # {} PROVE FALSE
    OBVIOUS
  <2>1. PICK m \in Bad : \A k \in Bad : m <= k
    BY <1>1, LeastNatural
  <2>2. m \in 0 .. N /\ ~ \E f : Upto(f, m)
    OBVIOUS
  <2>3. m # 0
    <3>1. Upto([k \in 0 .. 0 |-> <<>>], 0)
      BY DEF Upto
    <3> QED
      BY <2>2, <3>1
  <2>4. m - 1 \in 0 .. N /\ m - 1 \notin Bad
    <3>1. m \in Nat /\ m - 1 \in 0 .. N /\ ~(m <= m - 1)
      BY <1>1, <2>2, <2>3
    <3> QED
      BY <2>1, <3>1
  <2>5. PICK f : Upto(f, m - 1)
    BY <2>4
  <2> DEFINE g == [k \in 0 .. m |-> IF k = m THEN Step(f[m - 1], m) ELSE f[k]]
  <2>6. m \in 1 .. N /\ f[m - 1] \in Seq(S)
    BY <1>1, <2>2, <2>3, <2>5 DEF Upto
  <2>7. Step(f[m - 1], m) \in Seq(S)
    BY <1>2, <2>6
  <2>8. g \in [0 .. m -> Seq(S)] /\ g[0] = <<>>
    BY <2>5, <2>6, <2>7 DEF Upto
  <2>9. \A k \in 1 .. m : g[k] = Step(g[k - 1], k)
    BY <1>1, <2>5, <2>6, SMTT(30) DEF Upto
  <2>10. Upto(g, m)
    BY <2>8, <2>9 DEF Upto
  <2> QED
    BY <2>2, <2>10
<1> DEFINE F(f) == [n \in 0 .. N |-> IF n = 0 THEN <<>>
                                    ELSE IF s[n] \in ToSet(f[n - 1]) THEN f[n - 1]
                                    ELSE Append(f[n - 1], s[n])]
           h == CHOOSE f : f = F(f)
<1>4. Distinct(s) = h[N]
  BY DEF Distinct, N
<1>5. h = F(h)
  <2>1. PICK f : Upto(f, N)
    BY <1>1, <1>3
  <2>2. f = F(f)
    <3>1. f \in [0 .. N -> Seq(S)]
      BY <2>1 DEF Upto
    <3>2. \A n \in 0 .. N : f[n] = F(f)[n]
      <4>1. ASSUME NEW n \in 0 .. N PROVE f[n] = IF n = 0 THEN <<>> ELSE Step(f[n - 1], n)
        <5>1. n = 0 \/ n \in 1 .. N
          BY <1>1
        <5> QED
          BY <2>1, <5>1 DEF Upto
      <4> QED
        BY <4>1 DEF Step
    <3>3. f = [n \in 0 .. N |-> f[n]] /\ F(f) = [n \in 0 .. N |-> F(f)[n]]
      BY <3>1
    <3> HIDE DEF F
    <3> QED
      BY <3>2, <3>3
  <2> QED
    BY <2>2
<1>6. h[0] = <<>> /\ \A n \in 1 .. N : h[n] = Step(h[n - 1], n)
  <2>1. \A n \in 0 .. N : F(h)[n] = IF n = 0 THEN <<>> ELSE Step(h[n - 1], n)
    BY DEF Step
  <2>2. \A n \in 0 .. N : h[n] = IF n = 0 THEN <<>> ELSE Step(h[n - 1], n)
    <3> HIDE DEF h
    <3> QED
      BY <1>5, <2>1
  <2> HIDE DEF h, F
  <2> QED
    BY <1>1, <2>2
<1> HIDE DEF h, F
<1> DEFINE Right(n) == /\ h[n] \in Seq(S) /\ Apart(h[n])
                       /\ ToSet(h[n]) = {s[i] : i \in 1 .. n}
<1> HIDE DEF Right
<1>7. \A n \in 0 .. N : Right(n)
  <2> DEFINE Bad == {n \in 0 .. N : ~Right(n)}
  <2> SUFFICES ASSUME Bad # {} PROVE FALSE
    OBVIOUS
  <2>1. PICK n \in Bad : \A k \in Bad : n <= k
    BY <1>1, LeastNatural
  <2>2. n \in 0 .. N /\ ~Right(n)
    OBVIOUS
  <2>3. n # 0
    <3>1. Right(0)
      BY <1>6 DEF Apart, ToSet, Right
    <3> QED
      BY <2>2, <3>1
  <2>4. n \in 1 .. N /\ n - 1 \in 0 .. N /\ n - 1 \notin Bad
    <3>1. n \in 1 .. N /\ n - 1 \in 0 .. N /\ ~(n <= n - 1)
      BY <1>1, <2>2, <2>3
    <3> QED
      BY <2>1, <3>1
  <2>5. Right(n - 1)
    BY <2>4
  <2>6. h[n] = Step(h[n - 1], n) /\ s[n] \in S
    BY <1>1, <1>6, <2>4
  <2>7. {s[i] : i \in 1 .. n} = {s[i] : i \in 1 .. n - 1} \cup {s[n]}
    <3>1. 1 .. n = (1 .. n - 1) \cup {n}
      BY <1>1, <2>4
    <3> QED
      BY <3>1
  <2>8. CASE s[n] \in ToSet(h[n - 1])
    <3>1. h[n] = h[n - 1]
      BY <2>6, <2>8 DEF Step
    <3> QED
      BY <2>2, <2>5, <2>7, <2>8, <3>1 DEF Right
  <2>9. CASE s[n] \notin ToSet(h[n - 1])
    <3> DEFINE t == h[n - 1]
    <3>1. h[n] = Append(t, s[n])
      BY <2>6, <2>9 DEF Step
    <3>2. t \in Seq(S) /\ Apart(t) /\ ToSet(t) = {s[i] : i \in 1 .. n - 1}
      BY <2>5 DEF Right
    <3> HIDE DEF t
    <3>3. /\ h[n] \in Seq(S) /\ Len(h[n]) = Len(t) + 1 /\ Len(t) \in Nat
          /\ \A i \in 1 .. Len(t) : h[n][i] = t[i]
          /\ h[n][Len(t) + 1] = s[n]
          /\ ToSet(h[n]) = ToSet(t) \cup {s[n]}
      BY <2>6, <3>1, <3>2, Appended
    <3>4. \A i \in 1 .. Len(t) : t[i] # s[n]
      BY <2>9, <3>2 DEF ToSet, t
    <3>5. Apart(h[n])
      BY <3>2, <3>3, <3>4, SMTT(30) DEF Apart
    <3> QED
      BY <2>2, <2>7, <3>2, <3>3, <3>5 DEF Right
  <2> QED
    BY <2>8, <2>9
<1>8. Right(N)
  BY <1>1, <1>7
<1>9. ToSet(h[N]) = ToSet(s)
  <2>1. ToSet(s) = {s[i] : i \in 1 .. N}
    BY DEF ToSet, N
  <2> QED
    BY <1>8, <2>1 DEF Right
<1> DEFINE t == h[N]
<1>10. Cardinality(ToSet(t)) = Len(t)
  <2>1. t \in Seq(S) /\ Apart(t)
    BY <1>8 DEF Right
  <2> HIDE DEF t
  <2>2. Len(t) \in Nat /\ DOMAIN t = 1 .. Len(t)
    BY <2>1
  <2>3. t \in Bijection(1 .. Len(t), ToSet(t))
    BY <2>1, <2>2 DEF Bijection, Injection, Surjection, IsInjective, ToSet, Apart
  <2>4. ExistsBijection(1 .. Len(t), ToSet(t))
    BY <2>3 DEF ExistsBijection
  <2> QED
    BY <2>2, <2>4, FS_CountingElements
<1> QED
  BY <1>4, <1>8, <1>9, <1>10 DEF Right

\* A list of lists of S, one after the other, is a list of S.
LEMMA Flattened ==
    ASSUME NEW S, NEW n \in Nat, n > 0, NEW ss \in [1 .. n -> Seq(S)]
    PROVE  FlattenSeq(ss) \in Seq(S)
<1> DEFINE Upto(f, m) ==
      f \in [1 .. m -> Seq(S)] /\ \A k \in 1 .. m : f[k] = IF k = 1 THEN ss[k] ELSE f[k - 1] \o ss[k]
<1>1. n \in 1 .. n /\ 1 .. n \in SUBSET Nat /\ ss \in Seq(Seq(S)) /\ Len(ss) = n /\ Len(ss) # 0
  OBVIOUS
<1> HIDE DEF Upto
<1>2. \A m \in 1 .. n : \E f : Upto(f, m)
  <2> DEFINE Bad == {m \in 1 .. n : ~ \E f : Upto(f, m)}
  <2> SUFFICES ASSUME Bad # {} PROVE FALSE
    OBVIOUS
  <2>1. PICK m \in Bad : \A k \in Bad : m <= k
    BY <1>1, LeastNatural
  <2>2. m \in 1 .. n /\ ~ \E f : Upto(f, m)
    OBVIOUS
  <2>3. m # 1
    <3>1. Upto([k \in 1 .. 1 |-> ss[1]], 1)
      BY DEF Upto
    <3> QED
      BY <2>2, <3>1
  <2>4. m - 1 \in 1 .. n /\ m - 1 \notin Bad
    <3>1. m \in Nat /\ m - 1 \in 1 .. n /\ ~(m <= m - 1)
      BY <1>1, <2>2, <2>3
    <3> QED
      BY <2>1, <3>1
  <2>5. PICK f : Upto(f, m - 1)
    BY <2>4
  <2> DEFINE g == [k \in 1 .. m |-> IF k = m THEN f[m - 1] \o ss[m] ELSE f[k]]
  <2>6. f[m - 1] \in Seq(S) /\ ss[m] \in Seq(S)
    BY <1>1, <2>2, <2>4, <2>5 DEF Upto
  <2>7. f[m - 1] \o ss[m] \in Seq(S)
    BY <2>6
  <2>8. g \in [1 .. m -> Seq(S)]
    BY <2>2, <2>5, <2>7 DEF Upto
  <2>9. \A k \in 1 .. m : g[k] = IF k = 1 THEN ss[k] ELSE g[k - 1] \o ss[k]
    <3> SUFFICES ASSUME NEW k \in 1 .. m PROVE g[k] = IF k = 1 THEN ss[k] ELSE g[k - 1] \o ss[k]
      OBVIOUS
    <3>1. CASE k = m
      <4>1. k # 1 /\ g[k - 1] = f[m - 1]
        BY <2>2, <2>3, <3>1
      <4> QED
        BY <3>1, <4>1
    <3>2. CASE k # m
      <4>1. k \in 1 .. m - 1 /\ g[k] = f[k]
        BY <2>2, <3>2
      <4>2. k # 1 => g[k - 1] = f[k - 1]
        BY <2>2, <4>1
      <4> QED
        BY <2>5, <4>1, <4>2 DEF Upto
    <3> QED
      BY <3>1, <3>2
  <2>10. Upto(g, m)
    BY <2>8, <2>9 DEF Upto
  <2> QED
    BY <2>2, <2>10
<1> DEFINE F(f) == [k \in 1 .. n |-> IF k = 1 THEN ss[k] ELSE f[k - 1] \o ss[k]]
           h == CHOOSE f : f = F(f)
<1>3. FlattenSeq(ss) = h[n]
  BY <1>1 DEF FlattenSeq
<1>4. h = F(h)
  <2>1. PICK f : Upto(f, n)
    BY <1>1, <1>2
  <2>2. f = F(f)
    <3>1. \A k \in 1 .. n : f[k] = F(f)[k]
      BY <2>1 DEF Upto
    <3>2. f = [k \in 1 .. n |-> f[k]] /\ F(f) = [k \in 1 .. n |-> F(f)[k]]
      BY <2>1 DEF Upto
    <3> HIDE DEF F
    <3> QED
      BY <3>1, <3>2
  <2> QED
    BY <2>2
<1>5. \A k \in 1 .. n : h[k] = IF k = 1 THEN ss[k] ELSE h[k - 1] \o ss[k]
  <2>1. \A k \in 1 .. n : F(h)[k] = IF k = 1 THEN ss[k] ELSE h[k - 1] \o ss[k]
    OBVIOUS
  <2> HIDE DEF h, F
  <2> QED
    BY <1>4, <2>1
<1> HIDE DEF h, F
<1>6. \A k \in 1 .. n : h[k] \in Seq(S)
  <2> DEFINE Bad == {k \in 1 .. n : h[k] \notin Seq(S)}
  <2> SUFFICES ASSUME Bad # {} PROVE FALSE
    OBVIOUS
  <2>1. PICK k \in Bad : \A l \in Bad : k <= l
    BY <1>1, LeastNatural
  <2>2. k \in 1 .. n /\ h[k] \notin Seq(S) /\ ss[k] \in Seq(S)
    OBVIOUS
  <2>3. k # 1
    BY <1>5, <2>2
  <2>4. k - 1 \in 1 .. n /\ ~(k <= k - 1)
    BY <2>2, <2>3
  <2>5. h[k - 1] \in Seq(S)
    BY <2>1, <2>4
  <2>6. h[k - 1] \o ss[k] \in Seq(S)
    BY <2>2, <2>5
  <2> QED
    BY <1>5, <2>2, <2>3, <2>6
<1> QED
  BY <1>1, <1>3, <1>6

-----------------------------------------------------------------------------
LEMMA StepRunStage == ASSUME FlowInv, RunStage PROVE FlowInv'
<1>1. PICK ws \in Warnings : results' = Append(results, StageReport(NextStage, "Success", ws, TRUE))
  BY DEF RunStage
<1>2. /\ pc = "stage" /\ pc' = "artifact" /\ written' = 0
      /\ UNCHANGED <<options, report, published, disk>>
  BY DEF RunStage
<1>3. ResultsInOrder /\ Done \in 0 .. 5
  BY <1>2 DEF FlowInv, Types, Position, ResultsInOrder
<1>4. NextStage \in Stages /\ ws \in {<<>>} \cup {<<Warning(s)>> : s \in Stages}
  <2>1. NextStage \in Stages
    <3>1. Done + 1 \in 1 .. 6
      BY <1>3
    <3> QED
      BY <3>1, StageNames DEF NextStage, Done
  <2> QED
    BY <2>1 DEF Warnings
<1>5. StageReport(NextStage, "Success", ws, TRUE) \in Result
  BY <1>4 DEF StageReport, Result
<1>6. ResultsInOrder' /\ Done' = Done + 1
  <2> DEFINE r == StageReport(NextStage, "Success", ws, TRUE)
  <2>1. r.stage = FLOW_STAGES[Done + 1]
    BY DEF StageReport, NextStage, Done
  <2> HIDE DEF r
  <2>2. results' = Append(results, r) /\ r \in Result
    BY <1>1, <1>5 DEF r
  <2>3. /\ results' \in Seq(Result) /\ Done' = Done + 1
        /\ \A i \in 1 .. Done : results'[i] = results[i]
        /\ results'[Done + 1] = r
    BY <1>3, <2>2 DEF ResultsInOrder, Done
  <2>4. \A i \in 1 .. Done' : results'[i].stage = FLOW_STAGES[i]
    BY <1>3, <2>1, <2>3 DEF ResultsInOrder
  <2> QED
    BY <1>3, <2>3, <2>4 DEF ResultsInOrder
<1>7. Types'
  BY <1>2, <1>6 DEF FlowInv, Types
<1>8. \A i \in 1 .. 6 : FilesOf(i)' = FilesOf(i) /\ Len(FilesOf(i)) \in Nat \ {0}
  <2>1. options.emit_sidecar \in BOOLEAN
    BY DEF FlowInv, Types
  <2> QED
    BY <1>2, <2>1, StageArtifacts DEF FilesOf
<1>9. Position'
  <2>1. Done' \in 1 .. 6
    BY <1>3, <1>6
  <2>2. \A i \in 1 .. 6 : 0 \in 0 .. Len(FilesOf(i)') - 1
    BY <1>8
  <2> QED
    BY <1>2, <2>1, <2>2 DEF Position
<1>10. ArtifactsOwn'
  <2>1. ASSUME NEW i \in 1 .. Done, NEW k \in 1 .. Len(FilesOf(i))
        PROVE  disk[FilesOf(i)[k]] = "own"
    BY <1>2 DEF FlowInv, ArtifactsOwn
  <2>2. ASSUME NEW i \in 1 .. Done + 1, NEW k \in 1 .. Len(FilesOf(i)), i < Done + 1 \/ k <= 0
        PROVE  disk[FilesOf(i)[k]] = "own"
    <3>1. i \in 1 .. 6
      BY <1>3
    <3>2. Len(FilesOf(i)) \in Nat
      BY <1>8, <3>1
    <3>3. i \in 1 .. Done
      BY <1>3, <2>2, <3>2
    <3> QED
      BY <2>1, <3>3
  <2>3. \A i \in 1 .. Done + 1 : FilesOf(i)' = FilesOf(i)
    BY <1>3, <1>8
  <2> QED
    BY <1>2, <1>6, <2>2, <2>3 DEF ArtifactsOwn
<1>11. ReportsBorne'
  BY <1>2 DEF FlowInv, ReportsBorne, Borne
<1> QED
  BY <1>7, <1>9, <1>10, <1>11 DEF FlowInv

LEMMA StepWriteArtifact == ASSUME FlowInv, WriteArtifact PROVE FlowInv'
<1> DEFINE f == CurrentFiles[written + 1]
<1>1. /\ pc = "artifact" /\ disk' = [disk EXCEPT ![f] = "own"]
      /\ results' = [results EXCEPT ![Done].artifacts = @ \cup {f}]
      /\ written' = written + 1
      /\ pc' = IF written + 1 = Len(CurrentFiles) THEN AfterStage ELSE pc
      /\ UNCHANGED <<options, report, published>>
  BY DEF WriteArtifact, Done
<1>2. ResultsInOrder /\ Done \in 1 .. 6 /\ options.emit_sidecar \in BOOLEAN
  BY <1>1 DEF FlowInv, Types, Position, ResultsInOrder
<1>3. CurrentFiles = FilesOf(Done) /\ Last(results).stage = FLOW_STAGES[Done]
  <2>1. Last(results).stage = FLOW_STAGES[Done]
    <3>1. results[Done].stage = FLOW_STAGES[Done]
      BY <1>2 DEF ResultsInOrder
    <3> QED
      BY <3>1 DEF Last, Done
  <2> QED
    BY <2>1 DEF CurrentFiles, FilesOf
<1>4. /\ Len(FilesOf(Done)) \in Nat \ {0} /\ written \in 0 .. Len(FilesOf(Done)) - 1
      /\ f = FilesOf(Done)[written + 1] /\ f \in Files
  <2>1. /\ Len(FilesOf(Done)) \in Nat \ {0}
        /\ \A k \in 1 .. Len(FilesOf(Done)) : FilesOf(Done)[k] \in Files
    BY <1>2, StageArtifacts DEF FilesOf
  <2>2. written \in 0 .. Len(FilesOf(Done)) - 1
    BY <1>1 DEF FlowInv, Position
  <2>3. written + 1 \in 1 .. Len(FilesOf(Done))
    BY <2>1, <2>2
  <2> QED
    BY <1>3, <2>1, <2>2, <2>3
<1> HIDE DEF f
<1>5. ResultsInOrder' /\ Done' = Done
  <2> DEFINE r == [results[Done] EXCEPT !.artifacts = @ \cup {f}]
  <2>1. results[Done] \in Result /\ results' = [results EXCEPT ![Done] = r]
    <3>1. results[Done] \in Result
      BY <1>2, EntryReplaced DEF ResultsInOrder, Done
    <3> QED
      BY <1>1, <3>1
  <2>2. r \in Result /\ r.stage = results[Done].stage
    BY <1>4, <2>1 DEF Result
  <2> HIDE DEF r
  <2>3. /\ results' \in Seq(Result) /\ Done' = Done
        /\ \A i \in 1 .. Done : results'[i] = IF i = Done THEN r ELSE results[i]
    BY <1>2, <2>1, <2>2, EntryReplaced DEF ResultsInOrder, Done
  <2> QED
    BY <1>2, <2>2, <2>3 DEF ResultsInOrder
<1>6. Types'
  BY <1>1, <1>2, <1>5 DEF FlowInv, Types
<1>7. \A i \in 1 .. 6 : FilesOf(i)' = FilesOf(i)
  BY <1>1 DEF FilesOf
<1>8. /\ written + 1 = Len(FilesOf(Done)) => pc' = AfterStage
      /\ written + 1 # Len(FilesOf(Done)) => pc' = "artifact"
  BY <1>1, <1>3
<1>9. /\ AfterStage \in {"report", "lower", "stage"}
      /\ AfterStage = "report" <=> Done = 6
  <2>1. CASE Done = 6
    <3>1. Len(results) = Len(FLOW_STAGES) /\ Last(results).stage # "place"
      BY <1>3, <2>1, StageNames DEF Done
    <3> QED
      BY <2>1, <3>1 DEF AfterStage
  <2>2. CASE Done # 6
    <3>1. Len(results) # Len(FLOW_STAGES)
      BY <2>2, StageNames DEF Done
    <3> QED
      BY <2>2, <3>1 DEF AfterStage
  <2> QED
    BY <2>1, <2>2
<1>10. Position'
  BY <1>1, <1>2, <1>4, <1>5, <1>7, <1>8, <1>9 DEF Position
<1>11. ArtifactsOwn'
  <2>1. ASSUME NEW i \in 1 .. Done, NEW k \in 1 .. Len(FilesOf(i)),
               i < Done \/ pc' # "artifact" \/ k <= written + 1
        PROVE  disk'[FilesOf(i)[k]] = "own"
    <3>1. FilesOf(i)[k] \in Files /\ Len(FilesOf(i)) \in Nat
      <4>1. i \in 1 .. 6
        BY <1>2
      <4> QED
        BY <1>2, <4>1, StageArtifacts DEF FilesOf
    <3>2. CASE FilesOf(i)[k] = f
      BY <1>1, <1>4, <3>2 DEF FlowInv, Types
    <3>3. CASE FilesOf(i)[k] # f
      <4>1. i < Done \/ k <= written
        BY <1>2, <1>4, <1>8, <2>1, <3>1, <3>3
      <4>2. disk[FilesOf(i)[k]] = "own"
        BY <1>1, <2>1, <4>1 DEF FlowInv, ArtifactsOwn
      <4> QED
        BY <1>1, <3>3, <4>2, <3>1 DEF FlowInv, Types
    <3> QED
      BY <3>2, <3>3
  <2> QED
    BY <1>1, <1>2, <1>5, <1>7, <2>1 DEF ArtifactsOwn
<1>12. ReportsBorne'
  BY <1>1 DEF FlowInv, ReportsBorne, Borne
<1> QED
  BY <1>6, <1>10, <1>11, <1>12 DEF FlowInv

LEMMA StepBuildReport == ASSUME FlowInv, BuildReport PROVE FlowInv'
<1>1. /\ pc = "report" /\ pc' = "finish" /\ written' = 0
      /\ report'.artifacts = ArtifactMap(disk)
      /\ UNCHANGED <<options, results, published, disk>>
  BY DEF BuildReport
<1>2. \A g \in StageFiles(options.emit_sidecar) : g \in Files /\ disk[g] = "own"
  <2>1. options.emit_sidecar \in BOOLEAN /\ Done = 6
    BY <1>1 DEF FlowInv, Types, Position
  <2>2. \A i \in 1 .. 6 : \A k \in 1 .. Len(FilesOf(i)) :
            FilesOf(i)[k] \in Files /\ disk[FilesOf(i)[k]] = "own"
    BY <1>1, <2>1, StageArtifacts DEF FlowInv, ArtifactsOwn, FilesOf
  <2> QED
    BY <2>1, <2>2, AllStageFiles, SMTT(30) DEF FilesOf
<1>3. \A g \in ArtifactMap(disk) \ ToSet(RunFiles) : g \in StageFiles(options.emit_sidecar)
  BY DEF ArtifactMap
<1>4. Borne(report)'
  BY <1>1, <1>2, <1>3 DEF Borne
<1>5. Types' /\ Position' /\ ArtifactsOwn'
  BY <1>1 DEF FlowInv, Types, ResultsInOrder, Position, ArtifactsOwn, Done
<1>6. ReportsBorne'
  BY <1>1, <1>4 DEF FlowInv, ReportsBorne, Borne
<1> QED
  BY <1>5, <1>6 DEF FlowInv

\* The run files are no artifacts of a stage.
LEMMA StepFinishRun == ASSUME FlowInv, FinishRun PROVE FlowInv'
<1> DEFINE f == RunFiles[written + 1]
<1>1. /\ pc = "finish" /\ disk' = [disk EXCEPT ![f] = report.status]
      /\ published' \in {report, published} /\ written' = written + 1
      /\ pc' \in {"finish", "done"} /\ (written + 1 = 3 => pc' = "done")
      /\ UNCHANGED <<options, results, report>>
  BY DEF FinishRun, RunFiles
<1>2. written \in 0 .. 2 /\ f \in ToSet(RunFiles)
  BY <1>1, RunFilesApart DEF FlowInv, Position
<1> HIDE DEF f
<1>3. Types' /\ Position' /\ ArtifactsOwn'
  BY <1>1, <1>2 DEF FlowInv, Types, ResultsInOrder, Position, ArtifactsOwn, Done
<1>4. \A r \in {report, published} : Borne(r) => Borne(r)'
  BY <1>1, <1>2 DEF FlowInv, Types, Borne
<1>5. ReportsBorne'
  BY <1>1, <1>4 DEF FlowInv, ReportsBorne
<1> QED
  BY <1>3, <1>5 DEF FlowInv

LEMMA StepFinishRunFails == ASSUME FlowInv, FinishRunFails PROVE FlowInv'
<1> DEFINE f == RunFiles[written + 1]
<1>1. PICK files \in DiskAfterFailedWrite(f) :
        IF recovering
        THEN disk' = files /\ pc' = "done" /\ UNCHANGED <<reporterVars, recovering, report, written>>
        ELSE PipelineFails(stage_reports, diagnostics, files)
  BY DEF FinishRunFails
<1>2. /\ pc = "finish" /\ UNCHANGED <<options, results>> /\ published' \in {NoReport, published}
  BY DEF FinishRunFails
<1>3. f \in ToSet(RunFiles) /\ f \in Files /\ disk' = files
  BY <1>1, <1>2, RunFilesApart DEF FlowInv, Position, PipelineFails
<1> HIDE DEF f
<1>4. DOMAIN files = Files /\ \A g \in Files : g # f => files[g] = disk[g]
  BY <1>3, FailedWrite
<1>5. Borne(published)'
  <2>1. Borne(published) => \A g \in {published} : Borne(g)'
    BY <1>3, <1>4 DEF Borne
  <2> QED
    BY <1>2, <2>1 DEF FlowInv, ReportsBorne, Borne
<1>6. CASE recovering
  <2>1. /\ pc' = "done" /\ UNCHANGED <<report, written>>
    BY <1>1, <1>6
  <2>2. Borne(report)'
    BY <1>3, <1>4, <2>1 DEF FlowInv, ReportsBorne, Borne
  <2>3. Types' /\ Position' /\ ArtifactsOwn'
    BY <1>2, <1>3, <1>4, <2>1 DEF FlowInv, Types, ResultsInOrder, Position, ArtifactsOwn, Done
  <2> QED
    BY <1>5, <2>1, <2>2, <2>3 DEF FlowInv, ReportsBorne
<1>7. CASE ~recovering
  BY <1>1, <1>2, <1>4, <1>5, <1>7, FailureKept
<1> QED
  BY <1>6, <1>7

\* The operations that change neither files nor results, and the failures
\* before anything was published.
LEMMA StepOthers ==
    ASSUME FlowInv,
           \/ CreateOutDir \/ CreateOutDirFails \/ LoadInputs \/ LowerForRoute
           \/ PreparationFails \/ StageFails \/ WriteArtifactFails \/ UNCHANGED vars
    PROVE  FlowInv'
<1>1. CASE CreateOutDir \/ CreateOutDirFails \/ LoadInputs \/ LowerForRoute
  <2>1. /\ UNCHANGED <<options, results, report, published, disk, written>>
        /\ \/ pc = "start" /\ pc' \in {"load", "done"}
           \/ pc \in {"load", "lower"} /\ pc' = "stage"
    BY <1>1 DEF CreateOutDir, CreateOutDirFails, LoadInputs, LowerForRoute
  <2>2. Types' /\ ReportsBorne'
    BY <2>1 DEF FlowInv, Types, ResultsInOrder, ReportsBorne, Borne, Done
  <2>3. Position' /\ ArtifactsOwn'
    BY <2>1 DEF FlowInv, Types, ResultsInOrder, Position, ArtifactsOwn, Done, FilesOf
  <2> QED
    BY <2>2, <2>3 DEF FlowInv
<1>2. CASE PreparationFails \/ StageFails \/ WriteArtifactFails
  <2>1. /\ pc \notin {"finish", "done"} /\ UNCHANGED <<options, results, published>>
    BY <1>2 DEF PreparationFails, StageFails, WriteArtifactFails
  <2>2. Borne(published)'
    BY <2>1 DEF FlowInv, ReportsBorne, Borne
  <2>3. DOMAIN disk = Files
    BY DEF FlowInv, Types
  <2>4. CASE PreparationFails
    BY <2>1, <2>2, <2>3, <2>4, FailureKept DEF PreparationFails
  <2>5. CASE StageFails
    BY <2>1, <2>2, <2>3, <2>5, FailureKept DEF StageFails
  <2>6. CASE WriteArtifactFails
    <3>1. PICK files \in DiskAfterFailedWrite(CurrentFiles[written + 1]) :
            PipelineFails(stage_reports, diagnostics, files)
      BY <2>6 DEF WriteArtifactFails
    <3>2. DOMAIN files = Files
      BY <2>3, <3>1 DEF DiskAfterFailedWrite
    <3> QED
      BY <2>1, <2>2, <3>1, <3>2, FailureKept
  <2> QED
    BY <1>2, <2>4, <2>5, <2>6
<1>3. CASE UNCHANGED vars
  BY <1>3 DEF vars, reporterVars, FlowInv, Types, ResultsInOrder, Position, ArtifactsOwn, Done, ReportsBorne, Borne, FilesOf
<1> QED
  BY <1>1, <1>2, <1>3

-----------------------------------------------------------------------------
\* Whatever report.json says at the end, the artifacts it advertises exist, and
\* those of a success are this run's (artifact_map, build_failure_report), for
\* any number of failing operations.
THEOREM AdvertisedArtifactsExistHolds == Spec => []AdvertisedArtifactsExist
<1>1. Init => FlowInv
  BY InitFlow
<1>2. FlowInv /\ [Next]_vars => FlowInv'
  BY StepRunStage, StepWriteArtifact, StepBuildReport, StepFinishRun, StepFinishRunFails, StepOthers
  DEF Next, Succeed, Fail, Terminated
<1>3. FlowInv => AdvertisedArtifactsExist
  BY DEF FlowInv, ReportsBorne, Borne, AdvertisedArtifactsExist
<1> QED
  BY <1>1, <1>2, <1>3, PTL DEF Spec

-----------------------------------------------------------------------------
(* What the run says of itself. *)

Diagnosed == {Warning(s) : s \in Stages} \cup {Error(s) : s \in Stages \cup {"impl"}}

Told ==
    [stage : Stages, status : {"Success", "Failed", "Skipped"}, diagnostics : Seq(Diagnosed),
     metrics : BOOLEAN, artifacts : SUBSET Files]

\* Stage reports that say how far the run got: the last may be of one that failed.
TellsHowFar(reports) ==
    /\ reports \in Seq(Told) /\ Len(reports) \in {Done, Done + 1} /\ Len(reports) <= 6
    /\ \A i \in 1 .. Len(reports) :
          /\ reports[i].stage = FLOW_STAGES[i]
          /\ reports[i].status = IF i <= Done THEN "Success" ELSE "Failed"
          /\ reports[i].metrics <=> i <= Done

\* The reporter has heard of what is done, and the pipeline knows of no
\* diagnostic it has not heard.
Heard ==
    /\ diagnostics \in Seq(Diagnosed)
    /\ \A i \in 1 .. Done : ToSet(results[i].diagnostics) \subseteq ToSet(diagnostics)
    /\ ~recovering => TellsHowFar(stage_reports) /\ Len(stage_reports) = Done
    /\ pc \notin {"finish", "done"} => ~recovering

\* A result lists the files that were written.
Listed ==
    ~recovering =>
        \A i \in 1 .. Done : results[i].artifacts =
            {FilesOf(i)[k] : k \in 1 .. IF i = Done /\ pc = "artifact" THEN written
                                        ELSE Len(FilesOf(i))}

\* What is to be written at the end.
Verdict ==
    IF recovering
    THEN report.status = "Failed" /\ Error("impl") \in ToSet(report.diagnostics)
    ELSE /\ Done = 6
         /\ \A f \in StageFiles(options.emit_sidecar) : disk[f] = "own"
         /\ report.stages = results
         /\ report.artifacts = StageFiles(options.emit_sidecar) \cup ToSet(RunFiles)
         /\ report.status = IF TimingFailure THEN "Failed" ELSE "Success"
         /\ IF TimingFailure THEN Error("sta") \in ToSet(report.diagnostics)
            ELSE report.diagnostics \in Seq({Warning(s) : s \in Stages})

\* The run files that are written say so, and report.json is written first.
Ends ==
    /\ pc # "done" => outcome = "running"
    /\ pc = "finish" =>
          /\ Verdict
          /\ \A k \in 1 .. written : disk[RunFiles[k]] = report.status
          /\ written > 0 => published = report
    /\ pc = "done" /\ outcome # "unreported" =>
          /\ Verdict /\ outcome = Finished
          /\ \A k \in 1 .. 3 : disk[RunFiles[k]] = report.status
          /\ published = report

RunInv == FlowInv /\ Heard /\ Listed /\ ReportTellsHowFar /\ Ends

LEMMA RunFilesNotOfStages ==
    ASSUME NEW e \in BOOLEAN, NEW f \in StageFiles(e)
    PROVE  f \notin ToSet(RunFiles)
<1>1. ToSet(RunFiles) = {"report", "summary", "log"}
  <2>1. DOMAIN RunFiles = 1 .. 3
    BY DEF RunFiles
  <2> QED
    BY <2>1 DEF RunFiles, ToSet
<1>2. PICK i \in 1 .. 6 : \E k \in 1 .. Len(ArtifactsOf(FLOW_STAGES[i], e)) :
               f = ArtifactsOf(FLOW_STAGES[i], e)[k]
  BY AllStageFiles
<1>3. PICK k \in 1 .. Len(ArtifactsOf(FLOW_STAGES[i], e)) : f = ArtifactsOf(FLOW_STAGES[i], e)[k]
  BY <1>2
<1>4. FLOW_STAGES[i] \in {"map", "pack", "place", "route", "sta", "bitgen"}
  BY DEF FLOW_STAGES
<1>5. CASE FLOW_STAGES[i] = "route"
  <2>1. ArtifactsOf(FLOW_STAGES[i], e) = <<"route", "device">>
    BY <1>5 DEF ArtifactsOf
  <2> QED
    BY <1>1, <1>3, <2>1
<1>6. CASE FLOW_STAGES[i] = "sta"
  <2>1. ArtifactsOf(FLOW_STAGES[i], e) = <<"sta", "sta_report", "sta_report_json">>
    BY <1>6 DEF ArtifactsOf
  <2> QED
    BY <1>1, <1>3, <2>1
<1>7. CASE FLOW_STAGES[i] = "bitgen"
  <2>1. ArtifactsOf(FLOW_STAGES[i], e) \in {<<"bitstream", "bitstream_sidecar">>, <<"bitstream">>}
    BY <1>7 DEF ArtifactsOf
  <2> QED
    BY <1>1, <1>3, <2>1
<1>8. CASE FLOW_STAGES[i] \in {"map", "pack", "place"}
  <2>1. ArtifactsOf(FLOW_STAGES[i], e) = <<FLOW_STAGES[i]>>
    BY <1>8 DEF ArtifactsOf
  <2> QED
    BY <1>1, <1>3, <1>8, <2>1
<1> QED
  BY <1>4, <1>5, <1>6, <1>7, <1>8

LEMMA StageList ==
    /\ FLOW_STAGES = [i \in 1 .. 6 |-> FLOW_STAGES[i]]
    /\ \A i \in 1 .. 6 : FLOW_STAGES[i] \in Stages
<1>1. DOMAIN FLOW_STAGES = 1 .. 6
  BY DEF FLOW_STAGES
<1> QED
  BY <1>1, StageNames DEF FLOW_STAGES

\* The stages that never started are filled in by position.
LEMMA SkippedFill ==
    ASSUME ResultsInOrder, NEW reports, TellsHowFar(reports)
    PROVE  LET all == reports \o Skipped(Len(reports))
           IN  /\ [i \in DOMAIN all |-> all[i].stage] = FLOW_STAGES
               /\ \A i \in DOMAIN all :
                    /\ all[i].status = "Success" <=> i <= Done
                    /\ all[i].metrics <=> i <= Done
                    /\ all[i].status = "Failed" => i = Done + 1
<1> DEFINE n == Len(reports)
           rest == Skipped(n)
           all == reports \o rest
<1>1. /\ n \in 0 .. 6 /\ Done \in Nat /\ n >= Done /\ n <= Done + 1 /\ reports \in Seq(Told)
      /\ \A i \in 1 .. n : /\ reports[i].stage = FLOW_STAGES[i]
                           /\ reports[i].status = IF i <= Done THEN "Success" ELSE "Failed"
                           /\ reports[i].metrics <=> i <= Done
  <2>1. /\ reports \in Seq(Told) /\ n \in {Done, Done + 1} /\ n <= 6
        /\ \A i \in 1 .. n : /\ reports[i].stage = FLOW_STAGES[i]
                             /\ reports[i].status = IF i <= Done THEN "Success" ELSE "Failed"
                             /\ reports[i].metrics <=> i <= Done
    BY Zenon DEF TellsHowFar
  <2>2. Done \in 0 .. 6
    BY DEF ResultsInOrder
  <2>3. n \in 0 .. 6 /\ Done \in Nat /\ n >= Done /\ n <= Done + 1
    <3> HIDE DEF n
    <3> QED
      BY <2>1, <2>2
  <2> QED
    BY <2>1, <2>3
<1>2. rest = [i \in 1 .. 6 - n |-> StageReport(FLOW_STAGES[n + i], "Skipped", <<>>, FALSE)]
  BY StageNames DEF Skipped
<1>3. \A i \in 1 .. 6 - n : StageReport(FLOW_STAGES[n + i], "Skipped", <<>>, FALSE) \in Told
  <2> SUFFICES ASSUME NEW i \in 1 .. 6 - n
               PROVE  StageReport(FLOW_STAGES[n + i], "Skipped", <<>>, FALSE) \in Told
    OBVIOUS
  <2>1. FLOW_STAGES[n + i] \in Stages
    BY <1>1, StageList
  <2> QED
    BY <2>1 DEF StageReport, Told
<1>4. /\ rest \in Seq(Told) /\ Len(rest) = 6 - n
      /\ \A i \in 1 .. 6 - n : /\ rest[i].stage = FLOW_STAGES[n + i]
                               /\ rest[i].status = "Skipped" /\ rest[i].metrics = FALSE
  <2> DEFINE skip(i) == StageReport(FLOW_STAGES[n + i], "Skipped", <<>>, FALSE)
  <2>1. 6 - n \in Nat
    BY <1>1
  <2>2. \A i \in 1 .. 6 - n :
            skip(i).stage = FLOW_STAGES[n + i] /\ skip(i).status = "Skipped" /\ skip(i).metrics = FALSE
    BY DEF StageReport
  <2>3. rest = [i \in 1 .. 6 - n |-> skip(i)] /\ \A i \in 1 .. 6 - n : skip(i) \in Told
    BY <1>2, <1>3
  <2> HIDE DEF skip, rest, n
  <2>4. rest \in Seq(Told) /\ Len(rest) = 6 - n /\ \A i \in 1 .. 6 - n : rest[i] = skip(i)
    BY <2>1, <2>3
  <2> QED
    BY <2>2, <2>4
<1> HIDE DEF n, rest
<1>5. /\ all \in Seq(Told) /\ DOMAIN all = 1 .. 6
      /\ \A i \in 1 .. n : all[i] = reports[i]
      /\ \A i \in n + 1 .. 6 : all[i] = rest[i - n]
  <2>1. reports \in Seq(Told) /\ rest \in Seq(Told) /\ n = Len(reports) /\ n \in 0 .. 6
        /\ Len(rest) = 6 - n
    BY <1>1, <1>4 DEF n
  <2>2. all \in Seq(Told) /\ Len(all) = n + Len(rest)
    BY <2>1
  <2>3. DOMAIN all = 1 .. 6
    BY <2>1, <2>2
  <2>4. \A i \in 1 .. n : all[i] = reports[i]
    BY <2>1
  <2>5. \A i \in n + 1 .. 6 : all[i] = rest[i - n]
    <3> SUFFICES ASSUME NEW i \in n + 1 .. 6 PROVE all[i] = rest[i - n]
      OBVIOUS
    <3>1. i \in 1 .. n + Len(rest) /\ ~(i <= n)
      BY <2>1
    <3> QED
      BY <2>1, <3>1
  <2> QED
    BY <2>2, <2>3, <2>4, <2>5
<1> HIDE DEF all
<1>6. ASSUME NEW i \in 1 .. 6
      PROVE  /\ all[i].stage = FLOW_STAGES[i]
             /\ all[i].status = "Success" <=> i <= Done
             /\ all[i].metrics <=> i <= Done
             /\ all[i].status = "Failed" => i = Done + 1
  <2>1. CASE i <= n
    <3>1. i \in 1 .. n
      BY <1>1, <2>1
    <3> QED
      BY <1>1, <1>5, <3>1
  <2>2. CASE i > n
    <3>1. i - n \in 1 .. 6 - n /\ i \in n + 1 .. 6 /\ ~(i <= Done) /\ n + (i - n) = i
      BY <1>1, <2>2
    <3> QED
      BY <1>4, <1>5, <3>1
  <2> QED
    BY <1>1, <2>1, <2>2
<1>7. [i \in DOMAIN all |-> all[i].stage] = FLOW_STAGES
  BY <1>5, <1>6, StageList
<1> QED
  BY <1>5, <1>6, <1>7 DEF all, rest, n

\* When run_pipeline fails, the failure report tells what was heard.
LEMMA FailureTold ==
    ASSUME RunInv, ~recovering, NEW files, NEW reports, NEW ds,
           PipelineFails(reports, ds, files), TellsHowFar(reports), ds \in Seq(Diagnosed),
           ToSet(diagnostics) \subseteq ToSet(ds), UNCHANGED <<results, options, outcome>>,
           outcome = "running"
    PROVE  Heard' /\ Listed' /\ ReportTellsHowFar' /\ Ends'
<1> DEFINE all == Append(ds, Error("impl"))
           stages == reports \o Skipped(Len(reports))
<1>1. /\ recovering' = TRUE /\ pc' = "finish" /\ written' = 0 /\ diagnostics' = all
      /\ report'.status = "Failed" /\ report'.stages = stages
      /\ report'.diagnostics = Distinct(all)
  BY DEF PipelineFails, FailureReport
<1>2. ResultsInOrder /\ Heard
  BY DEF RunInv, FlowInv, Types
<1>3. Error("impl") \in Diagnosed
  BY DEF Diagnosed
<1>4. all \in Seq(Diagnosed) /\ ToSet(all) = ToSet(ds) \cup {Error("impl")}
  BY <1>3, Appended
<1> HIDE DEF all
<1>5. /\ ToSet(Distinct(all)) = ToSet(all)
      /\ Cardinality(ToSet(Distinct(all))) = Len(Distinct(all))
  BY <1>4, DistinctOnce
<1>6. Done' = Done
  BY DEF Done
<1>7. \A i \in 1 .. Done : ToSet(results[i].diagnostics) \subseteq ToSet(all)
  BY <1>2, <1>4 DEF Heard
<1>8. Heard'
  BY <1>1, <1>4, <1>6, <1>7 DEF Heard
<1>9. Listed'
  BY <1>1 DEF Listed
<1>10. ReportTellsHowFar'
  <2>1. /\ [i \in DOMAIN stages |-> stages[i].stage] = FLOW_STAGES
        /\ \A i \in DOMAIN stages :
              /\ stages[i].status = "Success" <=> i <= Done
              /\ stages[i].metrics <=> i <= Done
              /\ stages[i].status = "Failed" => i = Done + 1
    BY <1>2, SkippedFill
  <2> HIDE DEF stages
  <2>2. DOMAIN results = 1 .. Done
    BY <1>2 DEF ResultsInOrder, Done
  <2> QED
    BY <1>1, <1>5, <1>7, <2>1, <2>2 DEF ReportTellsHowFar, Done
<1>11. Ends'
  <2>1. Verdict'
    BY <1>1, <1>4, <1>5 DEF Verdict
  <2> QED
    BY <1>1, <2>1 DEF Ends
<1> QED
  BY <1>8, <1>9, <1>10, <1>11

LEMMA InitRun == ASSUME Init PROVE RunInv
<1>1. Done = 0 /\ diagnostics \in Seq(Diagnosed) /\ stage_reports \in Seq(Told)
      /\ Len(stage_reports) = 0
  BY DEF Init, Done
<1>2. Heard
  BY <1>1 DEF Init, Heard, TellsHowFar
<1>3. Listed /\ ReportTellsHowFar /\ Ends
  BY <1>1 DEF Init, Listed, ReportTellsHowFar, Ends
<1> QED
  BY <1>2, <1>3, InitFlow DEF RunInv

LEMMA RunStageTold ==
    ASSUME RunInv, RunStage PROVE Heard' /\ Listed' /\ ReportTellsHowFar' /\ Ends'
<1>1. PICK ws \in Warnings :
        LET r == StageReport(NextStage, "Success", ws, TRUE) IN
          /\ results' = Append(results, r)
          /\ stage_reports' = Append(stage_reports, r)
          /\ diagnostics' = diagnostics \o Live(ws) \o ws
  BY DEF RunStage
<1>2. /\ pc = "stage" /\ pc' = "artifact" /\ written' = 0
      /\ UNCHANGED <<options, recovering, report, published, outcome>>
  BY DEF RunStage
<1>3. /\ results \in Seq(Result) /\ Done \in 0 .. 5 /\ ~recovering
      /\ report = NoReport /\ outcome = "running"
  BY <1>2 DEF RunInv, FlowInv, Types, ResultsInOrder, Position, Heard, ReportsBorne, Ends
<1>4. /\ stage_reports \in Seq(Told) /\ Len(stage_reports) = Done
      /\ diagnostics \in Seq(Diagnosed)
      /\ \A i \in 1 .. Done : ToSet(results[i].diagnostics) \subseteq ToSet(diagnostics)
      /\ TellsHowFar(stage_reports)
  BY <1>3 DEF RunInv, Heard, TellsHowFar
<1>5. \A i \in 1 .. Done : /\ stage_reports[i].stage = FLOW_STAGES[i]
                           /\ stage_reports[i].status = "Success"
                           /\ stage_reports[i].metrics
  <2> TAKE i \in 1 .. Done
  <2>1. /\ stage_reports[i].stage = FLOW_STAGES[i]
        /\ stage_reports[i].status = IF i <= Done THEN "Success" ELSE "Failed"
        /\ stage_reports[i].metrics <=> i <= Done
    BY <1>4 DEF TellsHowFar
  <2>2. i <= Done
    BY <1>3
  <2> QED
    BY <2>1, <2>2
<1> DEFINE r == StageReport(NextStage, "Success", ws, TRUE)
<1>6. /\ NextStage = FLOW_STAGES[Done + 1] /\ NextStage \in Stages
      /\ ws \in {<<>>} \cup {<<Warning(s)>> : s \in Stages}
  <2>1. Done + 1 \in 1 .. 6
    BY <1>3
  <2>2. NextStage = FLOW_STAGES[Done + 1]
    BY DEF NextStage, Done
  <2>3. NextStage \in Stages
    BY <2>1, <2>2, StageNames
  <2> QED
    BY <2>2, <2>3 DEF Warnings
<1>7. ws \in Seq(Diagnosed) /\ Live(ws) \in Seq(Diagnosed)
  <2>1. \A s \in Stages : Warning(s) \in Diagnosed
    BY DEF Diagnosed
  <2>2. CASE ws = <<>>
    BY <2>2 DEF Live
  <2>3. CASE ws # <<>>
    <3>1. PICK s \in Stages : ws = <<Warning(s)>>
      BY <1>6, <2>3
    <3>2. ws \in Seq(Diagnosed)
      BY <2>1, <3>1
    <3> QED
      BY <3>2 DEF Live
  <2> QED
    BY <2>2, <2>3
<1>8. /\ r.stage = FLOW_STAGES[Done + 1] /\ r.status = "Success" /\ r.metrics = TRUE
      /\ r.diagnostics = ws /\ r.artifacts = {} /\ r \in Told /\ r \in Result
  BY <1>6, <1>7 DEF StageReport, Told, Result
<1>9. results' = Append(results, r) /\ stage_reports' = Append(stage_reports, r)
      /\ diagnostics' = diagnostics \o Live(ws) \o ws
  BY <1>1
<1> HIDE DEF r
<1>10. /\ Done' = Done + 1 /\ results'[Done + 1] = r
       /\ \A i \in 1 .. Done : results'[i] = results[i]
  BY <1>3, <1>8, <1>9 DEF Done
<1>11. /\ stage_reports' \in Seq(Told) /\ Len(stage_reports') = Done + 1
       /\ stage_reports'[Done + 1] = r
       /\ \A i \in 1 .. Done : stage_reports'[i] = stage_reports[i]
  <2>1. Len(stage_reports) = Done
    BY <1>4
  <2> QED
    BY <1>3, <1>4, <1>8, <1>9, <2>1, Appended
<1>12. /\ diagnostics' \in Seq(Diagnosed)
       /\ ToSet(diagnostics) \subseteq ToSet(diagnostics') /\ ToSet(ws) \subseteq ToSet(diagnostics')
  <2> DEFINE a == diagnostics \o Live(ws)
  <2>1. \A S : \A t, u \in Seq(S) : /\ t \o u \in Seq(S)
                                    /\ ToSet(t) \subseteq ToSet(t \o u)
                                    /\ ToSet(u) \subseteq ToSet(t \o u)
    <3> SUFFICES ASSUME NEW S, NEW t \in Seq(S), NEW u \in Seq(S)
                 PROVE  /\ t \o u \in Seq(S)
                        /\ ToSet(t) \subseteq ToSet(t \o u) /\ ToSet(u) \subseteq ToSet(t \o u)
      OBVIOUS
    <3>1. /\ t \o u \in Seq(S) /\ DOMAIN (t \o u) = 1 .. Len(t) + Len(u)
          /\ \A i \in 1 .. Len(t) : (t \o u)[i] = t[i]
          /\ \A i \in 1 .. Len(u) : (t \o u)[Len(t) + i] = u[i]
          /\ Len(t) \in Nat /\ Len(u) \in Nat /\ DOMAIN t = 1 .. Len(t) /\ DOMAIN u = 1 .. Len(u)
      OBVIOUS
    <3>2. ASSUME NEW x \in ToSet(t) PROVE x \in ToSet(t \o u)
      <4>1. PICK i \in 1 .. Len(t) : x = t[i]
        BY <3>1 DEF ToSet
      <4>2. i \in 1 .. Len(t) + Len(u)
        BY <3>1
      <4> QED
        BY <3>1, <4>1, <4>2 DEF ToSet
    <3>3. ASSUME NEW x \in ToSet(u) PROVE x \in ToSet(t \o u)
      <4>1. PICK i \in 1 .. Len(u) : x = u[i]
        BY <3>1 DEF ToSet
      <4>2. Len(t) + i \in 1 .. Len(t) + Len(u)
        BY <3>1
      <4> QED
        BY <3>1, <4>1, <4>2 DEF ToSet
    <3> QED
      BY <3>1, <3>2, <3>3
  <2>2. a \in Seq(Diagnosed) /\ ToSet(diagnostics) \subseteq ToSet(a)
    BY <1>4, <1>7, <2>1
  <2>3. diagnostics' = a \o ws
    BY <1>9
  <2> HIDE DEF a
  <2> QED
    BY <1>7, <2>1, <2>2, <2>3
<1>13. TellsHowFar(stage_reports)'
  <2>1. ASSUME NEW i \in 1 .. Done + 1
        PROVE  /\ stage_reports'[i].stage = FLOW_STAGES[i]
               /\ stage_reports'[i].status = "Success" /\ stage_reports'[i].metrics
    <3>1. i \in 1 .. Done \/ i = Done + 1
      BY <1>3
    <3> QED
      BY <1>5, <1>8, <1>11, <3>1
  <2>2. \A i \in 1 .. Done + 1 : i <= Done + 1
    BY <1>3
  <2>3. Done + 1 <= 6
    BY <1>3
  <2> QED
    BY <1>10, <1>11, <2>1, <2>2, <2>3 DEF TellsHowFar
<1>14. Heard'
  <2>1. \A i \in 1 .. Done + 1 : ToSet(results'[i].diagnostics) \subseteq ToSet(diagnostics')
    <3> TAKE i \in 1 .. Done + 1
    <3>1. i \in 1 .. Done \/ i = Done + 1
      BY <1>3
    <3> QED
      BY <1>4, <1>8, <1>10, <1>12, <3>1
  <2> QED
    BY <1>2, <1>3, <1>10, <1>11, <1>12, <1>13, <2>1 DEF Heard
<1>15. Listed'
  <2>1. ASSUME NEW i \in 1 .. Done + 1
        PROVE  results'[i].artifacts = {FilesOf(i)[k] : k \in 1 .. IF i = Done + 1 THEN 0
                                                                   ELSE Len(FilesOf(i))}
    <3>1. CASE i = Done + 1
      BY <1>8, <1>10, <3>1
    <3>2. CASE i # Done + 1
      <4>1. i \in 1 .. Done
        BY <1>3, <3>2
      <4> QED
        BY <1>2, <1>3, <1>10, <3>2, <4>1 DEF RunInv, Listed
    <3> QED
      BY <3>1, <3>2
  <2>2. \A i \in 1 .. 6 : FilesOf(i)' = FilesOf(i)
    BY <1>2 DEF FilesOf
  <2>3. \A i \in 1 .. Done + 1 : i \in 1 .. 6
    BY <1>3
  <2> QED
    BY <1>2, <1>10, <2>1, <2>2, <2>3 DEF Listed
<1> QED
  BY <1>2, <1>3, <1>14, <1>15 DEF ReportTellsHowFar, Ends

LEMMA WriteArtifactTold ==
    ASSUME RunInv, WriteArtifact PROVE Heard' /\ Listed' /\ ReportTellsHowFar' /\ Ends'
<1> DEFINE f == CurrentFiles[written + 1]
<1>1. /\ pc = "artifact"
      /\ results' = [results EXCEPT ![Done].artifacts = @ \cup {f}]
      /\ written' = written + 1
      /\ pc' = IF written + 1 = Len(CurrentFiles) THEN AfterStage ELSE pc
      /\ UNCHANGED <<options, report, published, reporterVars, recovering, outcome>>
  BY DEF WriteArtifact, Done
<1>2. /\ ResultsInOrder /\ Done \in 1 .. 6 /\ ~recovering /\ Heard /\ Listed
      /\ report = NoReport /\ outcome = "running"
  BY <1>1 DEF RunInv, FlowInv, Types, ResultsInOrder, Position, Heard, ReportsBorne, Ends
<1>3. CurrentFiles = FilesOf(Done)
  <2>1. results[Done].stage = FLOW_STAGES[Done]
    BY <1>2 DEF ResultsInOrder
  <2> QED
    BY <2>1 DEF CurrentFiles, FilesOf, Last, Done
<1>4. written \in 0 .. Len(FilesOf(Done)) - 1 /\ Len(FilesOf(Done)) \in Nat
  <2>1. Len(FilesOf(Done)) \in Nat \ {0}
    BY <1>2, StageArtifacts DEF FilesOf, RunInv, FlowInv, Types
  <2> QED
    BY <1>1, <2>1 DEF RunInv, FlowInv, Position
<1>5. /\ pc' # "finish" /\ pc' # "done"
      /\ pc' = "artifact" => written + 1 # Len(FilesOf(Done))
      /\ pc' # "artifact" => written + 1 = Len(FilesOf(Done))
  <2>1. AfterStage \in {"report", "lower", "stage"}
    BY DEF AfterStage
  <2> QED
    BY <1>1, <1>3, <2>1
<1> HIDE DEF f
<1> DEFINE r == [results[Done] EXCEPT !.artifacts = @ \cup {f}]
<1>6. results[Done] \in Result /\ results' = [results EXCEPT ![Done] = r]
  <2>1. results[Done] \in Result
    BY <1>2, EntryReplaced DEF ResultsInOrder, Done
  <2> QED
    BY <1>1, <2>1
<1>7. r.diagnostics = results[Done].diagnostics /\ r.artifacts = results[Done].artifacts \cup {f}
  BY <1>6 DEF Result
<1> HIDE DEF r
<1>8. Done' = Done /\ \A i \in 1 .. Done : results'[i] = IF i = Done THEN r ELSE results[i]
  BY <1>2, <1>6 DEF ResultsInOrder, Done
<1>9. Heard'
  <2>1. \A i \in 1 .. Done : results'[i].diagnostics = results[i].diagnostics
    BY <1>7, <1>8
  <2>2. diagnostics' = diagnostics /\ stage_reports' = stage_reports /\ recovering' = recovering
    BY <1>1 DEF reporterVars
  <2>3. TellsHowFar(stage_reports)'
    BY <1>2, <1>8, <2>2 DEF Heard, TellsHowFar
  <2> QED
    BY <1>2, <1>5, <1>8, <2>1, <2>2, <2>3 DEF Heard
<1>10. Listed'
  <2>1. \A i \in 1 .. 6 : FilesOf(i)' = FilesOf(i)
    BY <1>1 DEF FilesOf
  <2>2. ASSUME NEW i \in 1 .. Done, i # Done
        PROVE  results'[i].artifacts = {FilesOf(i)[k] : k \in 1 .. Len(FilesOf(i))}
    BY <1>2, <1>8, <2>2 DEF Listed
  <2>3. results'[Done].artifacts = {FilesOf(Done)[k] : k \in 1 .. written + 1}
    <3>1. results[Done].artifacts = {FilesOf(Done)[k] : k \in 1 .. written}
      <4>1. Done \in 1 .. Done
        BY <1>2
      <4> QED
        BY <1>1, <1>2, <4>1 DEF Listed
    <3>2. f = FilesOf(Done)[written + 1]
      BY <1>3 DEF f
    <3>3. 1 .. written + 1 = (1 .. written) \cup {written + 1}
      BY <1>4
    <3>4. results'[Done].artifacts = results[Done].artifacts \cup {f}
      BY <1>2, <1>7, <1>8
    <3> QED
      BY <3>1, <3>2, <3>3, <3>4
  <2>4. ASSUME NEW i \in 1 .. Done
        PROVE  results'[i].artifacts =
                 {FilesOf(i)[k] : k \in 1 .. IF i = Done /\ pc' = "artifact" THEN written + 1
                                             ELSE Len(FilesOf(i))}
    BY <1>5, <2>2, <2>3
  <2>5. \A i \in 1 .. Done : FilesOf(i)' = FilesOf(i)
    BY <1>2, <2>1
  <2> QED
    BY <1>1, <1>8, <2>4, <2>5 DEF Listed
<1> QED
  BY <1>1, <1>2, <1>5, <1>9, <1>10 DEF ReportTellsHowFar, Ends

\* build_report: all stages are done and all their files on disk.
LEMMA BuildReportTold ==
    ASSUME RunInv, BuildReport PROVE Heard' /\ Listed' /\ ReportTellsHowFar' /\ Ends'
<1> DEFINE lists == [i \in 1 .. Len(results) |-> results[i].diagnostics]
           ds == FlattenSeq(lists)
           Warned == {Warning(s) : s \in Stages}
<1>1. /\ pc = "report" /\ pc' = "finish" /\ written' = 0
      /\ report' = [status |-> IF TimingFailure THEN "Failed" ELSE "Success",
                    stages |-> results,
                    diagnostics |-> IF TimingFailure THEN Append(ds, Error("sta")) ELSE ds,
                    artifacts |-> ArtifactMap(disk)]
      /\ diagnostics' = IF TimingFailure THEN Append(diagnostics, Error("sta")) ELSE diagnostics
      /\ UNCHANGED <<options, results, violated, stage_reports, recovering, disk, outcome>>
  BY DEF BuildReport
<1>2. /\ ResultsInOrder /\ results \in Seq(Result) /\ Done = 6 /\ ~recovering /\ Heard /\ Listed
      /\ outcome = "running" /\ options.emit_sidecar \in BOOLEAN
  BY <1>1 DEF RunInv, FlowInv, Types, ResultsInOrder, Position, Heard, Ends
<1>3. \A i \in 1 .. 6 : /\ results[i].stage = FLOW_STAGES[i] /\ results[i].status = "Success"
                        /\ results[i].metrics = TRUE
                        /\ results[i].diagnostics \in {<<>>} \cup {<<Warning(s)>> : s \in Stages}
  <2> TAKE i \in 1 .. 6
  <2>1. results[i] \in Result
    BY <1>2, EntryReplaced DEF ResultsInOrder, Done
  <2> QED
    BY <1>2, <2>1 DEF ResultsInOrder, Result
<1>4. ds \in Seq(Warned)
  <2>1. \A i \in 1 .. 6 : results[i].diagnostics \in Seq(Warned)
    <3> TAKE i \in 1 .. 6
    <3>1. CASE results[i].diagnostics = <<>>
      BY <3>1
    <3>2. CASE results[i].diagnostics # <<>>
      <4>1. PICK s \in Stages : results[i].diagnostics = <<Warning(s)>>
        BY <1>3, <3>2
      <4>2. Warning(s) \in Warned
        OBVIOUS
      <4> QED
        BY <4>1, <4>2
    <3> QED
      BY <3>1, <3>2
  <2>2. Len(results) = 6
    BY <1>2 DEF Done
  <2>3. lists \in [1 .. 6 -> Seq(Warned)]
    BY <2>1, <2>2
  <2>4. ds = FlattenSeq(lists)
    OBVIOUS
  <2> HIDE DEF lists, Warned, ds
  <2>5. 6 \in Nat /\ 6 > 0
    OBVIOUS
  <2> QED
    BY <2>3, <2>4, <2>5, Flattened
<1>5. Error("sta") \in Diagnosed /\ Warned \subseteq Diagnosed
  <2>1. "sta" \in Stages
    BY StageNames DEF FLOW_STAGES
  <2> QED
    BY <2>1 DEF Diagnosed
<1>6. TimingFailure => Error("sta") \in ToSet(report'.diagnostics)
  <2>1. ds \in Seq(Diagnosed)
    <3> HIDE DEF ds, Warned
    <3> QED
      BY <1>4, <1>5
  <2> HIDE DEF ds
  <2> QED
    BY <1>1, <1>5, <2>1, Appended
<1>7. ~TimingFailure => report'.diagnostics \in Seq({Warning(s) : s \in Stages})
  BY <1>1, <1>4
<1> HIDE DEF ds, lists, Warned
<1>8. \A g \in StageFiles(options.emit_sidecar) : disk[g] = "own"
  <2>1. \A i \in 1 .. 6 : \A k \in 1 .. Len(FilesOf(i)) : disk[FilesOf(i)[k]] = "own"
    BY <1>1, <1>2 DEF RunInv, FlowInv, ArtifactsOwn
  <2> QED
    BY <1>2, <2>1, AllStageFiles, SMTT(30) DEF FilesOf
<1>9. report'.artifacts = StageFiles(options.emit_sidecar) \cup ToSet(RunFiles)
  BY <1>1, <1>8 DEF ArtifactMap
<1>10. Done' = Done /\ TimingFailure' = TimingFailure
  BY <1>1 DEF Done, TimingFailure
<1>11. Heard'
  <2>1. /\ diagnostics' \in Seq(Diagnosed) /\ ToSet(diagnostics) \subseteq ToSet(diagnostics')
    BY <1>1, <1>2, <1>5, Appended DEF Heard
  <2>2. TellsHowFar(stage_reports)'
    BY <1>1, <1>2, <1>10 DEF Heard, TellsHowFar
  <2> QED
    BY <1>1, <1>2, <1>10, <2>1, <2>2 DEF Heard
<1>12. Listed'
  <2>1. \A i \in 1 .. Done : FilesOf(i)' = FilesOf(i)
    BY <1>1 DEF FilesOf
  <2> QED
    BY <1>1, <1>2, <1>10, <2>1, ZenonT(40) DEF Listed
<1>13. ReportTellsHowFar'
  <2>1. report'.stages = results /\ DOMAIN results = 1 .. 6 /\ Len(results) = 6
    BY <1>1, <1>2 DEF Done
  <2>2. [i \in DOMAIN results |-> results[i].stage] = FLOW_STAGES
    BY <1>3, <2>1, StageList
  <2>3. \A i \in 1 .. 6 : i <= 6
    OBVIOUS
  <2> QED
    BY <1>1, <1>2, <1>3, <2>1, <2>2, <2>3 DEF ReportTellsHowFar
<1>14. Ends'
  <2>1. /\ report'.status = IF TimingFailure THEN "Failed" ELSE "Success"
        /\ report'.stages = results
    BY <1>1
  <2>2. Verdict'
    BY <1>1, <1>2, <1>6, <1>7, <1>8, <1>9, <1>10, <2>1 DEF Verdict
  <2> QED
    BY <1>1, <1>2, <2>2 DEF Ends
<1> QED
  BY <1>11, <1>12, <1>13, <1>14

\* Writing a run file changes no artifact.
LEMMA FinishRunTold ==
    ASSUME RunInv, FinishRun PROVE Heard' /\ Listed' /\ ReportTellsHowFar' /\ Ends'
<1> DEFINE f == RunFiles[written + 1]
<1>1. /\ pc = "finish" /\ disk' = [disk EXCEPT ![f] = report.status]
      /\ published' = IF written = 0 THEN report ELSE published
      /\ written' = written + 1
      /\ IF written + 1 = 3 THEN pc' = "done" /\ outcome' = Finished
         ELSE UNCHANGED <<pc, outcome>>
      /\ UNCHANGED <<options, results, violated, reporterVars, recovering, report>>
  BY DEF FinishRun, RunFiles
<1>2. /\ written \in 0 .. 2 /\ Verdict /\ Heard /\ Listed /\ outcome = "running"
      /\ \A k \in 1 .. written : disk[RunFiles[k]] = report.status
      /\ written > 0 => published = report
      /\ DOMAIN disk = Files /\ options.emit_sidecar \in BOOLEAN
  BY <1>1 DEF RunInv, FlowInv, Types, Position, Ends
<1>3. f \in ToSet(RunFiles) /\ f \in Files
  BY <1>2, RunFilesApart
<1>4. disk'[f] = report.status /\ \A g \in Files : g # f => disk'[g] = disk[g]
  BY <1>1, <1>2, <1>3
<1>5. published' = report
  BY <1>1, <1>2
<1>6. \A k \in 1 .. written + 1 : disk'[RunFiles[k]] = report.status
  <2> TAKE k \in 1 .. written + 1
  <2>1. CASE RunFiles[k] = f
    BY <1>4, <2>1
  <2>2. CASE RunFiles[k] # f
    <3>1. k \in 1 .. written /\ k \in 1 .. 3
      BY <1>2, <2>2
    <3>2. RunFiles[k] \in Files
      BY <3>1, RunFilesApart
    <3> QED
      BY <1>2, <1>4, <2>2, <3>1, <3>2
  <2> QED
    BY <2>1, <2>2
<1>7. \A g \in StageFiles(options.emit_sidecar) : g \in Files /\ g # f
  <2> TAKE g \in StageFiles(options.emit_sidecar)
  <2>1. PICK i \in 1 .. 6 : \E k \in 1 .. Len(FilesOf(i)) : g = FilesOf(i)[k]
    BY <1>2, AllStageFiles DEF FilesOf
  <2>2. g \in Files
    BY <1>2, <2>1, StageArtifacts, SMTT(30) DEF FilesOf
  <2> QED
    BY <1>2, <1>3, <2>2, RunFilesNotOfStages
<1> HIDE DEF f
<1>8. Done' = Done /\ TimingFailure' = TimingFailure /\ Finished' = Finished
  BY <1>1 DEF Done, TimingFailure, Finished
<1>9. Verdict'
  BY <1>1, <1>2, <1>4, <1>7, <1>8 DEF Verdict
<1>10. Ends'
  <2>1. CASE written + 1 = 3
    <3>1. /\ pc' = "done" /\ outcome' = Finished
          /\ \A k \in 1 .. 3 : disk'[RunFiles[k]] = report.status
      BY <1>1, <1>6, <2>1
    <3> QED
      BY <1>1, <1>5, <1>8, <1>9, <3>1 DEF Ends
  <2>2. CASE written + 1 # 3
    <3>1. pc' = "finish" /\ outcome' = "running" /\ report' = report /\ written' = written + 1
      BY <1>1, <1>2, <2>2
    <3> QED
      BY <1>5, <1>6, <1>9, <3>1 DEF Ends
  <2> QED
    BY <2>1, <2>2
<1>11. Heard'
  <2>1. TellsHowFar(stage_reports)' <=> TellsHowFar(stage_reports)
    BY <1>1, <1>8 DEF TellsHowFar, reporterVars
  <2> QED
    BY <1>1, <1>2, <1>8, <2>1 DEF Heard, reporterVars
<1>12. Listed'
  <2>1. \A i \in 1 .. Done : FilesOf(i)' = FilesOf(i)
    BY <1>1 DEF FilesOf
  <2>2. pc' # "artifact"
    BY <1>1
  <2> QED
    BY <1>1, <1>2, <1>8, <2>1, <2>2 DEF Listed
<1>13. ReportTellsHowFar'
  BY <1>1, <1>8 DEF RunInv, ReportTellsHowFar, reporterVars, Done
<1> QED
  BY <1>10, <1>11, <1>12, <1>13

\* The steps that leave the reports alone.
LEMMA OthersTold ==
    ASSUME RunInv,
           \/ CreateOutDir \/ CreateOutDirFails \/ LoadInputs \/ LowerForRoute \/ UNCHANGED vars
    PROVE  Heard' /\ Listed' /\ ReportTellsHowFar' /\ Ends'
<1>1. /\ UNCHANGED <<options, written, results, violated, stage_reports, diagnostics, recovering,
                     report, published, disk>>
      /\ \/ pc \in {"start", "load", "lower"} /\ pc' \in {"load", "stage"} /\ outcome' = outcome
         \/ pc = "start" /\ pc' = "done" /\ outcome' = "unreported"
         \/ UNCHANGED <<pc, outcome>>
  BY DEF CreateOutDir, CreateOutDirFails, LoadInputs, LowerForRoute, vars, reporterVars
<1>2. Done' = Done /\ TimingFailure' = TimingFailure /\ Finished' = Finished
  BY <1>1 DEF Done, TimingFailure, Finished
<1>3. Heard'
  <2>1. TellsHowFar(stage_reports)' <=> TellsHowFar(stage_reports)
    BY <1>1, <1>2 DEF TellsHowFar
  <2> QED
    BY <1>1, <1>2, <2>1 DEF RunInv, Heard
<1>4. Listed'
  <2>1. \A i \in 1 .. Done : FilesOf(i)' = FilesOf(i)
    BY <1>1 DEF FilesOf
  <2>2. pc' = "artifact" <=> pc = "artifact"
    BY <1>1
  <2> QED
    BY <1>1, <1>2, <2>1, <2>2 DEF RunInv, Listed
<1>5. ReportTellsHowFar'
  BY <1>1 DEF RunInv, ReportTellsHowFar
<1>6. Ends'
  <2>1. Verdict' <=> Verdict
    BY <1>1, <1>2 DEF Verdict
  <2> QED
    BY <1>1, <1>2, <2>1 DEF RunInv, Ends
<1> QED
  BY <1>3, <1>4, <1>5, <1>6

\* The failures of run_pipeline.
LEMMA FailuresTold ==
    ASSUME RunInv, PreparationFails \/ StageFails \/ WriteArtifactFails
    PROVE  Heard' /\ Listed' /\ ReportTellsHowFar' /\ Ends'
<1>1. /\ pc \in {"load", "lower", "stage", "artifact"}
      /\ UNCHANGED <<options, results, outcome>>
  BY DEF PreparationFails, StageFails, WriteArtifactFails
<1>2. /\ ~recovering /\ Heard /\ outcome = "running" /\ Done \in 0 .. 6
      /\ TellsHowFar(stage_reports) /\ Len(stage_reports) = Done
      /\ diagnostics \in Seq(Diagnosed)
  BY <1>1 DEF RunInv, FlowInv, Types, ResultsInOrder, Heard, Ends
<1>3. CASE PreparationFails
  BY <1>1, <1>2, <1>3, FailureTold DEF PreparationFails
<1>4. CASE WriteArtifactFails
  BY <1>1, <1>2, <1>4, FailureTold DEF WriteArtifactFails
<1>5. CASE StageFails
  <2>1. PICK ws \in Warnings :
          LET ds == diagnostics \o Live(ws) \o <<Error(NextStage)>> IN
            PipelineFails(HeardFailed(ds), ds, disk)
    BY <1>5 DEF StageFails
  <2>2. Done \in 0 .. 5 /\ NextStage = FLOW_STAGES[Done + 1] /\ NextStage \in Stages
    <3>1. Done \in 0 .. 5
      BY <1>2, <1>5 DEF StageFails, RunInv, FlowInv, Position
    <3>2. Done + 1 \in 1 .. 6 /\ NextStage = FLOW_STAGES[Done + 1]
      <4>1. NextStage = FLOW_STAGES[Done + 1]
        BY DEF NextStage, Done
      <4> QED
        BY <3>1, <4>1
    <3> QED
      BY <3>1, <3>2, StageNames
  <2> DEFINE a == diagnostics \o Live(ws)
             ds == a \o <<Error(NextStage)>>
  <2>3. Live(ws) \in Seq(Diagnosed)
    <3>1. CASE ws = <<>>
      BY <3>1 DEF Live
    <3>2. CASE ws # <<>>
      <4>1. PICK s \in {"route", "sta"} \cap {NextStage} : ws = <<Warning(s)>>
        BY <3>2 DEF Warnings
      <4>2. Warning(s) \in Diagnosed
        BY <2>2 DEF Diagnosed
      <4> QED
        BY <4>1, <4>2 DEF Live
    <3> QED
      BY <3>1, <3>2
  <2>4. a \in Seq(Diagnosed) /\ ToSet(diagnostics) \subseteq ToSet(a)
    <3>1. a \in Seq(Diagnosed)
      BY <1>2, <2>3
    <3>2. /\ DOMAIN diagnostics = 1 .. Len(diagnostics) /\ DOMAIN a = 1 .. Len(a)
          /\ Len(diagnostics) \in Nat /\ Len(a) \in Nat /\ Len(a) >= Len(diagnostics)
          /\ \A i \in 1 .. Len(diagnostics) : a[i] = diagnostics[i]
      BY <1>2, <2>3
    <3> HIDE DEF a
    <3>3. 1 .. Len(diagnostics) \subseteq 1 .. Len(a)
      BY <3>2
    <3> QED
      BY <3>1, <3>2, <3>3 DEF ToSet
  <2>5. ds \in Seq(Diagnosed) /\ ToSet(a) \subseteq ToSet(ds)
    <3>1. Error(NextStage) \in Diagnosed
      BY <2>2 DEF Diagnosed
    <3> HIDE DEF a
    <3>2. ds = Append(a, Error(NextStage))
      BY <2>4
    <3> HIDE DEF ds
    <3> QED
      BY <2>4, <3>1, <3>2, Appended
  <2> DEFINE r == StageReport(NextStage, "Failed", ds, FALSE)
  <2>6. PipelineFails(Append(stage_reports, r), ds, disk)
    BY <2>1 DEF HeardFailed
  <2> HIDE DEF ds
  <2>7. r \in Told /\ r.stage = FLOW_STAGES[Done + 1] /\ r.status = "Failed" /\ r.metrics = FALSE
    BY <2>2, <2>5 DEF StageReport, Told
  <2> HIDE DEF r
  <2> DEFINE reports == Append(stage_reports, r)
  <2>8. stage_reports \in Seq(Told) /\ Len(stage_reports) = Done
    BY <1>2 DEF TellsHowFar
  <2>9. /\ reports \in Seq(Told) /\ Len(reports) = Done + 1
        /\ \A i \in 1 .. Done : reports[i] = stage_reports[i]
        /\ reports[Done + 1] = r
    BY <2>7, <2>8, Appended
  <2> HIDE DEF reports
  <2>10. ASSUME NEW i \in 1 .. Done + 1
         PROVE  /\ reports[i].stage = FLOW_STAGES[i]
                /\ reports[i].status = IF i <= Done THEN "Success" ELSE "Failed"
                /\ reports[i].metrics <=> i <= Done
    <3>1. CASE i = Done + 1
      <4>1. ~(i <= Done)
        BY <2>2, <3>1
      <4> QED
        BY <2>7, <2>9, <3>1, <4>1
    <3>2. CASE i # Done + 1
      <4>1. i \in 1 .. Done /\ reports[i] = stage_reports[i]
        BY <2>2, <2>9, <3>2
      <4> QED
        BY <1>2, <4>1 DEF TellsHowFar
    <3> QED
      BY <3>1, <3>2
  <2>11. Done + 1 <= 6
    BY <2>2
  <2>12. TellsHowFar(reports)
    BY <2>9, <2>10, <2>11 DEF TellsHowFar
  <2>13. ToSet(diagnostics) \subseteq ToSet(ds)
    BY <2>4, <2>5
  <2>14. PipelineFails(reports, ds, disk)
    BY <2>6 DEF reports
  <2> QED
    BY <1>1, <1>2, <2>5, <2>12, <2>13, <2>14, FailureTold
<1> QED
  BY <1>3, <1>4, <1>5

LEMMA FinishRunFailsTold ==
    ASSUME RunInv, FinishRunFails PROVE Heard' /\ Listed' /\ ReportTellsHowFar' /\ Ends'
<1>1. PICK files \in DiskAfterFailedWrite(RunFiles[written + 1]) :
        IF recovering
        THEN /\ disk' = files /\ pc' = "done" /\ outcome' = "unreported"
             /\ UNCHANGED <<reporterVars, recovering, report, written>>
        ELSE PipelineFails(stage_reports, diagnostics, files) /\ UNCHANGED outcome
  BY DEF FinishRunFails
<1>2. pc = "finish" /\ UNCHANGED <<options, results, violated>>
  BY DEF FinishRunFails
<1>3. Heard /\ outcome = "running"
  BY <1>2 DEF RunInv, Ends
<1>4. CASE ~recovering
  BY <1>1, <1>2, <1>3, <1>4, FailureTold DEF Heard
<1>5. CASE recovering
  <2>1. /\ pc' = "done" /\ outcome' = "unreported"
        /\ UNCHANGED <<stage_reports, diagnostics, recovering, report>>
    BY <1>1, <1>5 DEF reporterVars
  <2> QED
    BY <1>2, <1>3, <1>5, <2>1 DEF RunInv, Heard, Listed, ReportTellsHowFar, Ends, Done
<1> QED
  BY <1>4, <1>5

\* Report, summary, log, artifacts and exit code of a run agree (run_internal,
\* finish_run, build_failure_report), for any number of failing operations.
THEOREM RunTellsTheTruthHolds == Spec => []RunTellsTheTruth
<1>1. Init => RunInv
  BY InitRun
<1>2. RunInv /\ [Next]_vars => RunInv'
  <2> SUFFICES ASSUME RunInv, [Next]_vars PROVE RunInv'
    OBVIOUS
  <2>1. FlowInv
    BY DEF RunInv
  <2>2. FlowInv'
    BY <2>1, StepRunStage, StepWriteArtifact, StepBuildReport, StepFinishRun, StepFinishRunFails,
       StepOthers DEF Next, Succeed, Fail, Terminated
  <2>3. Heard' /\ Listed' /\ ReportTellsHowFar' /\ Ends'
    BY RunStageTold, WriteArtifactTold, BuildReportTold, FinishRunTold, OthersTold, FailuresTold,
       FinishRunFailsTold DEF Next, Succeed, Fail, Terminated
  <2> QED
    BY <2>2, <2>3 DEF RunInv
<1>3. RunInv => RunTellsTheTruth
  <2> SUFFICES ASSUME RunInv PROVE ReportTellsHowFar /\ ExitCodeMatchesFiles
    BY DEF RunTellsTheTruth
  <2>1. ReportTellsHowFar
    BY DEF RunInv
  <2>2. ASSUME outcome \in {"ok", "partial", "timing"}
        PROVE  /\ pc = "done" /\ Verdict /\ outcome = Finished
               /\ \A k \in 1 .. 3 : disk[RunFiles[k]] = report.status
               /\ published = report
    BY <2>2 DEF RunInv, Ends
  <2>3. CASE outcome = "ok"
    <3>1. /\ ~recovering /\ ~TimingFailure
          /\ \A k \in 1 .. 3 : disk[RunFiles[k]] = report.status
          /\ published = report /\ Verdict
      BY <2>2, <2>3 DEF Finished
    <3>2. /\ Done = 6 /\ published.stages = results /\ published.status = "Success"
          /\ \A f \in StageFiles(options.emit_sidecar) : disk[f] = "own"
          /\ published.artifacts = StageFiles(options.emit_sidecar) \cup ToSet(RunFiles)
          /\ published.diagnostics \in Seq({Warning(s) : s \in Stages})
      BY <3>1 DEF Verdict
    <3>3. DOMAIN results = 1 .. 6 /\ options.emit_sidecar \in BOOLEAN
      BY <3>2 DEF RunInv, FlowInv, Types, ResultsInOrder, Done
    <3>4. \A i \in 1 .. 6 : results[i].artifacts = ToSet(FilesOf(i))
      <4> TAKE i \in 1 .. 6
      <4>1. results[i].artifacts = {FilesOf(i)[k] : k \in 1 .. Len(FilesOf(i))}
        BY <2>2, <2>3, <3>1, <3>2 DEF RunInv, Listed
      <4>2. DOMAIN FilesOf(i) = 1 .. Len(FilesOf(i))
        BY <3>3, StageArtifacts DEF FilesOf
      <4> QED
        BY <4>1, <4>2 DEF ToSet
    <3>5. \A d \in ToSet(published.diagnostics) : d.severity # "error"
      <4> TAKE d \in ToSet(published.diagnostics)
      <4>1. d \in {Warning(s) : s \in Stages}
        BY <3>2 DEF ToSet
      <4> QED
        BY <4>1 DEF Warning
    <3> QED
      BY <2>1, <2>3, <3>1, <3>2, <3>3, <3>4, <3>5 DEF ExitCodeMatchesFiles, FilesOf
  <2>4. CASE outcome \in {"partial", "timing"}
    <3>1. /\ \A k \in 1 .. 3 : disk[RunFiles[k]] = report.status
          /\ published = report /\ Verdict
          /\ outcome = "partial" => recovering
          /\ outcome = "timing" => ~recovering /\ TimingFailure
      <4>1. /\ \A k \in 1 .. 3 : disk[RunFiles[k]] = report.status
            /\ published = report /\ Verdict
            /\ outcome = IF recovering THEN "partial" ELSE IF TimingFailure THEN "timing" ELSE "ok"
        BY <2>2, <2>4 DEF Finished
      <4>2. "partial" # "timing" /\ "partial" # "ok" /\ "timing" # "ok"
        OBVIOUS
      <4> QED
        BY <4>1, <4>2, Zenon
    <3> QED
      BY <2>1, <2>4, <3>1 DEF ExitCodeMatchesFiles, Verdict
  <2> QED
    BY <2>1, <2>3, <2>4 DEF ExitCodeMatchesFiles
<1> QED
  BY <1>1, <1>2, <1>3, PTL DEF Spec

=============================================================================
