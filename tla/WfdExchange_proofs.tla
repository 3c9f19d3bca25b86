---- MODULE WfdExchange_proofs ----
EXTENDS WfdParser_proofs

(* What holds of the messages of the exchange: all that is made, by a user *)
(* of the classes, by the programs or by another device, can be held; the  *)
(* headers are read as they were printed; what was read from a printed     *)
(* text is sound; what can be said is read in one way only.  The invariant *)
(* HeldInv, and Followed beside it, carry that from step to step.          *)

----------------------------------------------------------------------------
(* The sample numbers, and the members made of them, are ones that the     *)
(* classes can hold.                                                       *)
LEMMA RepeatedDigits ==
  ASSUME NEW d \in 0 .. 15, NEW n \in Nat
  PROVE  Repeated(d, n) \in Seq(0 .. 15) /\ Len(Repeated(d, n)) = n /\ (n > 0 => Repeated(d, n)[1] = d)
<1>1. Repeated(d, n) = [i \in 1 .. n |-> d]
  BY DEF Repeated
<1> QED BY <1>1

(* Digits after a leading one that is not zero are digits.                 *)
LEMMA LeadingDigit ==
  ASSUME NEW s \in Seq(0 .. 15), s # <<>>, s[1] # 0, NEW t \in Seq(0 .. 15)
  PROVE  s \o t \in Digits /\ Len(s \o t) = Len(s) + Len(t)
<1> DEFINE r == s \o t
<1>1. r \in Seq(0 .. 15) /\ Len(r) = Len(s) + Len(t) /\ r[1] = s[1]
  OBVIOUS
<1> HIDE DEF r
<1>2. r \in Digits
  BY <1>1 DEF Digits
<1> QED BY <1>1, <1>2 DEF r

(* A sample number is a number.                                            *)
LEMMA SampleIsNumber ==
  ASSUME NEW w \in 1 .. 16, NEW n \in Sample(w)
  PROVE  n \in [num : Digits]
<1>1. <<>> \in Digits /\ <<1>> \in Digits
  BY DEF Digits
<1>2. Repeated(15, w) \in Digits
  <2> DEFINE x == 15
  <2>1. x \in 0 .. 15 /\ x # 0 /\ w \in Nat /\ w > 0
    OBVIOUS
  <2> HIDE DEF x
  <2>2. Repeated(x, w) \in Seq(0 .. 15) /\ Repeated(x, w)[1] # 0
    BY <2>1, RepeatedDigits
  <2>3. Repeated(x, w) \in Digits
    BY <2>2 DEF Digits
  <2> QED BY <2>3 DEF x
<1>3. <<7>> \o Repeated(0, w - 1) \in Digits
  <2> DEFINE t == Repeated(0, w - 1)
             s == <<7>>
  <2>1. t \in Seq(0 .. 15)
    <3> DEFINE z == 0
               m == w - 1
    <3>1. z \in 0 .. 15 /\ m \in Nat
      OBVIOUS
    <3> HIDE DEF z, m
    <3>2. Repeated(z, m) \in Seq(0 .. 15)
      BY <3>1, RepeatedDigits
    <3> QED BY <3>2 DEF z, m
  <2>2. s \in Seq(0 .. 15) /\ s # <<>> /\ s[1] # 0
    OBVIOUS
  <2> HIDE DEF s, t
  <2>3. s \o t \in Digits
    BY <2>1, <2>2, LeadingDigit
  <2> QED BY <2>3 DEF s, t
<1>4. <<9, 1, 2>> \o Repeated(0, IF w > 3 THEN w - 3 ELSE 0) \in Digits
  <2> DEFINE t == Repeated(0, IF w > 3 THEN w - 3 ELSE 0)
             s == <<9, 1, 2>>
  <2>1. t \in Seq(0 .. 15)
    <3> DEFINE z == 0
               m == IF w > 3 THEN w - 3 ELSE 0
    <3>1. z \in 0 .. 15 /\ m \in Nat
      OBVIOUS
    <3> HIDE DEF z, m
    <3>2. Repeated(z, m) \in Seq(0 .. 15)
      BY <3>1, RepeatedDigits
    <3> QED BY <3>2 DEF z, m
  <2>2. s \in Seq(0 .. 15) /\ s # <<>> /\ s[1] # 0
    OBVIOUS
  <2> HIDE DEF s, t
  <2>3. s \o t \in Digits
    BY <2>1, <2>2, LeadingDigit
  <2> QED BY <2>3 DEF s, t
<1>5. \E d \in Digits : n = Num(d)
  <2> DEFINE a == Repeated(15, w)
             b == <<7>> \o Repeated(0, w - 1)
             c == <<9, 1, 2>> \o Repeated(0, IF w > 3 THEN w - 3 ELSE 0)
  <2>1. n = Num(<<>>) \/ n = Num(<<1>>) \/ n = Num(a) \/ n = Num(b) \/ n = Num(c)
    BY Zenon DEF Sample
  <2>2. a \in Digits /\ b \in Digits /\ c \in Digits
    BY <1>2, <1>3, <1>4
  <2> HIDE DEF a, b, c
  <2> QED BY <1>1, <2>1, <2>2
<1> QED BY <1>5 DEF Num

(* The samples that fit a width are numbers of that width.                 *)
LEMMA FittingIsHeld ==
  ASSUME NEW w \in 1 .. 16
  PROVE  Fitting(w) \subseteq Number(w)
<1> SUFFICES ASSUME NEW n \in Fitting(w) PROVE n \in Number(w)
  OBVIOUS
<1>1. n \in Sample(w) /\ Len(n.num) <= w
  BY DEF Fitting
<1>2. n \in [num : Digits]
  BY <1>1, SampleIsNumber
<1> QED BY <1>1, <1>2 DEF Number

(* Numbers within the widths of the members are a vector.                  *)
LEMMA IsVector ==
  ASSUME NEW members \in Seq(1 .. 16), NEW v, v = [j \in 1 .. Len(members) |-> v[j]],
         \A j \in 1 .. Len(members) : v[j] \in [num : Digits] /\ Len(v[j].num) <= members[j]
  PROVE  v \in Vectors(members)
<1>1. Len(members) \in Nat /\ \A j \in 1 .. Len(members) : members[j] \in 1 .. 16
  OBVIOUS
<1>2. \A j \in 1 .. Len(members) : v[j] \in Number(members[j])
  BY DEF Number
<1>3. ASSUME NEW j \in 1 .. Len(members) PROVE v[j] \in Number(16)
  <2>1. v[j] \in [num : Digits] /\ Len(v[j].num) <= members[j] /\ members[j] \in 1 .. 16
    BY <1>1
  <2>2. Len(v[j].num) \in Nat
    BY <2>1 DEF Digits
  <2>3. Len(v[j].num) <= 16
    BY <2>1, <2>2
  <2> QED BY <2>1, <2>3 DEF Number
<1> DEFINE n == Len(members)
           S == Number(16)
<1>4. n \in Nat /\ v = [j \in 1 .. n |-> v[j]] /\ \A j \in 1 .. n : v[j] \in S
  BY <1>1, <1>3
<1> HIDE DEF n, S
<1>5. v \in [1 .. n -> S]
  BY <1>4
<1>6. v \in Seq(S) /\ Len(v) = n
  BY <1>4, <1>5
<1> QED BY <1>2, <1>6 DEF Vectors, n, S

(* The sample vectors are ones that can be held.                           *)
LEMMA InstancesAreHeld ==
  ASSUME NEW members \in Seq(1 .. 16), NEW v \in Instances(members)
  PROVE  v \in Vectors(members)
<1> DEFINE All == UNION {Fitting(members[j]) : j \in DOMAIN members}
           one == Num(<<1>>)
<1>1. v \in Members(members) /\ WellTyped(members, v)
  BY DEF Instances
<1>2. PICK i \in DOMAIN members, n \in All : v = [Ones(members) EXCEPT ![i] = n]
  <2>1. Members(members) = {[Ones(members) EXCEPT ![i] = n] : i \in DOMAIN members, n \in All}
    BY DEF Members
  <2> HIDE DEF All
  <2> QED BY <1>1, <2>1
<1>3. DOMAIN members = 1 .. Len(members) /\ \A j \in 1 .. Len(members) : members[j] \in 1 .. 16
  OBVIOUS
<1>4. n \in [num : Digits]
  <2>1. PICK j \in DOMAIN members : n \in Fitting(members[j])
    BY <1>2, Zenon
  <2>2. n \in Number(members[j])
    BY <1>3, <2>1, FittingIsHeld
  <2> QED BY <2>2 DEF Number
<1>5. one \in [num : Digits]
  BY DEF Digits, Num
<1> HIDE DEF one, All
<1>6. Ones(members) = [j \in 1 .. Len(members) |-> one]
  BY <1>3 DEF Ones, one
<1>7. v = [j \in 1 .. Len(members) |-> IF j = i THEN n ELSE one]
  BY <1>2, <1>6
<1>8. ASSUME NEW j \in 1 .. Len(members) PROVE v[j] \in [num : Digits] /\ Len(v[j].num) <= members[j]
  <2>1. v[j] \in [num : Digits]
    BY <1>4, <1>5, <1>7
  <2>2. members[j] # AsRead
    BY <1>3 DEF AsRead
  <2> QED BY <1>1, <1>3, <2>1, <2>2 DEF WellTyped
<1>9. v = [j \in 1 .. Len(members) |-> v[j]]
  BY <1>7
<1> QED BY <1>8, <1>9, IsVector

(* So is the vector of ones.                                               *)
LEMMA OnesAreHeld ==
  ASSUME NEW members \in Seq(1 .. 16)
  PROVE  Ones(members) \in Vectors(members)
<1> DEFINE one == Num(<<1>>)
           v == Ones(members)
<1>1. one \in [num : Digits] /\ Len(one.num) = 1
  BY DEF Digits, Num
<1> HIDE DEF one
<1>2. DOMAIN members = 1 .. Len(members) /\ \A j \in 1 .. Len(members) : members[j] \in 1 .. 16
  OBVIOUS
<1>3. v = [j \in 1 .. Len(members) |-> one]
  BY <1>2 DEF Ones, one
<1> HIDE DEF v
<1>4. ASSUME NEW j \in 1 .. Len(members) PROVE v[j] \in [num : Digits] /\ Len(v[j].num) <= members[j]
  <2>1. v[j] = one /\ members[j] \in 1 .. 16
    BY <1>2, <1>3
  <2>2. 1 <= members[j]
    BY <2>1
  <2> QED BY <1>1, <2>1, <2>2
<1>5. v = [j \in 1 .. Len(members) |-> v[j]]
  BY <1>3
<1>6. v \in Vectors(members)
  BY <1>4, <1>5, IsVector
<1> QED BY <1>6 DEF v

----------------------------------------------------------------------------
(* Every sample property is one that its class can hold.                   *)
IsHeld(p) == \E name \in Names : p \in HeldAs(name)

(* What the class of a name can hold can be held.                          *)
LEMMA NamedHeld ==
  ASSUME NEW p, NEW name \in Names, p \in HeldAs(name)
  PROVE  IsHeld(p)
  BY DEF IsHeld

(* The classes' names are among the names of the exchange.                 *)
LEMMA NamesOfClasses ==
  /\ \A name \in PropertyName : name \in Names
  /\ "vendor_key" \in Names /\ Bare \subseteq Names
  BY DEF Names, PropertyName, Bare

(* The sample audio codecs are audio codecs.                               *)
LEMMA CodecsHeld ==
  AudioCodecs \subseteq AudioCodecValues
<1> SUFFICES ASSUME NEW c \in AudioCodecs PROVE c \in AudioCodecValues
  OBVIOUS
<1>1. UINT \in 1 .. 16 /\ USHORT \in 1 .. 16
  BY DEF UINT, USHORT
<1>2. Fitting(UINT) \subseteq Number(UINT) /\ Fitting(USHORT) \subseteq Number(USHORT)
  BY <1>1, FittingIsHeld
<1>3. PICK f \in {"AAC", "AC3"}, modes \in Fitting(UINT), latency \in Fitting(USHORT) :
        c = <<Word(f), modes, latency>>
  BY DEF AudioCodecs
<1>4. f \in AudioFormat
  BY <1>3 DEF AudioFormat
<1> QED BY <1>2, <1>3, <1>4 DEF AudioCodecValues

(* The sample audio codecs can be held.                                    *)
LEMMA AudioSamplesHeld ==
  ASSUME NEW p, \/ p \in {Property("wfd_audio_codecs", <<>>, <<c>>) : c \in AudioCodecs}
                \/ p \in {Property("wfd_audio_codecs", <<>>, <<c, c>>) : c \in AudioCodecs}
  PROVE  IsHeld(p)
<1>1. \/ \E c \in AudioCodecs : p = Property("wfd_audio_codecs", <<>>, <<c>>)
      \/ \E c \in AudioCodecs : p = Property("wfd_audio_codecs", <<>>, <<c, c>>)
  OBVIOUS
<1>2. \A c \in AudioCodecs : <<c>> \in Seq(AudioCodecValues) /\ <<c, c>> \in Seq(AudioCodecValues)
  BY CodecsHeld
<1>3. \E cs \in Seq(AudioCodecValues) : p = Property("wfd_audio_codecs", <<>>, cs)
  BY <1>1, <1>2
<1>4. p \in HeldAudioCodecs
  BY <1>3 DEF HeldAudioCodecs
<1> QED BY <1>4, HeldByName, NamesOfClasses, NamedHeld DEF PropertyName

(* The samples without a value can be held.                                *)
LEMMA NoneSamplesHeld ==
  ASSUME NEW p \in {Property("wfd_audio_codecs", <<>>, <<>>), NoneProperty("wfd_audio_codecs"),
   NoneProperty("wfd_video_formats"), NoneProperty("wfd_3d_video_formats"),
   NoneProperty("wfd_content_protection"), NoneProperty("wfd_display_edid"),
   NoneProperty("wfd_coupled_sink"), NoneProperty("wfd_uibc_capability"),
   NoneProperty("wfd_connector_type")}
  PROVE  IsHeld(p)
<1>1. ASSUME p = Property("wfd_audio_codecs", <<>>, <<>>) \/ p = NoneProperty("wfd_audio_codecs") PROVE IsHeld(p)
  <2>1. <<>> \in Seq(AudioCodecValues)
    OBVIOUS
  <2>2. p \in HeldAudioCodecs
    BY <1>1, <2>1 DEF HeldAudioCodecs
  <2> QED BY <2>2, HeldByName, NamesOfClasses, NamedHeld DEF PropertyName
<1>2. ASSUME p = NoneProperty("wfd_video_formats") PROVE IsHeld(p)
  <2>1. p \in HeldVideoFormats
    BY <1>2 DEF HeldVideoFormats, HeldFormats
  <2> QED BY <2>1, HeldByName, NamesOfClasses, NamedHeld DEF PropertyName
<1>3. ASSUME p = NoneProperty("wfd_3d_video_formats") PROVE IsHeld(p)
  <2>1. p \in HeldFormats3d
    BY <1>3 DEF HeldFormats3d, HeldFormats
  <2> QED BY <2>1, HeldByName, NamesOfClasses, NamedHeld DEF PropertyName
<1>4. ASSUME p = NoneProperty("wfd_content_protection") PROVE IsHeld(p)
  <2>1. p \in HeldContentProtection
    BY <1>4 DEF HeldContentProtection
  <2> QED BY <2>1, HeldByName, NamesOfClasses, NamedHeld DEF PropertyName
<1>5. ASSUME p = NoneProperty("wfd_display_edid") PROVE IsHeld(p)
  <2>1. p \in HeldDisplayEdid
    BY <1>5 DEF HeldDisplayEdid
  <2> QED BY <2>1, HeldByName, NamesOfClasses, NamedHeld DEF PropertyName
<1>6. ASSUME p = NoneProperty("wfd_coupled_sink") PROVE IsHeld(p)
  <2>1. p \in HeldCoupledSink
    BY <1>6 DEF HeldCoupledSink
  <2> QED BY <2>1, HeldByName, NamesOfClasses, NamedHeld DEF PropertyName
<1>7. ASSUME p = NoneProperty("wfd_uibc_capability") PROVE IsHeld(p)
  <2>1. p \in HeldUIBCCapability
    BY <1>7 DEF HeldUIBCCapability
  <2> QED BY <2>1, HeldByName, NamesOfClasses, NamedHeld DEF PropertyName
<1>8. ASSUME p = NoneProperty("wfd_connector_type") PROVE IsHeld(p)
  <2>1. p \in HeldConnectorType
    BY <1>8 DEF HeldConnectorType
  <2> QED BY <2>1, HeldByName, NamesOfClasses, NamedHeld DEF PropertyName
<1> QED BY <1>1, <1>2, <1>3, <1>4, <1>5, <1>6, <1>7, <1>8

(* The sample video formats can be held.                                   *)
LEMMA VideoSamplesHeld ==
  ASSUME NEW p, \/ p \in {Property("wfd_video_formats", Ones(VideoFormats), cs) :
                        cs \in {<<>>} \cup {<<c>> : c \in Instances(H264Codec)} \cup {<<c, c>> : c \in Instances(H264Codec)}}
                \/ p \in {Property("wfd_video_formats", v, <<Ones(H264Codec)>>) : v \in Instances(VideoFormats)}
  PROVE  IsHeld(p)
<1>1. Pair = VideoFormats /\ Pair \in Seq(1 .. 16) /\ H264Codec \in Seq(1 .. 16)
  BY PairTypes, H264CodecTypes DEF CodecTypes
<1> DEFINE V == Vectors(H264Codec)
           I == Instances(H264Codec)
<1>2. I \subseteq V /\ Ones(H264Codec) \in V
  BY <1>1, InstancesAreHeld, OnesAreHeld
<1>3. Ones(VideoFormats) \in Vectors(Pair) /\ Instances(VideoFormats) \subseteq Vectors(Pair)
  BY <1>1, InstancesAreHeld, OnesAreHeld
<1>4. \E ms \in Vectors(Pair), cs \in Seq(V) : p = Property("wfd_video_formats", ms, cs)
  <2> HIDE DEF V, I
  <2> DEFINE one == Ones(H264Codec)
             S == {<<>>} \cup {<<c>> : c \in I} \cup {<<c, c>> : c \in I}
  <2>1. ASSUME NEW c \in V PROVE <<>> \in Seq(V) /\ <<c>> \in Seq(V) /\ <<c, c>> \in Seq(V)
    OBVIOUS
  <2>2. S \subseteq Seq(V) /\ <<one>> \in Seq(V)
    BY <1>2, <2>1
  <2>3. \/ \E cs \in S : p = Property("wfd_video_formats", Ones(VideoFormats), cs)
        \/ \E v \in Instances(VideoFormats) : p = Property("wfd_video_formats", v, <<one>>)
    BY DEF I
  <2> HIDE DEF S, one
  <2> QED BY <1>3, <2>2, <2>3
<1>5. p \in HeldVideoFormats
  BY <1>4 DEF HeldVideoFormats, HeldFormats
<1> QED BY <1>5, HeldByName, NamesOfClasses, NamedHeld DEF PropertyName

(* The sample 3D formats can be held.                                      *)
LEMMA Format3dSamplesHeld ==
  ASSUME NEW p, \/ p \in {Property("wfd_3d_video_formats", Ones(Formats3d), cs) :
                        cs \in {<<>>} \cup {<<c>> : c \in Instances(H264Codec3d)} \cup {<<c, c>> : c \in Instances(H264Codec3d)}}
                \/ p \in {Property("wfd_3d_video_formats", v, <<Ones(H264Codec3d)>>) : v \in Instances(Formats3d)}
  PROVE  IsHeld(p)
<1>1. Pair = Formats3d /\ Pair \in Seq(1 .. 16) /\ H264Codec3d \in Seq(1 .. 16)
  BY PairTypes, H264Codec3dTypes DEF CodecTypes
<1> DEFINE V == Vectors(H264Codec3d)
           I == Instances(H264Codec3d)
<1>2. I \subseteq V /\ Ones(H264Codec3d) \in V
  BY <1>1, InstancesAreHeld, OnesAreHeld
<1>3. Ones(Formats3d) \in Vectors(Pair) /\ Instances(Formats3d) \subseteq Vectors(Pair)
  BY <1>1, InstancesAreHeld, OnesAreHeld
<1>4. \E ms \in Vectors(Pair), cs \in Seq(V) : p = Property("wfd_3d_video_formats", ms, cs)
  <2> HIDE DEF V, I
  <2> DEFINE one == Ones(H264Codec3d)
             S == {<<>>} \cup {<<c>> : c \in I} \cup {<<c, c>> : c \in I}
  <2>1. ASSUME NEW c \in V PROVE <<>> \in Seq(V) /\ <<c>> \in Seq(V) /\ <<c, c>> \in Seq(V)
    OBVIOUS
  <2>2. S \subseteq Seq(V) /\ <<one>> \in Seq(V)
    BY <1>2, <2>1
  <2>3. \/ \E cs \in S : p = Property("wfd_3d_video_formats", Ones(Formats3d), cs)
        \/ \E v \in Instances(Formats3d) : p = Property("wfd_3d_video_formats", v, <<one>>)
    BY DEF I
  <2> HIDE DEF S, one
  <2> QED BY <1>3, <2>2, <2>3
<1>5. p \in HeldFormats3d
  BY <1>4 DEF HeldFormats3d, HeldFormats
<1> QED BY <1>5, HeldByName, NamesOfClasses, NamedHeld DEF PropertyName

(* The samples that are vectors can be held.                               *)
LEMMA ListedSamplesHeld ==
  ASSUME NEW p, \/ p \in {Property("wfd_preferred_display_mode", v, <<>>) : v \in Instances(PreferredDisplayMode)}
                \/ p \in {Property("wfd_av_format_change_timing", v, <<>>) : v \in Instances(AVFormatChangeTiming)}
                \/ p \in {Property("wfd_connector_type", v, <<>>) : v \in Instances(ConnectorType)}
  PROVE  IsHeld(p)
<1>1. ASSUME NEW v \in Instances(PreferredDisplayMode), p = Property("wfd_preferred_display_mode", v, <<>>) PROVE IsHeld(p)
  <2>1. v \in Vectors(PreferredDisplayMode)
    BY ModeVectors, InstancesAreHeld
  <2>2. p \in HeldNumbers("wfd_preferred_display_mode", PreferredDisplayMode)
    BY <1>1, <2>1 DEF HeldNumbers
  <2>3. p \in HeldPreferredDisplayMode
    BY <2>2 DEF HeldPreferredDisplayMode
  <2> QED BY <2>3, HeldByName, NamesOfClasses, NamedHeld DEF PropertyName
<1>2. ASSUME NEW v \in Instances(AVFormatChangeTiming), p = Property("wfd_av_format_change_timing", v, <<>>) PROVE IsHeld(p)
  <2>1. v \in Vectors(AVFormatChangeTiming)
    BY AVFormatChangeTimingTypes, InstancesAreHeld
  <2>2. p \in HeldNumbers("wfd_av_format_change_timing", AVFormatChangeTiming)
    BY <1>2, <2>1 DEF HeldNumbers
  <2>3. p \in HeldAVFormatChangeTiming
    BY <2>2 DEF HeldAVFormatChangeTiming
  <2> QED BY <2>3, HeldByName, NamesOfClasses, NamedHeld DEF PropertyName
<1>3. ASSUME NEW v \in Instances(ConnectorType), p = Property("wfd_connector_type", v, <<>>) PROVE IsHeld(p)
  <2>1. v \in Vectors(ConnectorType)
    BY ConnectorTypeTypes, InstancesAreHeld
  <2>2. p \in HeldNumbers("wfd_connector_type", ConnectorType)
    BY <1>3, <2>1 DEF HeldNumbers
  <2>3. p \in HeldConnectorType
    BY <2>2 DEF HeldConnectorType
  <2> QED BY <2>3, HeldByName, NamesOfClasses, NamedHeld DEF PropertyName
<1> QED BY <1>1, <1>2, <1>3

(* The sample coupled sinks can be held.                                   *)
LEMMA SinkSamplesHeld ==
  ASSUME NEW p \in {Property("wfd_coupled_sink", v, <<>>) : v \in Instances(CoupledSink)}
  PROVE  IsHeld(p)
<1>1. PICK v \in Instances(CoupledSink) : p = Property("wfd_coupled_sink", v, <<>>)
  OBVIOUS
<1>2. CoupledSink \in Seq(1 .. 16) /\ CoupledSink = <<UCHAR, ULL>> /\ Len(CoupledSink) = 2
  BY DEF CoupledSink, UCHAR, ULL
<1>3. v \in Vectors(CoupledSink)
  BY <1>2, InstancesAreHeld
<1>4. Len(v) = 2 /\ v \in Seq(Number(16)) /\ v[1] \in Number(UCHAR) /\ v[2] \in Number(ULL)
  BY <1>2, <1>3 DEF Vectors
<1>5. v = <<v[1], v[2]>>
  <2> DEFINE S == Number(16)
  <2>1. v \in Seq(S) /\ Len(v) = 2
    BY <1>4
  <2> HIDE DEF S
  <2> QED BY <2>1
<1>6. p \in HeldCoupledSink
  BY <1>1, <1>4, <1>5 DEF HeldCoupledSink
<1> QED BY <1>6, HeldByName, NamesOfClasses, NamedHeld DEF PropertyName

(* The bytes of an EDID in the samples can be held.                        *)
LEMMA BytesHeld ==
  NONE \in EdidBytes /\ Bytes(2) \in EdidBytes /\ Bytes(16) \in EdidBytes /\ Bytes(17) \in EdidBytes
<1>1. ASSUME NEW n \in Nat PROVE Bytes(n) \in EdidBytes
  <2> DEFINE d == 10
  <2>1. d \in 0 .. 15
    OBVIOUS
  <2> HIDE DEF d
  <2>2. Repeated(d, n) \in Seq(0 .. 15)
    BY <2>1, RepeatedDigits
  <2>3. Bytes(n) = Chars(Repeated(d, n))
    BY DEF Bytes, d
  <2> QED BY <2>2, <2>3 DEF EdidBytes
<1> QED BY <1>1 DEF EdidBytes

(* The sample EDIDs can be held.                                           *)
LEMMA EdidSamplesHeld ==
  ASSUME NEW p \in {Property("wfd_display_edid", <<n, bytes>>, <<>>) :
     n \in Fitting(USHORT), bytes \in SampleBytes}
  PROVE  IsHeld(p)
<1>1. SampleBytes \subseteq EdidBytes
  BY BytesHeld DEF SampleBytes
<1>2. PICK n \in Fitting(USHORT), bytes \in SampleBytes : p = Property("wfd_display_edid", <<n, bytes>>, <<>>)
  BY DEF Property
<1>3. USHORT \in 1 .. 16
  BY DEF USHORT
<1>4. n \in Number(USHORT)
  BY <1>2, <1>3, FittingIsHeld
<1>5. p \in HeldDisplayEdid
  BY <1>1, <1>2, <1>4 DEF HeldDisplayEdid
<1> QED BY <1>5, HeldByName, NamesOfClasses, NamedHeld DEF PropertyName

(* The sample trigger methods can be held.                                 *)
LEMMA TriggerSamplesHeld ==
  ASSUME NEW p \in {Property("wfd_trigger_method", <<Word(w)>>, <<>>) : w \in TriggerMethod}
  PROVE  IsHeld(p)
<1>1. p \in HeldTriggerMethod
  BY DEF HeldTriggerMethod, HeldWord
<1> QED BY <1>1, HeldByName, NamesOfClasses, NamedHeld DEF PropertyName

(* The sample routes can be held.                                          *)
LEMMA RouteSamplesHeld ==
  ASSUME NEW p \in {Property("wfd_route", <<Word(w)>>, <<>>) : w \in Route}
  PROVE  IsHeld(p)
<1>1. p \in HeldRoute
  BY DEF HeldRoute, HeldWord
<1> QED BY <1>1, HeldByName, NamesOfClasses, NamedHeld DEF PropertyName

(* The sample UIBC settings can be held.                                   *)
LEMMA SettingSamplesHeld ==
  ASSUME NEW p \in {Property("wfd_uibc_setting", <<Word(w)>>, <<>>) : w \in UIBCSetting}
  PROVE  IsHeld(p)
<1>1. p \in HeldUIBCSetting
  BY DEF HeldUIBCSetting, HeldWord
<1> QED BY <1>1, HeldByName, NamesOfClasses, NamedHeld DEF PropertyName

(* The sample standby-resume capabilities can be held.                     *)
LEMMA ResumeSamplesHeld ==
  ASSUME NEW p \in {StandbyResumeCapability(s) : s \in BOOLEAN}
  PROVE  IsHeld(p)
<1>1. p \in HeldStandbyResume
  BY DEF HeldStandbyResume
<1> QED BY <1>1, HeldByName, NamesOfClasses, NamedHeld DEF PropertyName

(* The sample decimals are values of their types.                          *)
LEMMA SampleDecimals ==
  /\ \A n \in {-2, -1, 0, 1, INT_MAX} : n \in SInt
  /\ \A n \in {-1, INT_MAX} : n \in SInt
  /\ \A n \in {0, UINT_MAX} : n \in UInt
  /\ \A n \in LongDecimals : n \in Nat
<1>1. INT_MAX \in Nat /\ 65535 <= INT_MAX /\ UINT_MAX \in Nat /\ ULLONG_MAX \in Nat
  BY Ranges
<1>2. \A n \in {-2, -1, 0, 1, INT_MAX} : n \in SInt
  BY <1>1, Ranges
<1>3. \A n \in {-1, INT_MAX} : n \in SInt
  BY <1>1, Ranges
<1>4. \A n \in {0, UINT_MAX} : n \in UInt
  BY <1>1, Ranges
<1>5. \A n \in LongDecimals : n \in Nat
  BY <1>1 DEF LongDecimals
<1> QED BY <1>2, <1>3, <1>4, <1>5

(* The sample I2C ports can be held.                                       *)
LEMMA I2CSamplesHeld ==
  ASSUME NEW p \in {I2C(Dec(port)) : port \in {-2, -1, 0, 1, INT_MAX}}
  PROVE  IsHeld(p)
<1>1. p \in HeldI2C
  BY SampleDecimals DEF HeldI2C
<1> QED BY <1>1, HeldByName, NamesOfClasses, NamedHeld DEF PropertyName

(* The sample content protections can be held.                             *)
LEMMA ProtectionSamplesHeld ==
  ASSUME NEW p \in {Property("wfd_content_protection", <<Word(s), Dec(port)>>, <<>>) : s \in ContentProtection, port \in {0, UINT_MAX}}
  PROVE  IsHeld(p)
<1> DEFINE N == {0, UINT_MAX}
<1>1. N \subseteq UInt
  BY SampleDecimals
<1>2. p \in {Property("wfd_content_protection", <<Word(s), Dec(port)>>, <<>>) : s \in ContentProtection, port \in N}
  OBVIOUS
<1> HIDE DEF N
<1>3. p \in HeldContentProtection
  BY <1>1, <1>2 DEF HeldContentProtection
<1> QED BY <1>3, HeldByName, NamesOfClasses, NamedHeld DEF PropertyName

(* The sample presentation URLs can be held.                               *)
LEMMA UrlSamplesHeld ==
  ASSUME NEW p \in {PresentationUrl(u, v) : u \in FirstSampleUrls, v \in SecondSampleUrls}
  PROVE  IsHeld(p)
<1> DEFINE A == FirstSampleUrls
           B == SecondSampleUrls
<1>1. A \subseteq FirstUrls /\ B \subseteq SecondUrls
  BY DEF FirstUrls, SecondUrls, FirstSampleUrls, SecondSampleUrls
<1>2. p \in {PresentationUrl(u, v) : u \in A, v \in B}
  OBVIOUS
<1> HIDE DEF A, B
<1>3. PICK u \in A, v \in B : p = PresentationUrl(u, v)
  BY <1>2
<1>4. u \in FirstUrls /\ v \in SecondUrls
  BY <1>1
<1>5. p \in HeldPresentationUrl
  BY <1>3, <1>4 DEF HeldPresentationUrl
<1> QED BY <1>5, HeldByName, NamesOfClasses, NamedHeld DEF PropertyName

(* The sample RTP ports can be held.                                       *)
LEMMA PortSamplesHeld ==
  ASSUME NEW p \in {ClientRtpPorts(SinkUdpPort, port) : port \in {0, 65535}}
  PROVE  IsHeld(p)
<1>1. PICK n \in {0, 65535} : p = ClientRtpPorts(SinkUdpPort, n)
  OBVIOUS
<1>2. n \in UShort /\ SinkUdpPort \in UShort
  BY Ranges, ExchangeAssumption
<1>3. p \in HeldClientRtpPorts
  BY <1>1, <1>2 DEF HeldClientRtpPorts
<1> QED BY <1>3, HeldByName, NamesOfClasses, NamedHeld DEF PropertyName

(* The properties that are a name alone can be held.                       *)
LEMMA BareSamplesHeld ==
  ASSUME NEW p \in {Standby, IDRRequest}
  PROVE  IsHeld(p)
<1>1. \E name \in Bare : p = Property(name, <<>>, <<>>)
  BY DEF Standby, IDRRequest, Bare
<1>2. PICK name \in Bare : p = Property(name, <<>>, <<>>)
  BY <1>1
<1>3. p \in HeldAs(name)
  BY <1>2, HeldByName
<1> QED BY <1>3, NamesOfClasses, NamedHeld

(* The sample properties of no production can be held.                     *)
LEMMA GenericSamplesHeld ==
  ASSUME NEW p \in {GenericProperty("vendor_key", Chars(Repeated(1, n))) : n \in 1 .. 2}
  PROVE  IsHeld(p)
<1>1. PICK n \in 1 .. 2 : p = GenericProperty("vendor_key", Chars(Repeated(1, n)))
  OBVIOUS
<1>2. Repeated(1, n) \in Seq(Nat)
  BY DEF Repeated
<1>3. p \in HeldGeneric
  BY <1>1, <1>2 DEF HeldGeneric
<1> QED BY <1>3, HeldByName, NamesOfClasses, NamedHeld

(* The sample UIBC capabilities can be held.                               *)
LEMMA CapabilitySamplesHeld ==
  ASSUME NEW p \in {UIBCCapability(<<cats, gens, hidcs>>, Dec(port)) :
     cats \in {<<>>, << <<Word("GENERIC")>> >>, << <<Word("GENERIC")>>, <<Word("HIDC")>> >>},
     gens \in {<<>>, << <<Word("Mouse")>>, <<Word("Camera")>> >>},
     hidcs \in {<<>>, << <<Word("Gesture"), Word("/"), Word("Wi-Fi")>> >>},
     port \in {-1, INT_MAX}}
  PROVE  IsHeld(p)
<1> DEFINE C == {<<>>, << <<Word("GENERIC")>> >>, << <<Word("GENERIC")>>, <<Word("HIDC")>> >>}
           G == {<<>>, << <<Word("Mouse")>>, <<Word("Camera")>> >>}
           H == {<<>>, << <<Word("Gesture"), Word("/"), Word("Wi-Fi")>> >>}
<1>1. C \subseteq Seq(UIBCItems(1)) /\ G \subseteq Seq(UIBCItems(2)) /\ H \subseteq Seq(UIBCItems(3))
  <2>1. UIBCItems(1) = {<<Word(w)>> : w \in InputCategory} /\ UIBCItems(2) = {<<Word(w)>> : w \in InputType}
        /\ UIBCItems(3) = {<<Word(w), Word("/"), Word(path)>> : w \in InputType, path \in InputPath}
    BY DEF UIBCItems
  <2> DEFINE A == UIBCItems(1)
             a == <<Word("GENERIC")>>
             b == <<Word("HIDC")>>
  <2>2. a \in A /\ b \in A
    BY <2>1 DEF InputCategory
  <2> DEFINE E == UIBCItems(2)
             c == <<Word("Mouse")>>
             d == <<Word("Camera")>>
  <2>3. c \in E /\ d \in E
    BY <2>1 DEF InputType
  <2> DEFINE F == UIBCItems(3)
             e == <<Word("Gesture"), Word("/"), Word("Wi-Fi")>>
  <2>4. e \in F
    BY <2>1 DEF InputType, InputPath
  <2> HIDE DEF A, E, F, a, b, c, d, e
  <2>5. {<<>>, <<a>>, <<a, b>>} \subseteq Seq(A)
    BY <2>2
  <2>6. {<<>>, <<c, d>>} \subseteq Seq(E)
    BY <2>3
  <2>7. {<<>>, <<e>>} \subseteq Seq(F)
    BY <2>4
  <2> QED BY <2>5, <2>6, <2>7 DEF A, E, F, a, b, c, d, e
<1> DEFINE N == {-1, INT_MAX}
<1>2. p \in {UIBCCapability(<<cats, gens, hidcs>>, Dec(n)) : cats \in C, gens \in G, hidcs \in H, n \in N}
  OBVIOUS
<1> HIDE DEF C, G, H, N
<1>8. \E cats \in C, gens \in G, hidcs \in H, n \in N : p = UIBCCapability(<<cats, gens, hidcs>>, Dec(n))
  BY <1>2
<1> USE DEF N
<1>3. PICK cats \in C, gens \in G, hidcs \in H, n \in {-1, INT_MAX} : p = UIBCCapability(<<cats, gens, hidcs>>, Dec(n))
  BY SMTT(30), <1>8
<1>4. <<cats, gens, hidcs>> \in HeldUIBCLists
  BY <1>1 DEF HeldUIBCLists
<1>5. n \in SInt
  BY SampleDecimals
<1> DEFINE lists == <<cats, gens, hidcs>>
<1>7. p = UIBCCapability(lists, Dec(n)) /\ lists \in HeldUIBCLists
  BY <1>3, <1>4
<1> HIDE DEF lists
<1>6. p \in HeldUIBCCapability
  BY <1>5, <1>7 DEF HeldUIBCCapability
<1> QED BY <1>6, HeldByName, NamesOfClasses, NamedHeld DEF PropertyName

(* Every sample property can be held.                                      *)
LEMMA SamplesHeld ==
  ASSUME NEW p \in SampleProperties
  PROVE  IsHeld(p)
<1> DEFINE AudioOne ==
             {Property("wfd_audio_codecs", <<>>, <<c>>) : c \in AudioCodecs}
           AudioTwo ==
             {Property("wfd_audio_codecs", <<>>, <<c, c>>) : c \in AudioCodecs}
           Nones ==
             {Property("wfd_audio_codecs", <<>>, <<>>), NoneProperty("wfd_audio_codecs"),
              NoneProperty("wfd_video_formats"), NoneProperty("wfd_3d_video_formats"),
              NoneProperty("wfd_content_protection"), NoneProperty("wfd_display_edid"),
              NoneProperty("wfd_coupled_sink"), NoneProperty("wfd_uibc_capability"),
              NoneProperty("wfd_connector_type")}
           VideoLists ==
             {Property("wfd_video_formats", Ones(VideoFormats), cs) :
                cs \in {<<>>} \cup {<<c>> : c \in Instances(H264Codec)} \cup {<<c, c>> : c \in Instances(H264Codec)}}
           VideoMembers ==
             {Property("wfd_video_formats", v, <<Ones(H264Codec)>>) : v \in Instances(VideoFormats)}
           Lists3d ==
             {Property("wfd_3d_video_formats", Ones(Formats3d), cs) :
                cs \in {<<>>} \cup {<<c>> : c \in Instances(H264Codec3d)} \cup {<<c, c>> : c \in Instances(H264Codec3d)}}
           Members3d ==
             {Property("wfd_3d_video_formats", v, <<Ones(H264Codec3d)>>) : v \in Instances(Formats3d)}
           Modes ==
             {Property("wfd_preferred_display_mode", v, <<>>) : v \in Instances(PreferredDisplayMode)}
           Sinks ==
             {Property("wfd_coupled_sink", v, <<>>) : v \in Instances(CoupledSink)}
           Timings ==
             {Property("wfd_av_format_change_timing", v, <<>>) : v \in Instances(AVFormatChangeTiming)}
           Connectors ==
             {Property("wfd_connector_type", v, <<>>) : v \in Instances(ConnectorType)}
           Edids ==
             {Property("wfd_display_edid", <<n, bytes>>, <<>>) :
                n \in Fitting(USHORT), bytes \in SampleBytes}
           Protections ==
             {Property("wfd_content_protection", <<Word(s), Dec(port)>>, <<>>) : s \in ContentProtection, port \in {0, UINT_MAX}}
           Triggers ==
             {Property("wfd_trigger_method", <<Word(w)>>, <<>>) : w \in TriggerMethod}
           Routes ==
             {Property("wfd_route", <<Word(w)>>, <<>>) : w \in Route}
           Settings ==
             {Property("wfd_uibc_setting", <<Word(w)>>, <<>>) : w \in UIBCSetting}
           Resumes ==
             {StandbyResumeCapability(s) : s \in BOOLEAN}
           Urls ==
             {PresentationUrl(u, v) : u \in FirstSampleUrls, v \in SecondSampleUrls}
           Ports ==
             {ClientRtpPorts(SinkUdpPort, port) : port \in {0, 65535}}
           I2Cs ==
             {I2C(Dec(port)) : port \in {-2, -1, 0, 1, INT_MAX}}
           Bares ==
             {Standby, IDRRequest}
           Generics ==
             {GenericProperty("vendor_key", Chars(Repeated(1, n))) : n \in 1 .. 2}
           Capabilities ==
             {UIBCCapability(<<cats, gens, hidcs>>, Dec(port)) :
                cats \in {<<>>, << <<Word("GENERIC")>> >>, << <<Word("GENERIC")>>, <<Word("HIDC")>> >>},
                gens \in {<<>>, << <<Word("Mouse")>>, <<Word("Camera")>> >>},
                hidcs \in {<<>>, << <<Word("Gesture"), Word("/"), Word("Wi-Fi")>> >>},
                port \in {-1, INT_MAX}}
<1>1. SampleProperties = AudioOne \cup AudioTwo \cup Nones \cup VideoLists \cup VideoMembers \cup Lists3d \cup Members3d \cup Modes \cup Sinks \cup Timings \cup Connectors \cup Edids \cup Protections \cup Triggers \cup Routes \cup Settings \cup Resumes \cup Urls \cup Ports \cup I2Cs \cup Bares \cup Generics \cup Capabilities
  BY DEF SampleProperties
<1>2. /\ p \in AudioOne \/ p \in AudioTwo => IsHeld(p)
      /\ p \in Nones => IsHeld(p)
      /\ p \in VideoLists \/ p \in VideoMembers => IsHeld(p)
      /\ p \in Lists3d \/ p \in Members3d => IsHeld(p)
      /\ p \in Modes \/ p \in Timings \/ p \in Connectors => IsHeld(p)
  BY AudioSamplesHeld, NoneSamplesHeld, VideoSamplesHeld, Format3dSamplesHeld, ListedSamplesHeld
<1>3. p \in Sinks => IsHeld(p)
  BY SinkSamplesHeld
<1>4. p \in Edids => IsHeld(p)
  BY EdidSamplesHeld
<1>5. p \in Protections => IsHeld(p)
  BY ProtectionSamplesHeld
<1>6. p \in Triggers => IsHeld(p)
  BY TriggerSamplesHeld
<1>7. p \in Routes => IsHeld(p)
  BY RouteSamplesHeld
<1>8. p \in Settings => IsHeld(p)
  BY SettingSamplesHeld
<1>9. p \in Resumes => IsHeld(p)
  BY ResumeSamplesHeld
<1>10. p \in Urls => IsHeld(p)
  BY UrlSamplesHeld
<1>11. p \in Ports => IsHeld(p)
  BY PortSamplesHeld
<1>12. p \in I2Cs => IsHeld(p)
  BY I2CSamplesHeld
<1>13. p \in Bares => IsHeld(p)
  BY BareSamplesHeld
<1>14. p \in Generics => IsHeld(p)
  BY GenericSamplesHeld
<1>15. p \in Capabilities => IsHeld(p)
  BY CapabilitySamplesHeld
<1> HIDE DEF AudioOne, AudioTwo, Nones, VideoLists, VideoMembers, Lists3d, Members3d, Modes, Sinks, Timings, Connectors, Edids, Protections, Triggers, Routes, Settings, Resumes, Urls, Ports, I2Cs, Bares, Generics, Capabilities
<1> QED BY <1>1, <1>2, <1>3, <1>4, <1>5, <1>6, <1>7, <1>8, <1>9, <1>10, <1>11, <1>12, <1>13, <1>14, <1>15

----------------------------------------------------------------------------
(* Payloads made of properties that can be held.                           *)
WithAll(ps, q) ==
  /\ OnlyProperties(q)
  /\ DOMAIN q.properties = {p.type : p \in ps}
  /\ \A n \in DOMAIN q.properties : q.properties[n] \in ps /\ q.properties[n].type = n

(* A payload of properties that can be held is one that can.               *)
LEMMA WithPropertiesHeld ==
  ASSUME NEW ps, \A p \in ps : IsHeld(p)
  PROVE  WithAll(ps, WithProperties(ps))
<1> DEFINE D == {p.type : p \in ps}
           map == [n \in D |-> CHOOSE p \in ps : p.type = n]
           q == PayloadOf(map, <<>>, <<>>)
<1>1. WithProperties(ps) = q
  <2>1. WithProperties(ps) = [Payload EXCEPT !.properties = map]
    BY Zenon DEF WithProperties
  <2> HIDE DEF map
  <2> QED BY <2>1 DEF Payload, PayloadOf
<1>2. ASSUME NEW n \in D PROVE map[n] \in ps /\ map[n].type = n /\ map[n] \in HeldAs(n) /\ n \in Names
  <2>1. \E p \in ps : p.type = n
    OBVIOUS
  <2>2. map[n] = CHOOSE p \in ps : p.type = n
    OBVIOUS
  <2> HIDE DEF map
  <2>3. map[n] \in ps /\ map[n].type = n
    BY <2>1, <2>2
  <2>4. PICK name \in Names : map[n] \in HeldAs(name)
    BY <2>3 DEF IsHeld
  <2>5. map[n].type = name
    BY <2>4, HeldIsTyped DEF TypedAs
  <2> QED BY <2>3, <2>4, <2>5
<1>3. DOMAIN map = D /\ map = [n \in DOMAIN map |-> map[n]]
  OBVIOUS
<1> HIDE DEF D, map
<1>4. HeldProperties(map)
  BY <1>2, <1>3 DEF HeldProperties
<1>5. q.properties = map /\ q.parameters = <<>> /\ q.errors = <<>>
  BY PayloadFields
<1>6. q = PayloadOf(q.properties, q.parameters, q.errors)
  BY <1>5
<1> HIDE DEF q
<1>7. OnlyProperties(q)
  BY <1>4, <1>5, <1>6, NoMap DEF OnlyProperties, HeldPayload
<1>8. WithAll(ps, q)
  BY <1>2, <1>3, <1>5, <1>7 DEF WithAll, D
<1> QED BY <1>1, <1>8

(* A payload of names can be held.                                         *)
LEMMA NamesHeld ==
  ASSUME NEW ns \in Seq(Names)
  PROVE  OnlyNames([Payload EXCEPT !.parameters = ns]) /\ [Payload EXCEPT !.parameters = ns].parameters = ns
<1> DEFINE q == PayloadOf(<<>>, ns, <<>>)
<1>1. [Payload EXCEPT !.parameters = ns] = q
  BY DEF Payload, PayloadOf
<1>2. q.properties = <<>> /\ q.parameters = ns /\ q.errors = <<>>
  BY PayloadFields
<1>3. q = PayloadOf(q.properties, q.parameters, q.errors)
  BY <1>2
<1> HIDE DEF q
<1>4. OnlyNames(q)
  BY <1>2, <1>3, NoMap DEF OnlyNames, HeldPayload
<1> QED BY <1>1, <1>2, <1>4

(* A payload of errors can be held.                                        *)
LEMMA WithErrorsHeld ==
  ASSUME NEW map, HeldErrors(map)
  PROVE  OnlyErrors(WithErrors(map)) /\ WithErrors(map).errors = map
<1> DEFINE q == PayloadOf(<<>>, <<>>, map)
<1>1. WithErrors(map) = q
  BY DEF WithErrors, Payload, PayloadOf
<1>2. q.properties = <<>> /\ q.parameters = <<>> /\ q.errors = map
  BY PayloadFields
<1>3. q = PayloadOf(q.properties, q.parameters, q.errors)
  BY <1>2
<1> HIDE DEF q
<1>4. OnlyErrors(q)
  BY <1>2, <1>3, NoMap DEF OnlyErrors, HeldPayload
<1> QED BY <1>1, <1>2, <1>4

(* Errors with the codes of one property more can be held.                 *)
LEMMA ErrorsPut ==
  ASSUME NEW map, HeldErrors(map), NEW name \in Names, NEW codes \in Codes
  PROVE  HeldErrors(Put(map, name, codes)) /\ DOMAIN Put(map, name, codes) = DOMAIN map \cup {name}
<1> DEFINE put == Put(map, name, codes)
<1>1. PutIn(map, name, codes, put)
  BY PutIsIn
<1> HIDE DEF put
<1>2. /\ DOMAIN put = {name} \cup DOMAIN map /\ put[name] = codes
      /\ \A k \in DOMAIN map : k # name => put[k] = map[k]
      /\ put = [k \in DOMAIN put |-> put[k]]
  BY <1>1 DEF PutIn
<1>3. DOMAIN map \subseteq Names /\ \A k \in DOMAIN map : map[k] \in Codes
  BY DEF HeldErrors
<1>4. \A k \in DOMAIN put : put[k] \in Codes
  BY <1>2, <1>3
<1>5. HeldErrors(put)
  BY <1>2, <1>3, <1>4 DEF HeldErrors
<1> QED BY <1>2, <1>5 DEF put

----------------------------------------------------------------------------
(* A payload where it belongs.                                             *)
LEMMA HeldWhere ==
  ASSUME NEW kind, NEW code, NEW p
  PROVE  /\ ~ErrorReply(kind, code) /\ (OnlyProperties(p) \/ OnlyNames(p)) => HeldIn(kind, code, p)
         /\ ErrorReply(kind, code) /\ OnlyErrors(p) => HeldIn(kind, code, p)
  BY DEF HeldIn, OnlyProperties, OnlyNames, OnlyErrors

HeldMessage(m) ==
  m = Message(m.kind, m.uri, m.code, m.header, m.payload) /\ HeldIn(m.kind, m.code, m.payload)

(* The parts of a message.                                                 *)
LEMMA MessageFields ==
  ASSUME NEW kind, NEW uri, NEW code, NEW header, NEW payload
  PROVE  LET m == Message(kind, uri, code, header, payload)
         IN /\ m.kind = kind /\ m.uri = uri /\ m.code = code /\ m.header = header /\ m.payload = payload
            /\ m # NoMessage
<1> DEFINE m == Message(kind, uri, code, header, payload)
<1>1. m.kind = kind /\ m.uri = uri /\ m.code = code /\ m.header = header /\ m.payload = payload
  BY DEF Message
<1>2. DOMAIN m = {"kind", "uri", "code", "header", "payload"} /\ DOMAIN NoMessage = {"kind"}
  BY DEF Message, NoMessage
<1> HIDE DEF m
<1>3. m # NoMessage
  BY <1>2
<1> QED BY <1>1, <1>3 DEF m

(* A message with a payload that can be held can be held.                  *)
LEMMA IsHeldMessage ==
  ASSUME NEW kind, NEW uri, NEW code, NEW header, NEW payload, HeldIn(kind, code, payload)
  PROVE  HeldMessage(Message(kind, uri, code, header, payload))
<1> DEFINE m == Message(kind, uri, code, header, payload)
<1>1. m.kind = kind /\ m.uri = uri /\ m.code = code /\ m.header = header /\ m.payload = payload
  BY MessageFields
<1>2. m = Message(m.kind, m.uri, m.code, m.header, m.payload)
  BY <1>1
<1> HIDE DEF m
<1>3. HeldMessage(m)
  BY <1>1, <1>2 DEF HeldMessage
<1> QED BY <1>3 DEF m

(* A request made of properties, or of names, can be held.                 *)
LEMMA RequestHeld ==
  ASSUME NEW kind, kind # "REPLY", NEW uri, NEW header, NEW payload, OnlyProperties(payload) \/ OnlyNames(payload)
  PROVE  HeldMessage(NewRequest(kind, uri, header, payload))
<1>1. ~ErrorReply(kind, 0)
  BY DEF ErrorReply
<1>2. HeldIn(kind, 0, payload)
  BY <1>1, HeldWhere
<1> QED BY <1>2, IsHeldMessage DEF NewRequest

(* A reply made of properties or names, or of errors under 303, can be     *)
(* held.                                                                   *)
LEMMA ReplyHeld ==
  ASSUME NEW header, NEW payload
  PROVE  /\ OnlyProperties(payload) \/ OnlyNames(payload) => HeldMessage(NewReply(200, header, payload))
         /\ OnlyErrors(payload) => HeldMessage(NewReply(303, header, payload))
<1>1. ~ErrorReply("REPLY", 200) /\ ErrorReply("REPLY", 303)
  BY DEF ErrorReply
<1>2. ASSUME OnlyProperties(payload) \/ OnlyNames(payload) PROVE HeldMessage(NewReply(200, header, payload))
  <2>1. HeldIn("REPLY", 200, payload)
    BY <1>1, <1>2, HeldWhere
  <2> QED BY <2>1, IsHeldMessage DEF NewReply
<1>3. ASSUME OnlyErrors(payload) PROVE HeldMessage(NewReply(303, header, payload))
  <2>1. HeldIn("REPLY", 303, payload)
    BY <1>1, <1>3, HeldWhere
  <2> QED BY <2>1, IsHeldMessage DEF NewReply
<1> QED BY <1>2, <1>3

----------------------------------------------------------------------------
(* The messages that are made are ones that can be held.                   *)
LEMMA SampleOthers ==
  /\ IsHeld(Standby) /\ IsHeld(IDRRequest)
  /\ \A n \in {-2, -1, 0, 1, INT_MAX} : IsHeld(I2C(Dec(n)))
  /\ IsHeld(NoneProperty("wfd_coupled_sink"))
  /\ IsHeld(Property("wfd_route", <<Word("primary")>>, <<>>))
<1>1. IsHeld(Standby) /\ IsHeld(IDRRequest)
  BY BareSamplesHeld
<1>2. \A n \in {-2, -1, 0, 1, INT_MAX} : IsHeld(I2C(Dec(n)))
  BY I2CSamplesHeld
<1>3. IsHeld(NoneProperty("wfd_coupled_sink"))
  BY NoneSamplesHeld
<1>4. "primary" \in Route
  BY DEF Route
<1>5. IsHeld(Property("wfd_route", <<Word("primary")>>, <<>>))
  BY <1>4, RouteSamplesHeld
<1> QED BY <1>1, <1>2, <1>3, <1>5

(* The sample payloads can be held.                                        *)
LEMMA SamplePayloadsHeld ==
  ASSUME NEW p \in SamplePayloads
  PROVE  OnlyProperties(p)
<1> DEFINE A == {Standby, I2C(Dec(1)), NoneProperty("wfd_coupled_sink")}
           B == {IDRRequest, Property("wfd_route", <<Word("primary")>>, <<>>)}
           S == {WithProperties({q}) : q \in SampleProperties}
           T == {WithProperties({q, r}) : q \in A, r \in B}
<1>1. SamplePayloads = S \cup T
  BY DEF SamplePayloads
<1>2. (\A q \in A : IsHeld(q)) /\ \A q \in B : IsHeld(q)
  BY SampleOthers
<1> HIDE DEF A, B
<1>5. p \in S => \E q \in SampleProperties : p = WithProperties({q})
  OBVIOUS
<1>6. p \in T => \E q \in A, r \in B : p = WithProperties({q, r})
  OBVIOUS
<1> HIDE DEF S, T
<1>3. \/ \E q \in SampleProperties : p = WithProperties({q})
      \/ \E q \in A, r \in B : p = WithProperties({q, r})
  BY <1>1, <1>5, <1>6
<1>4. \E ps : (\A q \in ps : IsHeld(q)) /\ p = WithProperties(ps)
  BY <1>2, <1>3, SamplesHeld
<1> QED BY <1>4, WithPropertiesHeld DEF WithAll

(* The codes of the sample errors.                                         *)
LEMMA SomeCodes == <<404>> \in Codes /\ <<415, 457>> \in Codes
<1>1. 404 \in UShort /\ 415 \in UShort /\ 457 \in UShort
  BY Ranges
<1> QED BY <1>1 DEF Codes

(* The sample errors can be held.                                          *)
LEMMA SampleErrorsHeld ==
  ASSUME NEW p \in SampleErrors
  PROVE  OnlyErrors(p)
<1> DEFINE first == Put(<<>>, "vendor_key", <<415, 457>>)
<1>1. PICK n \in PropertyName \cup {"vendor_key"} : p = WithErrors(Put(first, n, <<404>>))
  BY DEF SampleErrors
<1>2. HeldErrors(first)
  <2> DEFINE empty == <<>>
             name == "vendor_key"
             codes == <<415, 457>>
  <2>1. HeldErrors(empty) /\ name \in Names /\ codes \in Codes
    BY NoMap, SomeCodes, NamesOfClasses
  <2> HIDE DEF empty, name, codes
  <2>2. HeldErrors(Put(empty, name, codes))
    BY <2>1, ErrorsPut
  <2> QED BY <2>2 DEF empty, name, codes
<1> HIDE DEF first
<1> DEFINE map == Put(first, n, <<404>>)
<1>3. HeldErrors(map)
  BY ZenonT(40), <1>2, SomeCodes, ErrorsPut DEF Names
<1> HIDE DEF map
<1>4. OnlyErrors(WithErrors(map))
  BY <1>3, WithErrorsHeld
<1> QED BY <1>1, <1>4 DEF map

(* The sample messages can be held.                                        *)
LEMMA SampleMessagesHeld ==
  ASSUME NEW m \in SampleMessages
  PROVE  HeldMessage(m)
<1>0. OnlyProperties(Payload)
  BY StartPayloads
<1> DEFINE S1 == {NewRequest("SET_PARAMETER", URI, Header, p) : p \in SamplePayloads}
           S2 == {NewReply(200, Header, p) : p \in SamplePayloads}
           S3 == {NewReply(303, Header, p) : p \in SampleErrors}
           S4 == {NewRequest("GET_PARAMETER", URI, Header, [Payload EXCEPT !.parameters = ns]) :
                    ns \in {<<n>> : n \in PropertyName} \cup {<<n, "vendor_key">> : n \in PropertyName}}
           S5 == {NewRequest(k, u, Header, Payload) : k \in Request, u \in {Star, URI, Chars(<<>>)}}
           S6 == {NewReply(200, h, Payload) : h \in SampleHeaders}
<1>1. m \in S1 => HeldMessage(m)
  BY SamplePayloadsHeld, RequestHeld
<1>2. m \in S2 => HeldMessage(m)
  BY SamplePayloadsHeld, ReplyHeld
<1>3. m \in S3 => HeldMessage(m)
  BY SampleErrorsHeld, ReplyHeld
<1>4. m \in S4 => HeldMessage(m)
  <2> SUFFICES ASSUME m \in S4 PROVE HeldMessage(m)
    OBVIOUS
  <2> DEFINE N == {<<n>> : n \in PropertyName} \cup {<<n, "vendor_key">> : n \in PropertyName}
  <2>1. PICK ns \in N : m = NewRequest("GET_PARAMETER", URI, Header, [Payload EXCEPT !.parameters = ns])
    OBVIOUS
  <2>2. ns \in Seq(Names)
    <3>1. \E n \in PropertyName : ns = <<n>> \/ ns = <<n, "vendor_key">>
      BY <2>1, Zenon
    <3>2. PICK n \in PropertyName : ns = <<n>> \/ ns = <<n, "vendor_key">>
      BY <3>1
    <3> DEFINE k == "vendor_key"
    <3>3. n \in Names /\ k \in Names
      BY NamesOfClasses
    <3> HIDE DEF k
    <3>4. <<n>> \in Seq(Names) /\ <<n, k>> \in Seq(Names)
      BY <3>3
    <3> QED BY <3>2, <3>4 DEF k
  <2> QED BY <2>1, <2>2, NamesHeld, RequestHeld
<1>5. m \in S5 => HeldMessage(m)
  BY <1>0, RequestHeld DEF Request
<1>6. m \in S6 => HeldMessage(m)
  BY <1>0, ReplyHeld
<1>7. SampleMessages = S1 \cup S2 \cup S3 \cup S4 \cup S5 \cup S6
  BY DEF SampleMessages
<1> HIDE DEF S1, S2, S3, S4, S5, S6
<1> QED BY <1>1, <1>2, <1>3, <1>4, <1>5, <1>6, <1>7

(* The messages the programs begin with can be held.                       *)
LEMMA ProgramMessagesHeld ==
  ASSUME NEW m \in ProgramMessages
  PROVE  HeldMessage(m)
<1>0. OnlyProperties(Payload)
  BY StartPayloads
<1>1. HeldMessage(ProgramOptions) /\ HeldMessage(SinkM6) /\ HeldMessage(SinkM7)
  BY <1>0, RequestHeld DEF ProgramOptions, SinkM6, SinkM7
<1>2. HeldMessage(OptionsReply(SinkMethods)) /\ HeldMessage(OptionsReply(SourceMethods))
  BY <1>0, ReplyHeld DEF OptionsReply
<1>3. HeldMessage(SourceM3)
  <2> DEFINE ns == <<"wfd_audio_codecs", "wfd_video_formats", "wfd_client_rtp_ports">>
  <2>1. ns \in Seq(Names)
    BY NamesOfClasses DEF PropertyName
  <2>2. SourceM3 = NewRequest("GET_PARAMETER", URI, CSeqHeader(1), [Payload EXCEPT !.parameters = ns])
    BY DEF SourceM3
  <2> HIDE DEF ns
  <2> QED BY <2>1, <2>2, NamesHeld, RequestHeld
<1>4. ASSUME NEW t \in TriggerMethod PROVE HeldMessage(SourceM5(t))
  <2> DEFINE p == Property("wfd_trigger_method", <<Word(t)>>, <<>>)
             ps == {p}
  <2>1. IsHeld(p)
    BY TriggerSamplesHeld
  <2> HIDE DEF p
  <2>2. \A q \in ps : IsHeld(q)
    BY <2>1
  <2> HIDE DEF ps
  <2>3. OnlyProperties(WithProperties(ps))
    BY <2>2, WithPropertiesHeld DEF WithAll
  <2>4. SourceM5(t) = NewRequest("SET_PARAMETER", URI, CSeqHeader(3), WithProperties(ps))
    BY DEF SourceM5, ps, p
  <2> QED BY <2>3, <2>4, RequestHeld
<1>5. m \in {ProgramOptions, OptionsReply(SinkMethods), OptionsReply(SourceMethods), SourceM3, SinkM6, SinkM7}
        \/ \E t \in TriggerMethod : m = SourceM5(t)
  BY DEF ProgramMessages
<1> QED BY <1>1, <1>2, <1>3, <1>4, <1>5

----------------------------------------------------------------------------
(* What the programs answer can be held.                                   *)
LEMMA FewDigits ==
  /\ <<>> \in Digits /\ \A x \in 1 .. 15 : <<x>> \in Digits
  /\ <<1, 0>> \in Digits /\ <<4, 0>> \in Digits /\ <<1, 1>> \in Digits /\ <<15, 15, 15>> \in Digits
  /\ <<1, 15, 15, 15, 15>> \in Digits
  BY DEF Digits

(* A number has the digits it is made of.                                  *)
LEMMA NumOf ==
  ASSUME NEW d \in Digits
  PROVE  Num(d) \in [num : Digits] /\ Num(d).num = d
  BY DEF Num

(* The sink's H.264 codec can be held, within its digits.                  *)
LEMMA SinkCodecHeld ==
  ASSUME NEW profile \in 1 .. 15
  PROVE  /\ SinkCodec(profile) \in Vectors(H264Codec)
         /\ \A i \in 1 .. 11 : Len(SinkCodec(profile)[i].num) <= H264CodecDigits[i]
<1> DEFINE long == <<1>> \o Repeated(15, 7)
           v == SinkCodec(profile)
<1>1. long \in Digits /\ Len(long) = 8
  <2> DEFINE x == 15
             n == 7
             s == <<1>>
  <2>1. x \in 0 .. 15 /\ n \in Nat
    OBVIOUS
  <2>2. s \in Seq(0 .. 15) /\ s # <<>> /\ s[1] # 0 /\ Len(s) = 1
    OBVIOUS
  <2>5. n = 7
    OBVIOUS
  <2> HIDE DEF x, n, s
  <2>3. Repeated(x, n) \in Seq(0 .. 15) /\ Len(Repeated(x, n)) = n
    BY <2>1, RepeatedDigits
  <2>4. s \o Repeated(x, n) \in Digits /\ Len(s \o Repeated(x, n)) = Len(s) + Len(Repeated(x, n))
    BY <2>2, <2>3, LeadingDigit
  <2>6. Len(s \o Repeated(x, n)) = 8
    BY <2>1, <2>2, <2>3, <2>4, <2>5
  <2> QED BY <2>4, <2>6 DEF x, n, s
<1> HIDE DEF long
<1>2. v = <<Num(<<profile>>), Num(<<1, 0>>), Num(<<1, 15, 15, 15, 15>>), Num(long),
            Num(<<15, 15, 15>>), Num(<<>>), Num(<<>>), Num(<<>>), Num(<<1, 1>>), Num(<<>>), Num(<<>>)>>
  BY DEF SinkCodec, long
<1> DEFINE d == << <<profile>>, <<1, 0>>, <<1, 15, 15, 15, 15>>, long,
                   <<15, 15, 15>>, <<>>, <<>>, <<>>, <<1, 1>>, <<>>, <<>> >>
<1>3. \A i \in 1 .. 11 : v[i] = Num(d[i])
  BY <1>2
<1>4. H264Codec \in Seq(1 .. 16) /\ Len(H264Codec) = 11
  BY H264CodecTypes DEF CodecTypes
<1>0. \A i \in 1 .. 11 : i = 1 \/ i = 2 \/ i = 3 \/ i = 4 \/ i = 5 \/ i = 6 \/ i = 7 \/ i = 8 \/ i = 9 \/ i = 10 \/ i = 11
  OBVIOUS
<1>11. /\ d[1] = <<profile>> /\ d[2] = <<1, 0>> /\ d[3] = <<1, 15, 15, 15, 15>> /\ d[4] = long
       /\ d[5] = <<15, 15, 15>> /\ d[6] = <<>> /\ d[7] = <<>> /\ d[8] = <<>> /\ d[9] = <<1, 1>>
       /\ d[10] = <<>> /\ d[11] = <<>>
  OBVIOUS
<1> HIDE DEF d
<1>5. \A i \in 1 .. 11 : d[i] \in Digits
  <2>1. d[1] \in Digits /\ d[2] \in Digits /\ d[3] \in Digits /\ d[4] \in Digits
    BY <1>1, <1>11, FewDigits
  <2>2. d[5] \in Digits /\ d[6] \in Digits /\ d[7] \in Digits /\ d[8] \in Digits
    BY <1>11, FewDigits
  <2>3. d[9] \in Digits /\ d[10] \in Digits /\ d[11] \in Digits
    BY <1>11, FewDigits
  <2> QED BY <1>0, <2>1, <2>2, <2>3
<1>6. \A i \in 1 .. 11 : Len(d[i]) <= H264Codec[i]
  <2>1. /\ Len(d[1]) = 1 /\ Len(d[2]) = 2 /\ Len(d[3]) = 5 /\ Len(d[4]) = 8 /\ Len(d[5]) = 3
        /\ Len(d[6]) = 0 /\ Len(d[7]) = 0 /\ Len(d[8]) = 0 /\ Len(d[9]) = 2 /\ Len(d[10]) = 0 /\ Len(d[11]) = 0
    BY <1>1, <1>11
  <2>2. /\ H264Codec[1] = 2 /\ H264Codec[2] = 2 /\ H264Codec[3] = 8 /\ H264Codec[4] = 8 /\ H264Codec[5] = 8
        /\ H264Codec[6] = 2 /\ H264Codec[7] = 4 /\ H264Codec[8] = 4 /\ H264Codec[9] = 2
        /\ H264Codec[10] = 8 /\ H264Codec[11] = 8
    BY DEF H264Codec, UCHAR, UINT, USHORT, INT
  <2>3. /\ Len(d[1]) <= H264Codec[1] /\ Len(d[2]) <= H264Codec[2] /\ Len(d[3]) <= H264Codec[3]
        /\ Len(d[4]) <= H264Codec[4] /\ Len(d[5]) <= H264Codec[5] /\ Len(d[6]) <= H264Codec[6]
        /\ Len(d[7]) <= H264Codec[7] /\ Len(d[8]) <= H264Codec[8] /\ Len(d[9]) <= H264Codec[9]
        /\ Len(d[10]) <= H264Codec[10] /\ Len(d[11]) <= H264Codec[11]
    BY <2>1, <2>2
  <2> QED BY <1>0, <2>3
<1>12. \A i \in 1 .. 11 : Len(d[i]) <= H264CodecDigits[i]
  <2>1. /\ Len(d[1]) = 1 /\ Len(d[2]) = 2 /\ Len(d[3]) = 5 /\ Len(d[4]) = 8 /\ Len(d[5]) = 3
        /\ Len(d[6]) = 0 /\ Len(d[7]) = 0 /\ Len(d[8]) = 0 /\ Len(d[9]) = 2 /\ Len(d[10]) = 0 /\ Len(d[11]) = 0
    BY <1>1, <1>11
  <2>2. /\ H264CodecDigits[1] = 2 /\ H264CodecDigits[2] = 2 /\ H264CodecDigits[3] = 8 /\ H264CodecDigits[4] = 8 /\ H264CodecDigits[5] = 8
        /\ H264CodecDigits[6] = 2 /\ H264CodecDigits[7] = 4 /\ H264CodecDigits[8] = 4 /\ H264CodecDigits[9] = 2
        /\ H264CodecDigits[10] = 4 /\ H264CodecDigits[11] = 4
    BY DEF H264CodecDigits
  <2>3. /\ Len(d[1]) <= H264CodecDigits[1] /\ Len(d[2]) <= H264CodecDigits[2] /\ Len(d[3]) <= H264CodecDigits[3]
        /\ Len(d[4]) <= H264CodecDigits[4] /\ Len(d[5]) <= H264CodecDigits[5] /\ Len(d[6]) <= H264CodecDigits[6]
        /\ Len(d[7]) <= H264CodecDigits[7] /\ Len(d[8]) <= H264CodecDigits[8] /\ Len(d[9]) <= H264CodecDigits[9]
        /\ Len(d[10]) <= H264CodecDigits[10] /\ Len(d[11]) <= H264CodecDigits[11]
    BY <2>1, <2>2
  <2> QED BY <1>0, <2>3
<1>7. v = [i \in 1 .. 11 |-> v[i]]
  BY <1>2
<1> HIDE DEF v
<1>8. \A i \in 1 .. Len(H264Codec) : v[i] \in [num : Digits] /\ Len(v[i].num) <= H264Codec[i]
  BY <1>3, <1>4, <1>5, <1>6, NumOf
<1>9. v = [i \in 1 .. Len(H264Codec) |-> v[i]]
  BY <1>4, <1>7
<1>10. v \in Vectors(H264Codec)
  BY <1>4, <1>8, <1>9, IsVector
<1>13. \A i \in 1 .. 11 : Len(v[i].num) <= H264CodecDigits[i]
  BY <1>3, <1>5, <1>12, NumOf
<1> QED BY <1>10, <1>13 DEF v

(* The sink's audio codecs can be held.                                    *)
LEMMA SinkCodecsHeld ==
  IsHeld(Property("wfd_audio_codecs", <<>>, << <<Word("LPCM"), Num(<<3>>), Num(<<>>)>>,
                                               <<Word("AAC"), Num(<<15>>), Num(<<>>)>>,
                                               <<Word("AC3"), Num(<<7>>), Num(<<>>)>> >>))
<1>1. ASSUME NEW f \in AudioFormat, NEW x \in 1 .. 15
      PROVE  <<Word(f), Num(<<x>>), Num(<<>>)>> \in AudioCodecValues
  <2>1. <<x>> \in Digits /\ <<>> \in Digits /\ Len(<<x>>) <= UINT /\ Len(<<>>) <= USHORT
    BY SMTT(30), FewDigits DEF UINT, USHORT
  <2>2. Num(<<x>>) \in Number(UINT) /\ Num(<<>>) \in Number(USHORT)
    BY <2>1, NumOf DEF Number
  <2> QED BY <2>2 DEF AudioCodecValues
<1> DEFINE a == <<Word("LPCM"), Num(<<3>>), Num(<<>>)>>
           b == <<Word("AAC"), Num(<<15>>), Num(<<>>)>>
           c == <<Word("AC3"), Num(<<7>>), Num(<<>>)>>
           cs == <<a, b, c>>
           p == Property("wfd_audio_codecs", <<>>, cs)
<1>2. a \in AudioCodecValues /\ b \in AudioCodecValues /\ c \in AudioCodecValues
  <2>1. 3 \in 1 .. 15 /\ 15 \in 1 .. 15 /\ 7 \in 1 .. 15 /\ "LPCM" \in AudioFormat /\ "AAC" \in AudioFormat /\ "AC3" \in AudioFormat
    BY DEF AudioFormat
  <2> QED BY <1>1, <2>1
<1> HIDE DEF a, b, c
<1>3. cs \in Seq(AudioCodecValues)
  BY <1>2
<1> HIDE DEF cs
<1>4. p \in HeldAudioCodecs
  BY <1>3 DEF HeldAudioCodecs
<1>5. IsHeld(p)
  BY <1>4, HeldByName, NamesOfClasses, NamedHeld DEF PropertyName
<1> QED BY <1>5 DEF a, b, c, cs

(* The sink's video formats can be held.                                   *)
LEMMA SinkFormatsHeld ==
  IsHeld(Property("wfd_video_formats", <<Num(<<4, 0>>), Num(<<>>)>>, <<SinkCodec(1), SinkCodec(2)>>))
<1> DEFINE ms == <<Num(<<4, 0>>), Num(<<>>)>>
           a == SinkCodec(1)
           b == SinkCodec(2)
           cs == <<a, b>>
           p == Property("wfd_video_formats", ms, cs)
<1>1. ms \in Vectors(Pair)
  <2> DEFINE d == << <<4, 0>>, <<>> >>
  <2>0. /\ d[1] = <<4, 0>> /\ d[2] = <<>> /\ ms[1] = Num(d[1]) /\ ms[2] = Num(d[2])
        /\ \A i \in 1 .. 2 : i = 1 \/ i = 2
    OBVIOUS
  <2>7. ms = [i \in 1 .. 2 |-> ms[i]]
    OBVIOUS
  <2>8. Len(d[1]) = 2 /\ Len(d[2]) = 0
    OBVIOUS
  <2> HIDE DEF ms, d
  <2>9. d[1] \in Digits /\ d[2] \in Digits
    BY <2>0, FewDigits
  <2>1. \A i \in 1 .. 2 : ms[i] = Num(d[i]) /\ d[i] \in Digits
    BY <2>0, <2>9
  <2>10. Pair[1] = 2 /\ Pair[2] = 2
    BY DEF Pair, UCHAR
  <2>11. Len(d[1]) <= Pair[1] /\ Len(d[2]) <= Pair[2]
    BY <2>8, <2>10
  <2>2. \A i \in 1 .. 2 : Len(d[i]) <= Pair[i]
    BY <2>0, <2>11
  <2>4. \A i \in 1 .. Len(Pair) : ms[i] \in [num : Digits] /\ Len(ms[i].num) <= Pair[i]
    BY <2>1, <2>2, PairTypes, NumOf
  <2>5. ms = [i \in 1 .. Len(Pair) |-> ms[i]]
    BY <2>7, PairTypes
  <2>6. ms \in Vectors(Pair)
    BY <2>4, <2>5, PairTypes, IsVector
  <2> QED BY <2>6 DEF ms
<1>2. a \in Vectors(H264Codec) /\ b \in Vectors(H264Codec)
  <2>1. 1 \in 1 .. 15 /\ 2 \in 1 .. 15
    OBVIOUS
  <2> QED BY <2>1, SinkCodecHeld
<1> HIDE DEF ms, a, b
<1>3. cs \in Seq(Vectors(H264Codec))
  <2> DEFINE V == Vectors(H264Codec)
  <2>1. a \in V /\ b \in V
    BY <1>2
  <2> HIDE DEF V
  <2>2. cs \in Seq(V)
    BY <2>1
  <2> QED BY <2>2 DEF V
<1> HIDE DEF cs
<1>4. p \in HeldVideoFormats
  BY <1>1, <1>3 DEF HeldVideoFormats, HeldFormats
<1>5. IsHeld(p)
  BY <1>4, HeldByName, NamesOfClasses, NamedHeld DEF PropertyName
<1> QED BY <1>5 DEF ms, a, b, cs

(* What the sink answers of each property.                                 *)
LEMMA SinkPropertyIs ==
  ASSUME NEW name
  PROVE  /\ name = "wfd_audio_codecs" => SinkProperty(name) =
              {Property("wfd_audio_codecs", <<>>, << <<Word("LPCM"), Num(<<3>>), Num(<<>>)>>,
                                                     <<Word("AAC"), Num(<<15>>), Num(<<>>)>>,
                                                     <<Word("AC3"), Num(<<7>>), Num(<<>>)>> >>)}
         /\ name = "wfd_video_formats" => SinkProperty(name) =
              {Property("wfd_video_formats", <<Num(<<4, 0>>), Num(<<>>)>>, <<SinkCodec(1), SinkCodec(2)>>)}
         /\ name = "wfd_client_rtp_ports" => SinkProperty(name) = {ClientRtpPorts(SinkUdpPort, 0)}
         /\ name = "wfd_I2C" => SinkProperty(name) = {I2C(Dec(0))}
         /\ name = "wfd_standby_resume_capability" => SinkProperty(name) = {StandbyResumeCapability(FALSE)}
         /\ name \in SinkNone => SinkProperty(name) = {NoneProperty(name)}
<1> DEFINE A1 == {Property(name, <<>>, << <<Word("LPCM"), Num(<<3>>), Num(<<>>)>>,
                                         <<Word("AAC"), Num(<<15>>), Num(<<>>)>>,
                                         <<Word("AC3"), Num(<<7>>), Num(<<>>)>> >>)}
           A2 == {Property(name, <<Num(<<4, 0>>), Num(<<>>)>>, <<SinkCodec(1), SinkCodec(2)>>)}
           A3 == {ClientRtpPorts(SinkUdpPort, 0)}
           A4 == {I2C(Dec(0))}
           A5 == {StandbyResumeCapability(FALSE)}
           A6 == {NoneProperty(name)}
<1>1. SinkProperty(name) =
        CASE name = "wfd_audio_codecs" -> A1
          [] name = "wfd_video_formats" -> A2
          [] name = "wfd_client_rtp_ports" -> A3
          [] name = "wfd_I2C" -> A4
          [] name = "wfd_standby_resume_capability" -> A5
          [] name \in SinkNone -> A6
          [] OTHER -> {}
  BY DEF SinkProperty
<1>2. name \in SinkNone => /\ name # "wfd_audio_codecs" /\ name # "wfd_video_formats" /\ name # "wfd_client_rtp_ports"
                           /\ name # "wfd_I2C" /\ name # "wfd_standby_resume_capability"
  BY DEF SinkNone
<1> HIDE DEF A1, A2, A3, A4, A5, A6
<1>3. name = "wfd_audio_codecs" => SinkProperty(name) = A1
  BY <1>1, <1>2
<1>4. name = "wfd_video_formats" => SinkProperty(name) = A2
  BY <1>1, <1>2
<1>5. name = "wfd_client_rtp_ports" => SinkProperty(name) = A3
  BY <1>1, <1>2
<1>6. name = "wfd_I2C" => SinkProperty(name) = A4
  BY <1>1, <1>2
<1>7. name = "wfd_standby_resume_capability" => SinkProperty(name) = A5
  BY <1>1, <1>2
<1>8. name \in SinkNone => SinkProperty(name) = A6
  BY <1>1, <1>2
<1>9. name = "wfd_audio_codecs" => A1 =
              {Property("wfd_audio_codecs", <<>>, << <<Word("LPCM"), Num(<<3>>), Num(<<>>)>>,
                                                     <<Word("AAC"), Num(<<15>>), Num(<<>>)>>,
                                                     <<Word("AC3"), Num(<<7>>), Num(<<>>)>> >>)}
  BY DEF A1
<1>10. name = "wfd_video_formats" => A2 =
              {Property("wfd_video_formats", <<Num(<<4, 0>>), Num(<<>>)>>, <<SinkCodec(1), SinkCodec(2)>>)}
  BY DEF A2
<1>11. A3 = {ClientRtpPorts(SinkUdpPort, 0)} /\ A4 = {I2C(Dec(0))} /\ A5 = {StandbyResumeCapability(FALSE)}
  BY DEF A3, A4, A5
<1>12. A6 = {NoneProperty(name)}
  BY DEF A6
<1> QED BY <1>3, <1>4, <1>5, <1>6, <1>7, <1>8, <1>9, <1>10, <1>11, <1>12

(* What the sink answers can be held.                                      *)
LEMMA SinkPropertyHeld ==
  ASSUME NEW name \in Names, NEW p \in SinkProperty(name)
  PROVE  p \in HeldAs(name) /\ name \notin Bare
<1>1. ASSUME name = "wfd_audio_codecs" PROVE IsHeld(p) /\ p.type = name
  <2>0. SinkProperty(name) = 
             {Property("wfd_audio_codecs", <<>>, << <<Word("LPCM"), Num(<<3>>), Num(<<>>)>>,
                                                    <<Word("AAC"), Num(<<15>>), Num(<<>>)>>,
                                                    <<Word("AC3"), Num(<<7>>), Num(<<>>)>> >>)}
    BY <1>1, SinkPropertyIs, Zenon
  <2>1. p = Property("wfd_audio_codecs", <<>>, << <<Word("LPCM"), Num(<<3>>), Num(<<>>)>>,
                                               <<Word("AAC"), Num(<<15>>), Num(<<>>)>>,
                                               <<Word("AC3"), Num(<<7>>), Num(<<>>)>> >>)
    BY <2>0
  <2>2. p.type = "wfd_audio_codecs"
    BY <2>1 DEF Property
  <2> QED BY <1>1, <2>1, <2>2, SinkCodecsHeld
<1>2. ASSUME name = "wfd_video_formats" PROVE IsHeld(p) /\ p.type = name
  <2>1. p = Property("wfd_video_formats", <<Num(<<4, 0>>), Num(<<>>)>>, <<SinkCodec(1), SinkCodec(2)>>)
    BY <1>2, SinkPropertyIs
  <2>2. p.type = "wfd_video_formats"
    BY <2>1 DEF Property
  <2> QED BY <1>2, <2>1, <2>2, SinkFormatsHeld
<1>3. ASSUME name = "wfd_client_rtp_ports" PROVE IsHeld(p) /\ p.type = name
  <2>0. SinkProperty(name) = {ClientRtpPorts(SinkUdpPort, 0)}
    BY <1>3, SinkPropertyIs, Zenon
  <2>1. p = ClientRtpPorts(SinkUdpPort, 0)
    BY <2>0
  <2>2. p.type = "wfd_client_rtp_ports"
    BY <2>1 DEF ClientRtpPorts, Property
  <2>3. p \in {ClientRtpPorts(SinkUdpPort, port) : port \in {0, 65535}}
    BY <2>1
  <2> QED BY <1>3, <2>2, <2>3, PortSamplesHeld
<1>4. ASSUME name = "wfd_I2C" PROVE IsHeld(p) /\ p.type = name
  <2>0. SinkProperty(name) = {I2C(Dec(0))}
    BY <1>4, SinkPropertyIs, Zenon
  <2>1. p = I2C(Dec(0))
    BY <2>0
  <2>2. p.type = "wfd_I2C"
    BY <2>1 DEF I2C, Property
  <2>3. 0 \in {-2, -1, 0, 1, INT_MAX}
    OBVIOUS
  <2> QED BY <1>4, <2>1, <2>2, <2>3, SampleOthers
<1>5. ASSUME name = "wfd_standby_resume_capability" PROVE IsHeld(p) /\ p.type = name
  <2>0. SinkProperty(name) = {StandbyResumeCapability(FALSE)}
    BY <1>5, SinkPropertyIs, Zenon
  <2>1. p = StandbyResumeCapability(FALSE)
    BY <2>0
  <2>2. p \in {StandbyResumeCapability(s) : s \in BOOLEAN}
    BY <2>1
  <2>3. p.type = "wfd_standby_resume_capability"
    BY <2>1 DEF StandbyResumeCapability, NoneProperty
  <2> QED BY <1>5, <2>2, <2>3, ResumeSamplesHeld
<1>6. ASSUME name \in SinkNone PROVE IsHeld(p) /\ p.type = name
  <2>1. p = NoneProperty(name)
    BY <1>6, SinkPropertyIs
  <2>2. p.type = name
    BY <2>1 DEF NoneProperty
  <2>3. p \in {Property("wfd_audio_codecs", <<>>, <<>>), NoneProperty("wfd_audio_codecs"),
   NoneProperty("wfd_video_formats"), NoneProperty("wfd_3d_video_formats"),
   NoneProperty("wfd_content_protection"), NoneProperty("wfd_display_edid"),
   NoneProperty("wfd_coupled_sink"), NoneProperty("wfd_uibc_capability"),
   NoneProperty("wfd_connector_type")}
    BY <1>6, <2>1 DEF SinkNone
  <2> QED BY <2>2, <2>3, NoneSamplesHeld
<1>7. name = "wfd_audio_codecs" \/ name = "wfd_video_formats" \/ name = "wfd_client_rtp_ports" \/ name = "wfd_I2C"
        \/ name = "wfd_standby_resume_capability" \/ name \in SinkNone
  BY DEF SinkProperty
<1>8. IsHeld(p) /\ p.type = name
  BY <1>1, <1>2, <1>3, <1>4, <1>5, <1>6, <1>7
<1>9. p \in HeldAs(name)
  BY <1>8, HeldIsTyped DEF IsHeld, TypedAs
<1>10. name \notin Bare
  BY <1>7 DEF Bare, SinkNone
<1> QED BY <1>9, <1>10

----------------------------------------------------------------------------
(* The answers of the programs can be held.                                *)
LEMMA SinkM3ReplyHeld ==
  ASSUME NEW m, HeldMessage(m)
  PROVE  HeldMessage(SinkM3Reply(m))
<1> DEFINE asked == {m.payload.parameters[i] : i \in DOMAIN m.payload.parameters}
           ps == UNION {SinkProperty(n) : n \in asked}
<1>1. m.payload.parameters \in Seq(Names)
  BY DEF HeldMessage, HeldIn, HeldPayload
<1>2. asked \subseteq Names
  BY <1>1
<1>3. SinkM3Reply(m) = NewReply(200, CSeqHeader(m.header.cseq), WithProperties(ps))
  BY DEF SinkM3Reply
<1> HIDE DEF asked
<1>4. \A p \in ps : \E n \in Names : p \in SinkProperty(n)
  BY <1>2
<1> HIDE DEF ps
<1>5. \A p \in ps : IsHeld(p)
  BY <1>4, SinkPropertyHeld DEF IsHeld
<1>6. OnlyProperties(WithProperties(ps))
  BY <1>5, WithPropertiesHeld DEF WithAll
<1> QED BY <1>3, <1>6, ReplyHeld

(* The sink's reply to M4 can be held.                                     *)
LEMMA SinkM4ReplyHeld ==
  ASSUME NEW m
  PROVE  HeldMessage(SinkM4Reply(m))
<1> DEFINE h == CSeqHeader(m.header.cseq)
           p == WithErrors(Put(<<>>, "wfd_presentation_url", <<404>>))
<1>1. SinkM4Reply(m) = NewReply(200, h, Payload) \/ SinkM4Reply(m) = NewReply(303, h, p)
  BY DEF SinkM4Reply
<1>2. OnlyProperties(Payload)
  BY StartPayloads
<1>3. OnlyErrors(p)
  <2> DEFINE empty == <<>>
             name == "wfd_presentation_url"
             codes == <<404>>
  <2>1. HeldErrors(empty) /\ name \in Names /\ codes \in Codes
    BY NoMap, SomeCodes, NamesOfClasses DEF PropertyName
  <2> HIDE DEF empty, name, codes
  <2>2. HeldErrors(Put(empty, name, codes))
    BY <2>1, ErrorsPut
  <2>3. OnlyErrors(WithErrors(Put(empty, name, codes)))
    BY <2>2, WithErrorsHeld
  <2> QED BY <2>3 DEF empty, name, codes
<1> HIDE DEF h, p
<1> QED BY <1>1, <1>2, <1>3, ReplyHeld

(* The source's reply to M6 can be held.                                   *)
LEMMA SourceM6ReplyHeld ==
  ASSUME NEW m
  PROVE  HeldMessage(SourceM6Reply(m))
<1>1. OnlyProperties(Payload)
  BY StartPayloads
<1> QED BY <1>1, ReplyHeld DEF SourceM6Reply

(* What the source puts into M4 can be held.                               *)
LEMMA SourceM4Parts ==
  ASSUME NEW m, HeldMessage(m), "wfd_client_rtp_ports" \in DOMAIN m.payload.properties
  PROVE  /\ IsHeld(m.payload.properties["wfd_client_rtp_ports"])
         /\ m.payload.properties["wfd_client_rtp_ports"] \in HeldClientRtpPorts
         /\ IsHeld(PresentationUrl(Url(0, TRUE), NONE))
<1> DEFINE p == m.payload.properties["wfd_client_rtp_ports"]
           q == PresentationUrl(Url(0, TRUE), NONE)
<1>1. IsHeld(p) /\ p \in HeldClientRtpPorts
  <2>1. HeldProperties(m.payload.properties)
    BY DEF HeldMessage, HeldIn, HeldPayload
  <2> DEFINE n == "wfd_client_rtp_ports"
  <2>2. n \in DOMAIN m.payload.properties
    OBVIOUS
  <2> HIDE DEF n
  <2>3. n \in Names /\ m.payload.properties[n] \in HeldAs(n)
    BY <2>1, <2>2 DEF HeldProperties
  <2>4. IsHeld(m.payload.properties[n])
    BY <2>3 DEF IsHeld
  <2>5. p \in HeldAs("wfd_client_rtp_ports")
    BY <2>3 DEF n
  <2>6. p \in HeldClientRtpPorts
    BY <2>5, HeldByName
  <2> QED BY <2>4, <2>6 DEF n
<1>2. IsHeld(q)
  <2> DEFINE u == Url(0, TRUE)
             v == NONE
  <2>1. u \in FirstUrls /\ v \in SecondUrls
    BY DEF FirstUrls, SecondUrls
  <2> HIDE DEF u, v
  <2>2. PresentationUrl(u, v) \in HeldPresentationUrl
    BY <2>1 DEF HeldPresentationUrl
  <2>3. IsHeld(PresentationUrl(u, v))
    BY <2>2, HeldByName, NamesOfClasses, NamedHeld DEF PropertyName
  <2> QED BY <2>3 DEF u, v
<1> QED BY <1>1, <1>2

(* The M4 the source sends can be held.                                    *)
LEMMA SourceM4Held ==
  ASSUME NEW m, HeldMessage(m), "wfd_client_rtp_ports" \in DOMAIN m.payload.properties
  PROVE  HeldMessage(SourceM4(m))
<1> DEFINE p == m.payload.properties["wfd_client_rtp_ports"]
           q == PresentationUrl(Url(0, TRUE), NONE)
           ps == {p, q}
<1>1. IsHeld(p) /\ IsHeld(q)
  BY SourceM4Parts
<1>3. SourceM4(m) = NewRequest("SET_PARAMETER", URI, CSeqHeader(2), WithProperties(ps))
  BY DEF SourceM4
<1> HIDE DEF p, q
<1>4. \A r \in ps : IsHeld(r)
  BY <1>1
<1> HIDE DEF ps
<1>5. OnlyProperties(WithProperties(ps))
  BY <1>4, WithPropertiesHeld DEF WithAll
<1> QED BY <1>3, <1>5, RequestHeld

----------------------------------------------------------------------------
(* The texts of other makers have lines that the lexers take.              *)
LEMMA ForeignNumber ==
  ASSUME NEW n \in LongNumbers
  PROVE  n \in HexText
<1> DEFINE a == <<0, 1, 2, 3, 4, 5, 6, 7, 8, 9, 10, 11, 12, 13, 14, 15>>
           b == <<15, 14, 13, 12, 11, 10, 9, 8, 7, 6, 5, 4, 3, 2, 1, 0>>
<1>1. n = Chars(a) \/ n = Chars(b)
  BY DEF LongNumbers
<1>2. a \in Seq(0 .. 15) /\ b \in Seq(0 .. 15)
  OBVIOUS
<1> HIDE DEF a, b
<1> QED BY <1>1, <1>2 DEF HexText

(* A line with tokens of its property is well formed.                      *)
LEMMA WellFormedLine ==
  ASSUME NEW name \in Names, NEW tokens
  PROVE  /\ tokens \in Seq(PropertyText(name)) => WellFormed(Line(name, tokens))
         /\ WellFormed(BareLine(name))
<1> DEFINE a == Line(name, tokens)
           b == BareLine(name)
<1>1. a = LineOf(name, TRUE, tokens) /\ b = LineOf(name, FALSE, <<>>)
  BY LineFields
<1>2. a.name = name /\ a.colon = TRUE /\ a.tokens = tokens
  BY <1>1 DEF LineOf
<1>3. b.name = name /\ b.colon = FALSE /\ b.tokens = <<>>
  BY <1>1 DEF LineOf
<1> HIDE DEF a, b
<1>4. tokens \in Seq(PropertyText(name)) => WellFormed(a)
  BY <1>1, <1>2 DEF WellFormed
<1>5. WellFormed(b)
  BY <1>1, <1>3 DEF WellFormed
<1> QED BY <1>4, <1>5 DEF a, b

(* The same of a line in the hexadecimal mode.                             *)
LEMMA HexLine ==
  ASSUME NEW name \in Names, name \in HexMode, NEW tokens \in Seq(HexText)
  PROVE  WellFormed(Line(name, tokens))
  BY WellFormedLine DEF PropertyText

(* The same of a line outside it.                                          *)
LEMMA PlainLine ==
  ASSUME NEW name \in Names, name \notin HexMode, NEW tokens \in Seq(PlainText)
  PROVE  WellFormed(Line(name, tokens))
  BY WellFormedLine DEF PropertyText

(* A token several times is a text.                                        *)
LEMMA RepeatedTokens ==
  ASSUME NEW S, NEW x \in S, NEW n \in Nat
  PROVE  Repeated(x, n) \in Seq(S)
<1>1. Repeated(x, n) = [i \in 1 .. n |-> x]
  BY DEF Repeated
<1> QED BY <1>1

(* Lines with long numbers are well formed.                                *)
LEMMA HexLinesAreWellFormed ==
  ASSUME NEW n \in LongNumbers, NEW line \in LongNumberLines(n)
  PROVE  WellFormed(line)
<1>1. n \in HexText
  BY ForeignNumber
<1>2. Word("AC3") \in HexText /\ NONE \in HexText
  BY DEF HexText, Words, AudioFormat, NONE
<1>3. PICK name, tokens :
        /\ line = Line(name, tokens)
        /\ name \in HexMode
        /\ \/ tokens = <<Word("AC3"), n, n>> \/ tokens = <<n, n>> \/ tokens = <<n, NONE>> \/ tokens = <<n>>
           \/ \E k \in Nat : tokens = Repeated(n, k)
  <2> DEFINE T(tokens) == \/ tokens = <<Word("AC3"), n, n>> \/ tokens = <<n, n>> \/ tokens = <<n, NONE>> \/ tokens = <<n>>
                          \/ \E k \in Nat : tokens = Repeated(n, k)
  <2>1. /\ T(<<Word("AC3"), n, n>>) /\ T(<<n, n>>) /\ T(<<n, NONE>>) /\ T(<<n>>)
        /\ T(Repeated(n, 13)) /\ T(Repeated(n, 11)) /\ T(Repeated(n, 23))
    OBVIOUS
  <2>2. /\ "wfd_audio_codecs" \in HexMode /\ "wfd_video_formats" \in HexMode /\ "wfd_3d_video_formats" \in HexMode
        /\ "wfd_preferred_display_mode" \in HexMode /\ "wfd_coupled_sink" \in HexMode
        /\ "wfd_display_edid" \in HexMode /\ "wfd_av_format_change_timing" \in HexMode
        /\ "wfd_connector_type" \in HexMode
    BY DEF HexMode
  <2>4. \/ line = Line("wfd_audio_codecs", <<Word("AC3"), n, n>>)
        \/ line = Line("wfd_video_formats", Repeated(n, 13))
        \/ line = Line("wfd_3d_video_formats", Repeated(n, 11))
        \/ line = Line("wfd_preferred_display_mode", Repeated(n, 23))
        \/ line = Line("wfd_coupled_sink", <<n, n>>)
        \/ line = Line("wfd_display_edid", <<n, NONE>>)
        \/ line = Line("wfd_av_format_change_timing", <<n, n>>)
        \/ line = Line("wfd_connector_type", <<n>>)
    BY DEF LongNumberLines
  <2> HIDE DEF T
  <2>3. \E name, tokens : line = Line(name, tokens) /\ name \in HexMode /\ T(tokens)
    BY <2>1, <2>2, <2>4
  <2> QED BY <2>3 DEF T
<1>4. name \in Names
  BY <1>3 DEF HexMode, Names, PropertyName
<1>5. tokens \in Seq(HexText)
  <2>1. ASSUME NEW k \in Nat PROVE Repeated(n, k) \in Seq(HexText)
    BY <1>1, RepeatedTokens
  <2> DEFINE x == Word("AC3")
             S == HexText
  <2>2. x \in S /\ n \in S /\ NONE \in S
    BY <1>1, <1>2
  <2> HIDE DEF x, S
  <2>3. <<x, n, n>> \in Seq(S) /\ <<n, n>> \in Seq(S) /\ <<n, NONE>> \in Seq(S) /\ <<n>> \in Seq(S)
    BY <2>2
  <2> QED BY <1>3, <2>1, <2>3 DEF x, S
<1> QED BY <1>3, <1>4, <1>5, HexLine

(* A capability without input is a text.                                   *)
LEMMA NoInputText == NoInput \in Seq(PlainText) /\ Len(NoInput) = 11
<1> DEFINE ws == <<"input_category_list=", "none", "semicolon",
                   "generic_cap_list=", "none", "semicolon",
                   "hidc_cap_list=", "none", "semicolon", "port=", "none">>
<1>1. NoInput = [i \in 1 .. 11 |-> Word(ws[i])]
  BY DEF NoInput
<1>2. ws \in Seq(Words) /\ Len(ws) = 11
  <2>1. /\ "input_category_list=" \in Words /\ "none" \in Words /\ "semicolon" \in Words
        /\ "generic_cap_list=" \in Words /\ "hidc_cap_list=" \in Words /\ "port=" \in Words
    BY DEF Words
  <2> HIDE DEF Words
  <2> QED BY <2>1
<1> HIDE DEF ws
<1>4. \A i \in 1 .. Len(ws) : ws[i] \in Words
  BY <1>2, ElementOfSeq
<1>3. \A i \in 1 .. 11 : Word(ws[i]) \in PlainText
  BY <1>2, <1>4 DEF PlainText
<1> QED BY <1>1, <1>3

(* The lines with long decimals are well formed.                           *)
LEMMA LongLinesAreWellFormed ==
  ASSUME NEW n \in Nat, NEW line \in LongDecimalLines(n)
  PROVE  WellFormed(line)
<1>1. /\ "wfd_content_protection" \in Names /\ "wfd_content_protection" \notin HexMode
      /\ "wfd_client_rtp_ports" \in Names /\ "wfd_client_rtp_ports" \notin HexMode
      /\ "wfd_I2C" \in Names /\ "wfd_I2C" \notin HexMode
      /\ "wfd_uibc_capability" \in Names /\ "wfd_uibc_capability" \notin HexMode
  BY DEF Names, PropertyName, HexMode
<1>2. /\ Word("HDCP2.1") \in PlainText /\ Word("port=") \in PlainText
      /\ Word("RTP/AVP/UDP") \in PlainText /\ Word("mode=play") \in PlainText
  BY WordTokens, WordSets DEF ContentProtection
<1>3. Dec(n) \in PlainText /\ Dec(0) \in PlainText
  BY DecTokens
<1> DEFINE a == <<Word("HDCP2.1"), Word("port="), Dec(n)>>
           b == <<Word("RTP/AVP/UDP"), Dec(n), Dec(0), Word("mode=play")>>
           c == <<Dec(n)>>
           d == [NoInput EXCEPT ![11] = Dec(n)]
<1>4. a \in Seq(PlainText) /\ b \in Seq(PlainText) /\ c \in Seq(PlainText)
  BY <1>2, <1>3
<1>5. d \in Seq(PlainText)
  <2> DEFINE i == 11
  <2>1. NoInput \in Seq(PlainText) /\ i \in 1 .. Len(NoInput)
    BY NoInputText
  <2> HIDE DEF i
  <2>2. [NoInput EXCEPT ![i] = Dec(n)] \in Seq(PlainText)
    BY <1>3, <2>1, ExceptSeq
  <2> QED BY <2>2 DEF i
<1>6. \/ line = Line("wfd_content_protection", a) \/ line = Line("wfd_client_rtp_ports", b)
      \/ line = Line("wfd_I2C", c) \/ line = Line("wfd_uibc_capability", d)
  BY Zenon DEF LongDecimalLines
<1> HIDE DEF a, b, c, d
<1> QED BY <1>1, <1>4, <1>5, <1>6, PlainLine

(* The lines other programs send are well formed.                          *)
LEMMA ForeignLinesAreWellFormed ==
  ASSUME NEW line \in ForeignLines
  PROVE  WellFormed(line)
<1> DEFINE S == UNION {LongNumberLines(n) : n \in LongNumbers}
           L == UNION {LongDecimalLines(n) : n \in LongDecimals}
           T == {Line("wfd_uibc_capability", NoInput), Line("vendor_key", <<Chars(<< 1 >>)>>),
                 BareLine("wfd_standby"), BareLine("vendor_key")}
<1>1. line \in S \/ line \in L \/ line \in T
  BY DEF ForeignLines
<1>2. line \in S => WellFormed(line)
  BY HexLinesAreWellFormed
<1>3. line \in T => WellFormed(line)
  <2>1. /\ "wfd_uibc_capability" \in Names /\ "wfd_uibc_capability" \notin HexMode
        /\ "wfd_standby" \in Names /\ "vendor_key" \in Names /\ "vendor_key" \notin HexMode
    BY DEF Names, PropertyName, HexMode
  <2>2. WellFormed(Line("wfd_uibc_capability", NoInput))
    BY <2>1, NoInputText, PlainLine
  <2>3. WellFormed(Line("vendor_key", <<Chars(<< 1 >>)>>))
    <3> DEFINE t == <<Chars(<< 1 >>)>>
    <3>1. t \in Seq(PlainText)
      <4>1. << 1 >> \in Seq(Nat)
        OBVIOUS
      <4>2. Chars(<< 1 >>) \in PlainText
        BY <4>1 DEF PlainText
      <4> QED BY <4>2
    <3> HIDE DEF t
    <3>2. WellFormed(Line("vendor_key", t))
      BY <2>1, <3>1, PlainLine
    <3> QED BY <3>2 DEF t
  <2>4. WellFormed(BareLine("wfd_standby")) /\ WellFormed(BareLine("vendor_key"))
    BY <2>1, WellFormedLine
  <2> QED BY <2>2, <2>3, <2>4
<1>4. line \in L => WellFormed(line)
  BY SampleDecimals, LongLinesAreWellFormed
<1> HIDE DEF S, T, L
<1> QED BY <1>1, <1>2, <1>3, <1>4

(* A text that can be read as far as its lines go.                         *)
HeldText(t) ==
  /\ t # NoMessage
  /\ WellFormedBody(t.kind, t.code, t.body)

(* So are the texts made of them.                                          *)
LEMMA ForeignTextsHeld ==
  ASSUME NEW t \in ForeignTexts
  PROVE  HeldText(t)
<1>1. ASSUME NEW kind, NEW code, NEW body
      PROVE  LET f == ForeignText(kind, code, body)
             IN f.kind = kind /\ f.code = code /\ f.body = body /\ f # NoMessage
  <2> DEFINE f == ForeignText(kind, code, body)
  <2>1. f.kind = kind /\ f.code = code /\ f.body = body
    BY DEF ForeignText
  <2>2. DOMAIN f = {"kind", "uri", "code", "body", "header"} /\ DOMAIN NoMessage = {"kind"}
    BY DEF ForeignText, NoMessage
  <2> HIDE DEF f
  <2>3. f # NoMessage
    BY <2>2
  <2> QED BY <2>1, <2>3 DEF f
<1>2. ASSUME NEW body \in ForeignBodies
      PROVE  Len(body) \in Nat /\ body = [i \in 1 .. Len(body) |-> body[i]]
               /\ \A i \in 1 .. Len(body) : WellFormed(body[i])
  <2> DEFINE W == {line \in {body[i] : i \in DOMAIN body} : WellFormed(line)}
             a == Line("wfd_I2C", <<Dec(1)>>)
             b == Line("wfd_I2C", <<NONE>>)
  <2>1. WellFormed(a) /\ WellFormed(b)
    <3>1. "wfd_I2C" \in Names /\ "wfd_I2C" \notin HexMode
      BY DEF Names, PropertyName, HexMode
    <3>2. Dec(1) \in PlainText /\ NONE \in PlainText
      BY DEF PlainText, Words, NONE
    <3>3. <<Dec(1)>> \in Seq(PlainText) /\ <<NONE>> \in Seq(PlainText)
      BY <3>2
    <3> QED BY <3>1, <3>3, PlainLine
  <2> HIDE DEF a, b
  <2>2. \/ \E line \in ForeignLines : body = <<line>> \/ body = <<a, line>>
        \/ body = <<a, b>>
    BY DEF ForeignBodies, a, b
  <2>3. \E x, y : WellFormed(x) /\ WellFormed(y) /\ (body = <<x>> \/ body = <<x, y>>)
    BY <2>1, <2>2, ForeignLinesAreWellFormed
  <2>4. PICK x, y : WellFormed(x) /\ WellFormed(y) /\ (body = <<x>> \/ body = <<x, y>>)
    BY <2>3
  <2> QED BY <2>4
<1>3. ASSUME NEW body \in ForeignBodies, NEW kind, NEW code, ~ErrorReply(kind, code)
      PROVE  WellFormedBody(kind, code, body)
  BY <1>2, <1>3 DEF WellFormedBody
<1>4. ~ErrorReply("SET_PARAMETER", 0) /\ ~ErrorReply("REPLY", 200) /\ ErrorReply("REPLY", 303)
  BY DEF ErrorReply
<1>5. ASSUME NEW n \in {"wfd_standby", "wfd_route", "vendor_key"}
      PROVE  WellFormedBody("REPLY", 303, <<Line(n, <<Dec(70000), Word("comma"), Dec(404)>>)>>)
  <2> DEFINE tokens == <<Dec(70000), Word("comma"), Dec(404)>>
             line == Line(n, tokens)
             body == <<line>>
  <2>1. tokens \in Seq(PlainText)
    <3>1. Dec(70000) \in PlainText /\ Word("comma") \in PlainText /\ Dec(404) \in PlainText
      <4>1. 70000 \in Nat /\ 404 \in Nat
        OBVIOUS
      <4> QED BY <4>1, DecTokens, WordTokens, WordSets
    <3> QED BY <3>1
  <2>2. n \in Names
    BY DEF Names, PropertyName
  <2> HIDE DEF tokens
  <2>3. line = LineOf(n, TRUE, tokens) 
    BY LineFields
  <2>4. line.name = n /\ line.colon = TRUE /\ line.tokens = tokens
    BY <2>3 DEF LineOf
  <2> HIDE DEF line
  <2>5. ErrorLine(line)
    BY <2>1, <2>2, <2>3, <2>4 DEF ErrorLine
  <2>6. Len(body) = 1 /\ body = [i \in 1 .. Len(body) |-> body[i]] /\ body[1] = line
    OBVIOUS
  <2> HIDE DEF body
  <2>7. WellFormedBody("REPLY", 303, body)
    BY <1>4, <2>5, <2>6 DEF WellFormedBody
  <2> QED BY <2>7 DEF body, line, tokens
<1>6. \/ \E body \in ForeignBodies : t = ForeignText("SET_PARAMETER", 0, body) \/ t = ForeignText("REPLY", 200, body)
      \/ \E n \in {"wfd_standby", "wfd_route", "vendor_key"} :
            t = ForeignText("REPLY", 303, <<Line(n, <<Dec(70000), Word("comma"), Dec(404)>>)>>)
      \/ \E n \in LongDecimals : t = ForeignSetup(n)
  BY DEF ForeignTexts
<1>7. ASSUME NEW n, t = ForeignSetup(n) PROVE HeldText(t)
  <2>1. t.kind = "SETUP" /\ t.code = 0 /\ t.body = <<>>
    BY <1>7 DEF ForeignSetup
  <2>2. DOMAIN t = {"kind", "uri", "code", "body", "header"} /\ DOMAIN NoMessage = {"kind"}
    BY <1>7 DEF ForeignSetup, NoMessage
  <2>3. t # NoMessage
    BY <2>2
  <2>4. ~ErrorReply("SETUP", 0)
    BY DEF ErrorReply
  <2> DEFINE body == <<>>
  <2>5. Len(body) = 0 /\ body = [i \in 1 .. 0 |-> body[i]]
    OBVIOUS
  <2> HIDE DEF body
  <2>6. WellFormedBody("SETUP", 0, body)
    BY <2>4, <2>5 DEF WellFormedBody
  <2> QED BY <2>1, <2>3, <2>6 DEF HeldText, body
<1>8. ASSUME NEW kind, NEW code, NEW body, t = ForeignText(kind, code, body), WellFormedBody(kind, code, body)
      PROVE  HeldText(t)
  BY <1>1, <1>8 DEF HeldText
<1> QED BY <1>3, <1>4, <1>5, <1>6, <1>7, <1>8

----------------------------------------------------------------------------
(* The invariant: what was made, and what was read, can be held, and what  *)
(* is read next is what was printed last.                                  *)
HeldInv ==
  /\ stage \in {"composed", "printed", "header", "read", "refused"}
  /\ maker \in {"user", "program", "foreign", "forward"}
  /\ hop \in 0 .. MaxHops
  /\ stage = "composed" => hop < MaxHops /\ HeldMessage(sent)
  /\ sent # NoMessage => HeldMessage(sent)
  /\ message_ # NoMessage => HeldMessage(message_)
  /\ stage \in {"printed", "header"} => HeldText(text)
  /\ stage = "header" => message_ = Message(text.kind, text.uri, text.code, message_.header, Payload)
  /\ stage = "read" => message_ # NoMessage

(* Storing the length of the body changes only the header.                 *)
LEMMA WithLengthIs ==
  ASSUME NEW m, m = Message(m.kind, m.uri, m.code, m.header, m.payload)
  PROVE  WithLength(m) = Message(m.kind, m.uri, m.code,
                                 [m.header EXCEPT !.content_length = Len(PayloadToString(m.payload))], m.payload)
<1> DEFINE n == Len(PayloadToString(m.payload))
           h == [m.header EXCEPT !.content_length = n]
<1>1. WithLength(m) = [m EXCEPT !.header = h]
  BY Zenon DEF WithLength
<1> HIDE DEF h
<1>2. WithLength(m) = Message(m.kind, m.uri, m.code, h, m.payload)
  BY <1>1 DEF Message
<1> QED BY <1>2 DEF h

(* A message with that length can be held.                                 *)
LEMMA LengthHeld ==
  ASSUME NEW m, HeldMessage(m)
  PROVE  HeldMessage(WithLength(m))
<1>1. m = Message(m.kind, m.uri, m.code, m.header, m.payload) /\ HeldIn(m.kind, m.code, m.payload)
  BY DEF HeldMessage
<1> QED BY <1>1, WithLengthIs, IsHeldMessage

(* A message that can be held is printed as a text that can be read.       *)
LEMMA TextHeld ==
  ASSUME NEW m, HeldMessage(m)
  PROVE  HeldText(MessageToString(m))
<1> DEFINE t == MessageToString(m)
<1>1. t.kind = m.kind /\ t.code = m.code /\ t.body = PayloadToString(m.payload)
  BY DEF MessageToString
<1>2. DOMAIN t = {"kind", "uri", "code", "body", "header"} /\ DOMAIN NoMessage = {"kind"}
  BY DEF MessageToString, NoMessage
<1> HIDE DEF t
<1>3. t # NoMessage
  BY <1>2
<1>4. HeldIn(m.kind, m.code, m.payload)
  BY DEF HeldMessage
<1>5. WellFormedBody(t.kind, t.code, t.body)
  BY <1>1, <1>4, PrintedIsWellFormed
<1>6. HeldText(t)
  BY <1>3, <1>5 DEF HeldText
<1> QED BY <1>6 DEF t

(* What is read of a header is a message with nothing in its payload yet.  *)
LEMMA HeaderHeld ==
  ASSUME NEW t, NEW m \in ParseHeader(t)
  PROVE  m = Message(t.kind, t.uri, t.code, m.header, Payload) /\ HeldMessage(m) /\ m # NoMessage
<1>1. PICK h : m = Message(t.kind, t.uri, t.code, h, Payload)
  BY DEF ParseHeader
<1>2. m.header = h /\ m # NoMessage
  BY <1>1, MessageFields
<1>3. HeldIn(t.kind, t.code, Payload)
  BY EmptyPayload
<1> QED BY <1>1, <1>2, <1>3, IsHeldMessage

(* What is read of a body makes a message that can be held.                *)
LEMMA PayloadReadIsHeld ==
  ASSUME NEW t, HeldText(t), NEW m, m = Message(t.kind, t.uri, t.code, m.header, Payload),
         NEW r \in ParsePayload(m, t)
  PROVE  /\ r = Message(t.kind, t.uri, t.code, m.header, r.payload)
         /\ r.payload \in ReadPayload(LexerFor(m), t.body)
         /\ HeldMessage(r) /\ r # NoMessage
<1>1. PICK p \in ReadPayload(LexerFor(m), t.body) : r = [m EXCEPT !.payload = p]
  BY DEF ParsePayload
<1>2. r = Message(t.kind, t.uri, t.code, m.header, p)
  BY <1>1 DEF Message
<1>3. m # NoMessage /\ m.kind = t.kind /\ m.code = t.code
  BY MessageFields
<1>4. r # NoMessage /\ r.payload = p
  BY <1>2, MessageFields
<1>5. HeldIn(m.kind, m.code, p)
  BY <1>1, <1>3, PayloadIsHeld DEF HeldText
<1>6. HeldMessage(r)
  BY <1>2, <1>3, <1>5, IsHeldMessage
<1> QED BY <1>1, <1>2, <1>4, <1>6

(* At the start nothing has been said.                                     *)
LEMMA InvInit == Init => HeldInv
<1> SUFFICES ASSUME Init PROVE HeldInv
  OBVIOUS
<1>1. hop = 0 /\ message_ = NoMessage /\ hop \in 0 .. MaxHops /\ hop < MaxHops
  BY ExchangeAssumption DEF Init
<1>2. CASE Compose("user", SampleMessages)
  <2>1. HeldMessage(sent) /\ stage = "composed" /\ maker = "user"
    BY <1>2, SampleMessagesHeld DEF Compose
  <2> QED BY <1>1, <2>1 DEF HeldInv
<1>3. CASE Compose("program", ProgramMessages)
  <2>1. HeldMessage(sent) /\ stage = "composed" /\ maker = "program"
    BY <1>3, ProgramMessagesHeld DEF Compose
  <2> QED BY <1>1, <2>1 DEF HeldInv
<1>4. CASE maker = "foreign" /\ stage = "printed" /\ sent = NoMessage /\ text \in ForeignTexts
  <2>1. HeldText(text)
    BY <1>4, ForeignTextsHeld
  <2> QED BY <1>1, <1>4, <2>1 DEF HeldInv
<1> QED BY <1>2, <1>3, <1>4 DEF Init

(* Printing a message that can be held keeps the invariant.                *)
LEMMA AgainHeld ==
  ASSUME HeldInv, NEW by \in {"program", "forward"}, NEW m, HeldMessage(m), Again(by, m)
  PROVE  HeldInv'
  BY DEF HeldInv, Again

(* Every step of the exchange keeps the invariant.                         *)
LEMMA InvNext == HeldInv /\ [Next]_vars => HeldInv'
<1> SUFFICES ASSUME HeldInv, [Next]_vars PROVE HeldInv'
  OBVIOUS
<1>1. CASE Send
  <2>1. HeldMessage(sent) /\ hop < MaxHops /\ hop \in 0 .. MaxHops
    BY <1>1 DEF HeldInv, Send
  <2>2. HeldText(text') /\ HeldMessage(sent')
    BY <1>1, <2>1, TextHeld, LengthHeld DEF Send
  <2>3. hop' \in 0 .. MaxHops
    BY <1>1, <2>1, ExchangeAssumption DEF Send
  <2> QED BY <1>1, <2>2, <2>3 DEF HeldInv, Send
<1>2. CASE ReadTheHeader
  <2>1. CASE message_' = NoMessage /\ Refuse
    BY <1>2, <2>1 DEF HeldInv, ReadTheHeader, Refuse
  <2>2. CASE /\ message_' \in ParseHeader(text)
             /\ stage' = IF message_'.header.content_length = 0 THEN "read" ELSE "header"
    <3>1. /\ message_' = Message(text.kind, text.uri, text.code, message_'.header, Payload)
          /\ HeldMessage(message_') /\ message_' # NoMessage
      BY <2>2, HeaderHeld
    <3>2. HeldText(text)
      BY <1>2 DEF HeldInv, ReadTheHeader
    <3>3. stage' \in {"read", "header"}
      BY <2>2
    <3> QED BY <1>2, <3>1, <3>2, <3>3 DEF HeldInv, ReadTheHeader
  <2> QED BY <1>2, <2>1, <2>2 DEF ReadTheHeader
<1>3. CASE ReadThePayload
  <2>1. CASE UNCHANGED message_ /\ Refuse
    BY <1>3, <2>1 DEF HeldInv, ReadThePayload, Refuse
  <2>2. CASE message_' \in ParsePayload(message_, text) /\ stage' = "read"
    <3>1. HeldText(text) /\ message_ = Message(text.kind, text.uri, text.code, message_.header, Payload)
      BY <1>3 DEF HeldInv, ReadThePayload
    <3>2. HeldMessage(message_') /\ message_' # NoMessage
      BY <2>2, <3>1, PayloadReadIsHeld
    <3> QED BY <1>3, <2>2, <3>2 DEF HeldInv, ReadThePayload
  <2> QED BY <1>3, <2>1, <2>2 DEF ReadThePayload
<1>4. CASE stage = "read" /\ (PassOn \/ SinkAnswersM3 \/ SinkAnswersM4 \/ SourceAnswersM6 \/ SourceSendsM4)
  <2>1. HeldMessage(message_)
    BY <1>4 DEF HeldInv
  <2>2. CASE PassOn
    BY <2>1, <2>2, AgainHeld DEF PassOn
  <2>3. CASE SinkAnswersM3
    BY <2>1, <2>3, SinkM3ReplyHeld, AgainHeld DEF SinkAnswersM3
  <2>4. CASE SinkAnswersM4
    BY <2>4, SinkM4ReplyHeld, AgainHeld DEF SinkAnswersM4
  <2>5. CASE SourceAnswersM6
    BY <2>5, SourceM6ReplyHeld, AgainHeld DEF SourceAnswersM6
  <2>6. CASE SourceSendsM4
    <3>1. "wfd_client_rtp_ports" \in DOMAIN message_.payload.properties
      BY <2>6 DEF SourceSendsM4
    <3> QED BY <2>1, <2>6, <3>1, SourceM4Held, AgainHeld DEF SourceSendsM4
  <2> QED BY <1>4, <2>2, <2>3, <2>4, <2>5, <2>6
<1>5. CASE UNCHANGED vars
  BY <1>5 DEF HeldInv, vars
<1> QED BY <1>1, <1>2, <1>3, <1>4, <1>5 DEF Next, PassOn, SinkAnswersM3, SinkAnswersM4, SourceAnswersM6, SourceSendsM4

(* The numbers of a payload that can be held have their C types.           *)
TypedPayload(p) ==
  /\ \A n \in DOMAIN p.properties : TypedProperty(p.properties[n])
  /\ \A n \in DOMAIN p.errors : \A i \in DOMAIN p.errors[n] : p.errors[n][i] \in UShort

LEMMA HeldPayloadTyped ==
  ASSUME NEW p, HeldPayload(p)
  PROVE  TypedPayload(p)
<1>1. HeldProperties(p.properties) /\ HeldErrors(p.errors)
  BY DEF HeldPayload
<1>2. ASSUME NEW n \in DOMAIN p.properties PROVE TypedProperty(p.properties[n])
  <2>1. n \in Names /\ p.properties[n] \in HeldAs(n)
    BY <1>1 DEF HeldProperties
  <2> QED BY <2>1, HeldIsTyped DEF TypedAs
<1>3. ASSUME NEW n \in DOMAIN p.errors, NEW i \in DOMAIN p.errors[n] PROVE p.errors[n][i] \in UShort
  <2>1. p.errors[n] \in Codes
    BY <1>1 DEF HeldErrors
  <2> QED BY <2>1 DEF Codes
<1> QED BY <1>2, <1>3 DEF TypedPayload

(* Whatever is made or read, from any text, is what the classes can hold:  *)
(* the payload of a kind the message may have, every value in its C type.  *)
THEOREM Invariant == Spec => []HeldInv
<1> QED BY InvInit, InvNext, PTL DEF Spec

----------------------------------------------------------------------------
(* The transport header, as it is printed and read.                        *)

(* What a production of five takes.                                        *)
LEMMA FiveTokens ==
  ASSUME NEW A, NEW B, NEW C, NEW D, NEW E, NEW x, NEW y, NEW z, NEW w, NEW v
  PROVE  Derives(<<A, B, C, D, E>>, <<x, y, z, w, v>>) <=>
           /\ Terminal(x) \in A /\ Terminal(y) \in B /\ Terminal(z) \in C
           /\ Terminal(w) \in D /\ Terminal(v) \in E
<1> DEFINE s == <<x, y, z, w, v>>
           P == <<A, B, C, D, E>>
<1>1. /\ DOMAIN s = 1 .. 5 /\ s[1] = x /\ s[2] = y /\ s[3] = z /\ s[4] = w /\ s[5] = v
      /\ Len(s) = 5 /\ Len(P) = 5
      /\ P[1] = A /\ P[2] = B /\ P[3] = C /\ P[4] = D /\ P[5] = E
  OBVIOUS
<1>2. \A i \in 1 .. 5 : i = 1 \/ i = 2 \/ i = 3 \/ i = 4 \/ i = 5
  OBVIOUS
<1> HIDE DEF s, P
<1>3. Derives(P, s) <=> \A i \in 1 .. 5 : Terminal(s[i]) \in P[i]
  BY <1>1 DEF Derives
<1>4. Derives(P, s) <=> /\ Terminal(s[1]) \in P[1] /\ Terminal(s[2]) \in P[2] /\ Terminal(s[3]) \in P[3]
                        /\ Terminal(s[4]) \in P[4] /\ Terminal(s[5]) \in P[5]
  BY <1>2, <1>3
<1> QED BY <1>1, <1>4 DEF s, P

(* What a production of seven takes.                                       *)
LEMMA SevenTokens ==
  ASSUME NEW A, NEW B, NEW C, NEW D, NEW E, NEW F, NEW G,
         NEW x, NEW y, NEW z, NEW w, NEW v, NEW u, NEW r
  PROVE  Derives(<<A, B, C, D, E, F, G>>, <<x, y, z, w, v, u, r>>) <=>
           /\ Terminal(x) \in A /\ Terminal(y) \in B /\ Terminal(z) \in C
           /\ Terminal(w) \in D /\ Terminal(v) \in E /\ Terminal(u) \in F /\ Terminal(r) \in G
<1> DEFINE s == <<x, y, z, w, v, u, r>>
           P == <<A, B, C, D, E, F, G>>
<1>1. /\ DOMAIN s = 1 .. 7 /\ s[1] = x /\ s[2] = y /\ s[3] = z /\ s[4] = w /\ s[5] = v /\ s[6] = u /\ s[7] = r
      /\ Len(s) = 7 /\ Len(P) = 7
      /\ P[1] = A /\ P[2] = B /\ P[3] = C /\ P[4] = D /\ P[5] = E /\ P[6] = F /\ P[7] = G
  OBVIOUS
<1>2. \A i \in 1 .. 7 : i = 1 \/ i = 2 \/ i = 3 \/ i = 4 \/ i = 5 \/ i = 6 \/ i = 7
  OBVIOUS
<1> HIDE DEF s, P
<1>3. Derives(P, s) <=> \A i \in 1 .. 7 : Terminal(s[i]) \in P[i]
  BY <1>1 DEF Derives
<1>4. Derives(P, s) <=> /\ Terminal(s[1]) \in P[1] /\ Terminal(s[2]) \in P[2] /\ Terminal(s[3]) \in P[3]
                        /\ Terminal(s[4]) \in P[4] /\ Terminal(s[5]) \in P[5] /\ Terminal(s[6]) \in P[6]
                        /\ Terminal(s[7]) \in P[7]
  BY <1>2, <1>3
<1> QED BY <1>1, <1>4 DEF s, P

(* A text of one token after one.                                          *)
LEMMA JoinOneOne ==
  ASSUME NEW x, NEW a
  PROVE  <<x>> \o <<a>> = <<x, a>>
<1> DEFINE S == {x, a}
           s == <<x>> \o <<a>>
<1>1. <<x>> \in Seq(S) /\ <<a>> \in Seq(S) /\ Len(<<x>>) = 1 /\ Len(<<a>>) = 1
  OBVIOUS
<1>2. s \in Seq(S) /\ Len(s) = 2 /\ s[1] = x /\ s[2] = a
  BY <1>1, ConcatProperties
<1> HIDE DEF s
<1>3. s = <<x, a>>
  BY <1>2
<1> QED BY <1>3 DEF s

(* A text of three tokens after one.                                       *)
LEMMA JoinOneThree ==
  ASSUME NEW x, NEW a, NEW b, NEW c
  PROVE  <<x>> \o <<a, b, c>> = <<x, a, b, c>>
<1> DEFINE S == {x, a, b, c}
           s == <<x>> \o <<a, b, c>>
<1>1. <<x>> \in Seq(S) /\ <<a, b, c>> \in Seq(S) /\ Len(<<x>>) = 1 /\ Len(<<a, b, c>>) = 3
  OBVIOUS
<1>2. s \in Seq(S) /\ Len(s) = 4 /\ s[1] = x /\ s[2] = a /\ s[3] = b /\ s[4] = c
  BY <1>1, ConcatProperties
<1> HIDE DEF s
<1>3. s = <<x, a, b, c>>
  BY <1>2
<1> QED BY <1>3 DEF s

(* A text of four tokens after one.                                        *)
LEMMA JoinOneFour ==
  ASSUME NEW x, NEW a, NEW b, NEW c, NEW d
  PROVE  <<x>> \o <<a, b, c, d>> = <<x, a, b, c, d>>
<1> DEFINE S == {x, a, b, c, d}
           s == <<x>> \o <<a, b, c, d>>
<1>1. <<x>> \in Seq(S) /\ <<a, b, c, d>> \in Seq(S) /\ Len(<<x>>) = 1 /\ Len(<<a, b, c, d>>) = 4
  OBVIOUS
<1>2. s \in Seq(S) /\ Len(s) = 5 /\ s[1] = x /\ s[2] = a /\ s[3] = b /\ s[4] = c /\ s[5] = d
  BY <1>1, ConcatProperties
<1> HIDE DEF s
<1>3. s = <<x, a, b, c, d>>
  BY <1>2
<1> QED BY <1>3 DEF s

(* A text of two tokens after three.                                       *)
LEMMA JoinThreeTwo ==
  ASSUME NEW x, NEW y, NEW z, NEW a, NEW b
  PROVE  <<x, y, z>> \o <<a, b>> = <<x, y, z, a, b>>
<1> DEFINE S == {x, y, z, a, b}
           s == <<x, y, z>> \o <<a, b>>
<1>1. <<x, y, z>> \in Seq(S) /\ <<a, b>> \in Seq(S) /\ Len(<<x, y, z>>) = 3 /\ Len(<<a, b>>) = 2
  OBVIOUS
<1>2. s \in Seq(S) /\ Len(s) = 5 /\ s[1] = x /\ s[2] = y /\ s[3] = z /\ s[4] = a /\ s[5] = b
  BY <1>1, ConcatProperties
<1> HIDE DEF s
<1>3. s = <<x, y, z, a, b>>
  BY <1>2
<1> QED BY <1>3 DEF s

(* A text of four tokens after three.                                      *)
LEMMA JoinThreeFour ==
  ASSUME NEW x, NEW y, NEW z, NEW a, NEW b, NEW c, NEW d
  PROVE  <<x, y, z>> \o <<a, b, c, d>> = <<x, y, z, a, b, c, d>>
<1> DEFINE S == {x, y, z, a, b, c, d}
           s == <<x, y, z>> \o <<a, b, c, d>>
<1>1. <<x, y, z>> \in Seq(S) /\ <<a, b, c, d>> \in Seq(S) /\ Len(<<x, y, z>>) = 3 /\ Len(<<a, b, c, d>>) = 4
  OBVIOUS
<1>2. s \in Seq(S) /\ Len(s) = 7 /\ s[1] = x /\ s[2] = y /\ s[3] = z /\ s[4] = a /\ s[5] = b /\ s[6] = c /\ s[7] = d
  BY <1>1, ConcatProperties
<1> HIDE DEF s
<1>3. s = <<x, y, z, a, b, c, d>>
  BY <1>2
<1> QED BY <1>3 DEF s

(* A text of no tokens after another.                                      *)
LEMMA JoinNone ==
  ASSUME NEW x, NEW y, NEW z
  PROVE  <<x>> \o <<>> = <<x>> /\ <<x, y, z>> \o <<>> = <<x, y, z>>
<1> DEFINE S == {x, y, z}
<1>1. <<x>> \in Seq(S) /\ <<x, y, z>> \in Seq(S)
  OBVIOUS
<1> QED BY <1>1, ConcatEmptySeq

TransportOf(cp, cr, sp, sr) ==
  [client_port |-> cp, client_rtcp |-> cr, server_port |-> sp, server_rtcp |-> sr]

TransportTokens(cp, c, sp, s, r) ==
  PortToString(cp, c) \o (IF s THEN <<Word("server_port=")>> \o PortToString(sp, r) ELSE <<>>)

(* The productions of the ports, one by one.                               *)
LEMMA TransportProductions ==
  ASSUME NEW N, N = {"NUM"}, NEW M, M = {"-"}, NEW S, S = {"server_port="}
  PROVE  /\ \A r : TransportProduction(FALSE, FALSE, r) = <<N>> /\ TransportProduction(TRUE, FALSE, r) = <<N, M, N>>
         /\ TransportProduction(FALSE, TRUE, FALSE) = <<N, S, N>>
         /\ TransportProduction(FALSE, TRUE, TRUE) = <<N, S, N, M, N>>
         /\ TransportProduction(TRUE, TRUE, FALSE) = <<N, M, N, S, N>>
         /\ TransportProduction(TRUE, TRUE, TRUE) = <<N, M, N, S, N, M, N>>
<1>1. PortProduction(FALSE) = <<N>> \o <<>> /\ PortProduction(TRUE) = <<N>> \o <<M, N>>
  BY DEF PortProduction
<1>2. PortProduction(FALSE) = <<N>> /\ PortProduction(TRUE) = <<N, M, N>>
  BY <1>1, JoinNone, ConcatPair
<1>3. <<S>> \o <<N>> = <<S, N>> /\ <<S>> \o <<N, M, N>> = <<S, N, M, N>>
  BY JoinOneOne, JoinOneThree
<1>4. /\ \A r : TransportProduction(FALSE, FALSE, r) = <<N>> \o <<>>
      /\ \A r : TransportProduction(TRUE, FALSE, r) = <<N, M, N>> \o <<>>
      /\ TransportProduction(FALSE, TRUE, FALSE) = <<N>> \o <<S, N>>
      /\ TransportProduction(FALSE, TRUE, TRUE) = <<N>> \o <<S, N, M, N>>
      /\ TransportProduction(TRUE, TRUE, FALSE) = <<N, M, N>> \o <<S, N>>
      /\ TransportProduction(TRUE, TRUE, TRUE) = <<N, M, N>> \o <<S, N, M, N>>
  BY <1>2, <1>3 DEF TransportProduction
<1>5. <<N>> \o <<>> = <<N>> /\ <<N, M, N>> \o <<>> = <<N, M, N>>
  BY JoinNone
<1>6. <<N>> \o <<S, N>> = <<N, S, N>> /\ <<N>> \o <<S, N, M, N>> = <<N, S, N, M, N>>
  BY ConcatPair, JoinOneFour
<1>7. <<N, M, N>> \o <<S, N>> = <<N, M, N, S, N>> /\ <<N, M, N>> \o <<S, N, M, N>> = <<N, M, N, S, N, M, N>>
  BY JoinThreeTwo, JoinThreeFour
<1> QED BY <1>4, <1>5, <1>6, <1>7

(* The texts of the ports, one by one.                                     *)
LEMMA TransportTexts ==
  ASSUME NEW a, NEW b
  PROVE  /\ TransportTokens(a, FALSE, b, FALSE, FALSE) = <<Dec(a)>>
         /\ TransportTokens(a, TRUE, b, FALSE, FALSE) = <<Dec(a), Word("-"), Dec((a + 1) % (UINT_MAX + 1))>>
         /\ TransportTokens(a, FALSE, b, TRUE, FALSE) = <<Dec(a), Word("server_port="), Dec(b)>>
         /\ TransportTokens(a, FALSE, b, TRUE, TRUE) =
              <<Dec(a), Word("server_port="), Dec(b), Word("-"), Dec((b + 1) % (UINT_MAX + 1))>>
         /\ TransportTokens(a, TRUE, b, TRUE, FALSE) =
              <<Dec(a), Word("-"), Dec((a + 1) % (UINT_MAX + 1)), Word("server_port="), Dec(b)>>
         /\ TransportTokens(a, TRUE, b, TRUE, TRUE) =
              <<Dec(a), Word("-"), Dec((a + 1) % (UINT_MAX + 1)), Word("server_port="), Dec(b), Word("-"), Dec((b + 1) % (UINT_MAX + 1))>>
<1> DEFINE A == Dec(a)
           A1 == Dec((a + 1) % (UINT_MAX + 1))
           B == Dec(b)
           B1 == Dec((b + 1) % (UINT_MAX + 1))
           M == Word("-")
           S == Word("server_port=")
<1>1. /\ PortToString(a, FALSE) = <<A>> \o <<>> /\ PortToString(a, TRUE) = <<A>> \o <<M, A1>>
      /\ PortToString(b, FALSE) = <<B>> \o <<>> /\ PortToString(b, TRUE) = <<B>> \o <<M, B1>>
  BY DEF PortToString
<1> HIDE DEF A, A1, B, B1, M
<1>2. /\ PortToString(a, FALSE) = <<A>> /\ PortToString(a, TRUE) = <<A, M, A1>>
      /\ PortToString(b, FALSE) = <<B>> /\ PortToString(b, TRUE) = <<B, M, B1>>
  BY <1>1, JoinNone, ConcatPair
<1>4. /\ TransportTokens(a, FALSE, b, FALSE, FALSE) = <<A>> \o <<>>
      /\ TransportTokens(a, TRUE, b, FALSE, FALSE) = <<A, M, A1>> \o <<>>
      /\ TransportTokens(a, FALSE, b, TRUE, FALSE) = <<A>> \o (<<S>> \o <<B>>)
      /\ TransportTokens(a, FALSE, b, TRUE, TRUE) = <<A>> \o (<<S>> \o <<B, M, B1>>)
      /\ TransportTokens(a, TRUE, b, TRUE, FALSE) = <<A, M, A1>> \o (<<S>> \o <<B>>)
      /\ TransportTokens(a, TRUE, b, TRUE, TRUE) = <<A, M, A1>> \o (<<S>> \o <<B, M, B1>>)
  BY <1>2 DEF TransportTokens
<1> HIDE DEF S
<1>3. <<S>> \o <<B>> = <<S, B>> /\ <<S>> \o <<B, M, B1>> = <<S, B, M, B1>>
  BY JoinOneOne, JoinOneThree
<1>6. <<A>> \o <<>> = <<A>> /\ <<A, M, A1>> \o <<>> = <<A, M, A1>>
  BY JoinNone
<1>7. <<A>> \o <<S, B>> = <<A, S, B>> /\ <<A>> \o <<S, B, M, B1>> = <<A, S, B, M, B1>>
  BY ConcatPair, JoinOneFour
<1>8. /\ <<A, M, A1>> \o <<S, B>> = <<A, M, A1, S, B>>
      /\ <<A, M, A1>> \o <<S, B, M, B1>> = <<A, M, A1, S, B, M, B1>>
  BY JoinThreeTwo, JoinThreeFour
<1>5. /\ TransportTokens(a, FALSE, b, FALSE, FALSE) = <<A>>
      /\ TransportTokens(a, TRUE, b, FALSE, FALSE) = <<A, M, A1>>
      /\ TransportTokens(a, FALSE, b, TRUE, FALSE) = <<A, S, B>>
      /\ TransportTokens(a, FALSE, b, TRUE, TRUE) = <<A, S, B, M, B1>>
      /\ TransportTokens(a, TRUE, b, TRUE, FALSE) = <<A, M, A1, S, B>>
      /\ TransportTokens(a, TRUE, b, TRUE, TRUE) = <<A, M, A1, S, B, M, B1>>
  BY <1>3, <1>4, <1>6, <1>7, <1>8
<1> QED BY <1>5 DEF A, A1, B, B1, M, S

(* The ports are read by one of those productions.                         *)
LEMMA TransportRead ==
  ASSUME NEW tokens, NEW q
  PROVE  q \in ReadTransport(tokens) <=>
           \E c \in BOOLEAN, s \in BOOLEAN, r \in BOOLEAN :
             /\ (r => s) /\ Derives(TransportProduction(c, s, r), tokens)
             /\ q = TransportOf(AsUInt(tokens[1]), c, IF s THEN AsUInt(tokens[IF c THEN 5 ELSE 3]) ELSE 0, r)
<1>1. q \in ReadTransport(tokens) <=>
        \E c \in BOOLEAN, s \in BOOLEAN, r \in BOOLEAN : q \in ReadPorts(c, s, r, tokens)
  BY DEF ReadTransport
<1>2. ASSUME NEW c \in BOOLEAN, NEW s \in BOOLEAN, NEW r \in BOOLEAN
      PROVE  q \in ReadPorts(c, s, r, tokens) <=>
               /\ (r => s) /\ Derives(TransportProduction(c, s, r), tokens)
               /\ q = TransportOf(AsUInt(tokens[1]), c, IF s THEN AsUInt(tokens[IF c THEN 5 ELSE 3]) ELSE 0, r)
  <2> DEFINE n == IF s THEN AsUInt(tokens[IF c THEN 5 ELSE 3]) ELSE 0
             value == TransportOf(AsUInt(tokens[1]), c, n, r)
             ok == (r => s) /\ Derives(TransportProduction(c, s, r), tokens)
  <2>1. ReadPorts(c, s, r, tokens) = When(ok, value)
    BY Zenon DEF ReadPorts, TransportOf
  <2> HIDE DEF ok, value
  <2>2. q \in ReadPorts(c, s, r, tokens) <=> ok /\ q = value
    BY <2>1 DEF When
  <2> QED BY <2>2 DEF ok, value
<1> QED BY <1>1, <1>2

----------------------------------------------------------------------------
(* Each way to write the ports is taken by its own production only.        *)
TransportDerives(c, s, r, t) ==
  \A x \in BOOLEAN, y \in BOOLEAN, z \in BOOLEAN :
    (z => y) => (Derives(TransportProduction(x, y, z), t) <=> x = c /\ y = s /\ z = r)

(* The ports are printed by their own production.                          *)
LEMMA TransportDerived ==
  ASSUME NEW a, NEW b, NEW c \in BOOLEAN, NEW s \in BOOLEAN, NEW r \in BOOLEAN, r => s
  PROVE  TransportDerives(c, s, r, TransportTokens(a, c, b, s, r))
<1> DEFINE A == Dec(a)
           A1 == Dec((a + 1) % (UINT_MAX + 1))
           B == Dec(b)
           B1 == Dec((b + 1) % (UINT_MAX + 1))
           m == Word("-")
           p == Word("server_port=")
           N == {"NUM"}
           M == {"-"}
           S == {"server_port="}
<1>1. /\ Terminal(A) \in N /\ Terminal(A1) \in N /\ Terminal(B) \in N /\ Terminal(B1) \in N
      /\ Terminal(m) \in M /\ Terminal(p) \in S /\ Terminal(m) \notin S /\ Terminal(p) \notin M
  BY Tokens
<1> DEFINE T(x, y, z) == TransportProduction(x, y, z)
<1>2. /\ T(FALSE, FALSE, FALSE) = <<N>> /\ T(TRUE, FALSE, FALSE) = <<N, M, N>>
      /\ T(FALSE, TRUE, FALSE) = <<N, S, N>> /\ T(FALSE, TRUE, TRUE) = <<N, S, N, M, N>>
      /\ T(TRUE, TRUE, FALSE) = <<N, M, N, S, N>> /\ T(TRUE, TRUE, TRUE) = <<N, M, N, S, N, M, N>>
  BY TransportProductions
<1> HIDE DEF N, M, S, T
<1> DEFINE P1 == <<N>>
           P2 == <<N, M, N>>
           P3 == <<N, S, N>>
           P4 == <<N, S, N, M, N>>
           P5 == <<N, M, N, S, N>>
           P6 == <<N, M, N, S, N, M, N>>
<1>3. Len(P1) = 1 /\ Len(P2) = 3 /\ Len(P3) = 3 /\ Len(P4) = 5 /\ Len(P5) = 5 /\ Len(P6) = 7
  OBVIOUS
<1>4. ASSUME NEW t, NEW x \in BOOLEAN, NEW y \in BOOLEAN, NEW z \in BOOLEAN,
             \A i \in BOOLEAN, j \in BOOLEAN, k \in BOOLEAN : (k => j) => (Derives(T(i, j, k), t) <=> i = x /\ j = y /\ k = z)
      PROVE  TransportDerives(x, y, z, t)
  BY <1>4 DEF T, TransportDerives
<1>5. CASE c = FALSE /\ s = FALSE /\ r = FALSE
  <2> DEFINE t == <<A>>
  <2>1. TransportTokens(a, c, b, s, r) = t
    BY <1>5, TransportTexts
  <2>2. Len(t) = 1
    OBVIOUS
  <2>3. Derives(P1, t)
    BY <1>1, OneToken
  <2> HIDE DEF t, A, A1, B, B1, m, p
  <2>20. /\ T(FALSE, FALSE, FALSE) = P1 /\ T(TRUE, FALSE, FALSE) = P2 /\ T(FALSE, TRUE, FALSE) = P3
         /\ T(FALSE, TRUE, TRUE) = P4 /\ T(TRUE, TRUE, FALSE) = P5 /\ T(TRUE, TRUE, TRUE) = P6
    BY <1>2
  <2> HIDE DEF P1, P2, P3, P4, P5, P6
  <2>4. ~Derives(P2, t) /\ ~Derives(P3, t) /\ ~Derives(P4, t) /\ ~Derives(P5, t) /\ ~Derives(P6, t)
    BY <1>3, <2>2 DEF Derives
  <2>5. \A i \in BOOLEAN, j \in BOOLEAN, k \in BOOLEAN : (k => j) => (Derives(T(i, j, k), t) <=> i = c /\ j = s /\ k = r)
    <3> SUFFICES ASSUME NEW i \in BOOLEAN, NEW j \in BOOLEAN, NEW k \in BOOLEAN, k => j
                 PROVE  Derives(T(i, j, k), t) <=> i = c /\ j = s /\ k = r
      OBVIOUS
    <3>1. CASE i = FALSE /\ j = FALSE /\ k = FALSE
      BY <2>20, <1>5, <2>3, <2>4, <3>1
    <3>2. CASE i = TRUE /\ j = FALSE /\ k = FALSE
      BY <2>20, <1>5, <2>3, <2>4, <3>2
    <3>3. CASE i = FALSE /\ j = TRUE /\ k = FALSE
      BY <2>20, <1>5, <2>3, <2>4, <3>3
    <3>4. CASE i = FALSE /\ j = TRUE /\ k = TRUE
      BY <2>20, <1>5, <2>3, <2>4, <3>4
    <3>5. CASE i = TRUE /\ j = TRUE /\ k = FALSE
      BY <2>20, <1>5, <2>3, <2>4, <3>5
    <3>6. CASE i = TRUE /\ j = TRUE /\ k = TRUE
      BY <2>20, <1>5, <2>3, <2>4, <3>6
    <3> QED BY <3>1, <3>2, <3>3, <3>4, <3>5, <3>6
  <2> QED BY <1>4, <2>1, <2>5
<1>6. CASE c = TRUE /\ s = FALSE /\ r = FALSE
  <2> DEFINE t == <<A, m, A1>>
  <2>1. TransportTokens(a, c, b, s, r) = t
    BY <1>6, TransportTexts
  <2>2. Len(t) = 3
    OBVIOUS
  <2>3. Derives(P2, t)
    BY <1>1, ThreeTokens
  <2>4. ~Derives(P3, t)
    BY <1>1, ThreeTokens
  <2> HIDE DEF t, A, A1, B, B1, m, p
  <2>20. /\ T(FALSE, FALSE, FALSE) = P1 /\ T(TRUE, FALSE, FALSE) = P2 /\ T(FALSE, TRUE, FALSE) = P3
         /\ T(FALSE, TRUE, TRUE) = P4 /\ T(TRUE, TRUE, FALSE) = P5 /\ T(TRUE, TRUE, TRUE) = P6
    BY <1>2
  <2> HIDE DEF P1, P2, P3, P4, P5, P6
  <2>5. ~Derives(P1, t) /\ ~Derives(P4, t) /\ ~Derives(P5, t) /\ ~Derives(P6, t)
    BY <1>3, <2>2 DEF Derives
  <2>6. \A i \in BOOLEAN, j \in BOOLEAN, k \in BOOLEAN : (k => j) => (Derives(T(i, j, k), t) <=> i = c /\ j = s /\ k = r)
    <3> SUFFICES ASSUME NEW i \in BOOLEAN, NEW j \in BOOLEAN, NEW k \in BOOLEAN, k => j
                 PROVE  Derives(T(i, j, k), t) <=> i = c /\ j = s /\ k = r
      OBVIOUS
    <3>1. CASE i = FALSE /\ j = FALSE /\ k = FALSE
      BY <2>20, <1>6, <2>3, <2>4, <2>5, <3>1
    <3>2. CASE i = TRUE /\ j = FALSE /\ k = FALSE
      BY <2>20, <1>6, <2>3, <2>4, <2>5, <3>2
    <3>3. CASE i = FALSE /\ j = TRUE /\ k = FALSE
      BY <2>20, <1>6, <2>3, <2>4, <2>5, <3>3
    <3>4. CASE i = FALSE /\ j = TRUE /\ k = TRUE
      BY <2>20, <1>6, <2>3, <2>4, <2>5, <3>4
    <3>5. CASE i = TRUE /\ j = TRUE /\ k = FALSE
      BY <2>20, <1>6, <2>3, <2>4, <2>5, <3>5
    <3>6. CASE i = TRUE /\ j = TRUE /\ k = TRUE
      BY <2>20, <1>6, <2>3, <2>4, <2>5, <3>6
    <3> QED BY <3>1, <3>2, <3>3, <3>4, <3>5, <3>6
  <2> QED BY <1>4, <2>1, <2>6
<1>7. CASE c = FALSE /\ s = TRUE /\ r = FALSE
  <2> DEFINE t == <<A, p, B>>
  <2>1. TransportTokens(a, c, b, s, r) = t
    BY <1>7, TransportTexts
  <2>2. Len(t) = 3
    OBVIOUS
  <2>3. ~Derives(P2, t)
    BY <1>1, ThreeTokens
  <2>4. Derives(P3, t)
    BY <1>1, ThreeTokens
  <2> HIDE DEF t, A, A1, B, B1, m, p
  <2>20. /\ T(FALSE, FALSE, FALSE) = P1 /\ T(TRUE, FALSE, FALSE) = P2 /\ T(FALSE, TRUE, FALSE) = P3
         /\ T(FALSE, TRUE, TRUE) = P4 /\ T(TRUE, TRUE, FALSE) = P5 /\ T(TRUE, TRUE, TRUE) = P6
    BY <1>2
  <2> HIDE DEF P1, P2, P3, P4, P5, P6
  <2>5. ~Derives(P1, t) /\ ~Derives(P4, t) /\ ~Derives(P5, t) /\ ~Derives(P6, t)
    BY <1>3, <2>2 DEF Derives
  <2>6. \A i \in BOOLEAN, j \in BOOLEAN, k \in BOOLEAN : (k => j) => (Derives(T(i, j, k), t) <=> i = c /\ j = s /\ k = r)
    <3> SUFFICES ASSUME NEW i \in BOOLEAN, NEW j \in BOOLEAN, NEW k \in BOOLEAN, k => j
                 PROVE  Derives(T(i, j, k), t) <=> i = c /\ j = s /\ k = r
      OBVIOUS
    <3>1. CASE i = FALSE /\ j = FALSE /\ k = FALSE
      BY <2>20, <1>7, <2>3, <2>4, <2>5, <3>1
    <3>2. CASE i = TRUE /\ j = FALSE /\ k = FALSE
      BY <2>20, <1>7, <2>3, <2>4, <2>5, <3>2
    <3>3. CASE i = FALSE /\ j = TRUE /\ k = FALSE
      BY <2>20, <1>7, <2>3, <2>4, <2>5, <3>3
    <3>4. CASE i = FALSE /\ j = TRUE /\ k = TRUE
      BY <2>20, <1>7, <2>3, <2>4, <2>5, <3>4
    <3>5. CASE i = TRUE /\ j = TRUE /\ k = FALSE
      BY <2>20, <1>7, <2>3, <2>4, <2>5, <3>5
    <3>6. CASE i = TRUE /\ j = TRUE /\ k = TRUE
      BY <2>20, <1>7, <2>3, <2>4, <2>5, <3>6
    <3> QED BY <3>1, <3>2, <3>3, <3>4, <3>5, <3>6
  <2> QED BY <1>4, <2>1, <2>6
<1>8. CASE c = FALSE /\ s = TRUE /\ r = TRUE
  <2> DEFINE t == <<A, p, B, m, B1>>
  <2>1. TransportTokens(a, c, b, s, r) = t
    BY <1>8, TransportTexts
  <2>2. Len(t) = 5
    OBVIOUS
  <2>3. Derives(P4, t)
    BY <1>1, FiveTokens
  <2>4. ~Derives(P5, t)
    BY <1>1, FiveTokens
  <2> HIDE DEF t, A, A1, B, B1, m, p
  <2>20. /\ T(FALSE, FALSE, FALSE) = P1 /\ T(TRUE, FALSE, FALSE) = P2 /\ T(FALSE, TRUE, FALSE) = P3
         /\ T(FALSE, TRUE, TRUE) = P4 /\ T(TRUE, TRUE, FALSE) = P5 /\ T(TRUE, TRUE, TRUE) = P6
    BY <1>2
  <2> HIDE DEF P1, P2, P3, P4, P5, P6
  <2>5. ~Derives(P1, t) /\ ~Derives(P2, t) /\ ~Derives(P3, t) /\ ~Derives(P6, t)
    BY <1>3, <2>2 DEF Derives
  <2>6. \A i \in BOOLEAN, j \in BOOLEAN, k \in BOOLEAN : (k => j) => (Derives(T(i, j, k), t) <=> i = c /\ j = s /\ k = r)
    <3> SUFFICES ASSUME NEW i \in BOOLEAN, NEW j \in BOOLEAN, NEW k \in BOOLEAN, k => j
                 PROVE  Derives(T(i, j, k), t) <=> i = c /\ j = s /\ k = r
      OBVIOUS
    <3>1. CASE i = FALSE /\ j = FALSE /\ k = FALSE
      BY <2>20, <1>8, <2>3, <2>4, <2>5, <3>1
    <3>2. CASE i = TRUE /\ j = FALSE /\ k = FALSE
      BY <2>20, <1>8, <2>3, <2>4, <2>5, <3>2
    <3>3. CASE i = FALSE /\ j = TRUE /\ k = FALSE
      BY <2>20, <1>8, <2>3, <2>4, <2>5, <3>3
    <3>4. CASE i = FALSE /\ j = TRUE /\ k = TRUE
      BY <2>20, <1>8, <2>3, <2>4, <2>5, <3>4
    <3>5. CASE i = TRUE /\ j = TRUE /\ k = FALSE
      BY <2>20, <1>8, <2>3, <2>4, <2>5, <3>5
    <3>6. CASE i = TRUE /\ j = TRUE /\ k = TRUE
      BY <2>20, <1>8, <2>3, <2>4, <2>5, <3>6
    <3> QED BY <3>1, <3>2, <3>3, <3>4, <3>5, <3>6
  <2> QED BY <1>4, <2>1, <2>6
<1>9. CASE c = TRUE /\ s = TRUE /\ r = FALSE
  <2> DEFINE t == <<A, m, A1, p, B>>
  <2>1. TransportTokens(a, c, b, s, r) = t
    BY <1>9, TransportTexts
  <2>2. Len(t) = 5
    OBVIOUS
  <2>3. ~Derives(P4, t)
    BY <1>1, FiveTokens
  <2>4. Derives(P5, t)
    BY <1>1, FiveTokens
  <2> HIDE DEF t, A, A1, B, B1, m, p
  <2>20. /\ T(FALSE, FALSE, FALSE) = P1 /\ T(TRUE, FALSE, FALSE) = P2 /\ T(FALSE, TRUE, FALSE) = P3
         /\ T(FALSE, TRUE, TRUE) = P4 /\ T(TRUE, TRUE, FALSE) = P5 /\ T(TRUE, TRUE, TRUE) = P6
    BY <1>2
  <2> HIDE DEF P1, P2, P3, P4, P5, P6
  <2>5. ~Derives(P1, t) /\ ~Derives(P2, t) /\ ~Derives(P3, t) /\ ~Derives(P6, t)
    BY <1>3, <2>2 DEF Derives
  <2>6. \A i \in BOOLEAN, j \in BOOLEAN, k \in BOOLEAN : (k => j) => (Derives(T(i, j, k), t) <=> i = c /\ j = s /\ k = r)
    <3> SUFFICES ASSUME NEW i \in BOOLEAN, NEW j \in BOOLEAN, NEW k \in BOOLEAN, k => j
                 PROVE  Derives(T(i, j, k), t) <=> i = c /\ j = s /\ k = r
      OBVIOUS
    <3>1. CASE i = FALSE /\ j = FALSE /\ k = FALSE
      BY <2>20, <1>9, <2>3, <2>4, <2>5, <3>1
    <3>2. CASE i = TRUE /\ j = FALSE /\ k = FALSE
      BY <2>20, <1>9, <2>3, <2>4, <2>5, <3>2
    <3>3. CASE i = FALSE /\ j = TRUE /\ k = FALSE
      BY <2>20, <1>9, <2>3, <2>4, <2>5, <3>3
    <3>4. CASE i = FALSE /\ j = TRUE /\ k = TRUE
      BY <2>20, <1>9, <2>3, <2>4, <2>5, <3>4
    <3>5. CASE i = TRUE /\ j = TRUE /\ k = FALSE
      BY <2>20, <1>9, <2>3, <2>4, <2>5, <3>5
    <3>6. CASE i = TRUE /\ j = TRUE /\ k = TRUE
      BY <2>20, <1>9, <2>3, <2>4, <2>5, <3>6
    <3> QED BY <3>1, <3>2, <3>3, <3>4, <3>5, <3>6
  <2> QED BY <1>4, <2>1, <2>6
<1>10. CASE c = TRUE /\ s = TRUE /\ r = TRUE
  <2> DEFINE t == <<A, m, A1, p, B, m, B1>>
  <2>1. TransportTokens(a, c, b, s, r) = t
    BY <1>10, TransportTexts
  <2>2. Len(t) = 7
    OBVIOUS
  <2>3. Derives(P6, t)
    BY <1>1, SevenTokens
  <2> HIDE DEF t, A, A1, B, B1, m, p
  <2>20. /\ T(FALSE, FALSE, FALSE) = P1 /\ T(TRUE, FALSE, FALSE) = P2 /\ T(FALSE, TRUE, FALSE) = P3
         /\ T(FALSE, TRUE, TRUE) = P4 /\ T(TRUE, TRUE, FALSE) = P5 /\ T(TRUE, TRUE, TRUE) = P6
    BY <1>2
  <2> HIDE DEF P1, P2, P3, P4, P5, P6
  <2>4. ~Derives(P1, t) /\ ~Derives(P2, t) /\ ~Derives(P3, t) /\ ~Derives(P4, t) /\ ~Derives(P5, t)
    BY <1>3, <2>2 DEF Derives
  <2>5. \A i \in BOOLEAN, j \in BOOLEAN, k \in BOOLEAN : (k => j) => (Derives(T(i, j, k), t) <=> i = c /\ j = s /\ k = r)
    <3> SUFFICES ASSUME NEW i \in BOOLEAN, NEW j \in BOOLEAN, NEW k \in BOOLEAN, k => j
                 PROVE  Derives(T(i, j, k), t) <=> i = c /\ j = s /\ k = r
      OBVIOUS
    <3>1. CASE i = FALSE /\ j = FALSE /\ k = FALSE
      BY <2>20, <1>10, <2>3, <2>4, <3>1
    <3>2. CASE i = TRUE /\ j = FALSE /\ k = FALSE
      BY <2>20, <1>10, <2>3, <2>4, <3>2
    <3>3. CASE i = FALSE /\ j = TRUE /\ k = FALSE
      BY <2>20, <1>10, <2>3, <2>4, <3>3
    <3>4. CASE i = FALSE /\ j = TRUE /\ k = TRUE
      BY <2>20, <1>10, <2>3, <2>4, <3>4
    <3>5. CASE i = TRUE /\ j = TRUE /\ k = FALSE
      BY <2>20, <1>10, <2>3, <2>4, <3>5
    <3>6. CASE i = TRUE /\ j = TRUE /\ k = TRUE
      BY <2>20, <1>10, <2>3, <2>4, <3>6
    <3> QED BY <3>1, <3>2, <3>3, <3>4, <3>5, <3>6
  <2> QED BY <1>4, <2>1, <2>5
<1> QED BY <1>5, <1>6, <1>7, <1>8, <1>9, <1>10

(* What is read of ports that only one production takes.                   *)
LEMMA TransportReadBy ==
  ASSUME NEW c \in BOOLEAN, NEW s \in BOOLEAN, NEW z \in BOOLEAN, z => s, NEW t, TransportDerives(c, s, z, t)
  PROVE  ReadTransport(t) = {TransportOf(AsUInt(t[1]), c, IF s THEN AsUInt(t[IF c THEN 5 ELSE 3]) ELSE 0, z)}
<1> DEFINE n == IF s THEN AsUInt(t[IF c THEN 5 ELSE 3]) ELSE 0
           v == TransportOf(AsUInt(t[1]), c, n, z)
<1>1. ASSUME NEW q \in ReadTransport(t) PROVE q = v
  <2>1. PICK x \in BOOLEAN, y \in BOOLEAN, w \in BOOLEAN :
          /\ (w => y) /\ Derives(TransportProduction(x, y, w), t)
          /\ q = TransportOf(AsUInt(t[1]), x, IF y THEN AsUInt(t[IF x THEN 5 ELSE 3]) ELSE 0, w)
    BY TransportRead
  <2>2. x = c /\ y = s /\ w = z
    BY <2>1 DEF TransportDerives
  <2> QED BY <2>1, <2>2
<1>2. Derives(TransportProduction(c, s, z), t)
  BY DEF TransportDerives
<1>3. v \in ReadTransport(t)
  BY <1>2, TransportRead
<1> HIDE DEF v
<1>4. ReadTransport(t) = {v}
  BY <1>1, <1>3
<1> QED BY <1>4 DEF v

----------------------------------------------------------------------------
(* The transport header is read as it was printed, but for an RTCP port    *)
(* without the server's port.                                              *)
ReadBackTransport(a, c, b, r) ==
  \E tokens : /\ TransportToString(TransportOf(a, c, b, r)) = <<Line("Transport", tokens)>>
              /\ ReadTransport(tokens) = {TransportOf(a, c, b, b > 0 /\ r)}

(* And are read as they were, but for an RTCP port without a server port.  *)
LEMMA TransportIsReadBack ==
  ASSUME NEW a \in UInt, NEW c \in BOOLEAN, NEW b \in UInt, NEW r \in BOOLEAN, a > 0
  PROVE  ReadBackTransport(a, c, b, r)
<1> DEFINE s == b > 0
           z == s /\ r
           t == TransportTokens(a, c, b, s, z)
           v == TransportOf(a, c, b, z)
<1>0. a \in Nat /\ b \in Nat
  BY Ranges
<1>1. /\ s \in BOOLEAN /\ z \in BOOLEAN /\ (z => s) /\ (s => z = r) /\ (s <=> b > 0)
      /\ ~s => b = 0
  BY <1>0
<1>2. TransportToString(TransportOf(a, c, b, r)) = <<Line("Transport", t)>>
  <2> DEFINE u == TransportOf(a, c, b, r)
  <2>1. u.client_port = a /\ u.client_rtcp = c /\ u.server_port = b /\ u.server_rtcp = r
    BY DEF TransportOf
  <2> HIDE DEF u
  <2>2. TransportToString(u) =
          LineIf(a > 0, "Transport",
                 PortToString(a, c) \o (IF b > 0 THEN <<Word("server_port=")>> \o PortToString(b, r) ELSE <<>>))
    BY <2>1 DEF TransportToString
  <2>3. t = PortToString(a, c) \o (IF b > 0 THEN <<Word("server_port=")>> \o PortToString(b, r) ELSE <<>>)
    BY <1>1 DEF TransportTokens
  <2> HIDE DEF t
  <2> QED BY <2>2, <2>3 DEF LineIf, u
<1>3. TransportDerives(c, s, z, t)
  BY <1>1, TransportDerived
<1>4. AsUInt(t[1]) = a /\ (s => AsUInt(t[IF c THEN 5 ELSE 3]) = b)
  <2> DEFINE A == Dec(a)
             A1 == Dec((a + 1) % (UINT_MAX + 1))
             B == Dec(b)
             B1 == Dec((b + 1) % (UINT_MAX + 1))
             m == Word("-")
             p == Word("server_port=")
  <2>1. \/ ~s /\ (t = <<A>> \/ t = <<A, m, A1>>)
        \/ c = FALSE /\ (t = <<A, p, B>> \/ t = <<A, p, B, m, B1>>)
        \/ c = TRUE /\ (t = <<A, m, A1, p, B>> \/ t = <<A, m, A1, p, B, m, B1>>)
    <3> HIDE DEF s, z
    <3>0. c = TRUE \/ c = FALSE
      OBVIOUS
    <3>1. CASE ~s
      <4>1. s = FALSE /\ z = FALSE
        BY <1>1, <3>1
      <4>2. t = TransportTokens(a, c, b, FALSE, FALSE)
        BY <4>1
      <4> HIDE DEF t
      <4>3. c = FALSE => t = <<A>>
        BY <4>2, TransportTexts
      <4>4. c = TRUE => t = <<A, m, A1>>
        BY <4>2, TransportTexts
      <4> QED BY <3>0, <3>1, <4>3, <4>4
    <3>2. CASE s
      <4>1. s = TRUE /\ (z = TRUE \/ z = FALSE)
        BY <1>1, <3>2
      <4>2. t = TransportTokens(a, c, b, TRUE, z)
        BY <4>1
      <4> HIDE DEF t
      <4>3. c = FALSE => t = <<A, p, B>> \/ t = <<A, p, B, m, B1>>
        BY ZenonT(40), <4>1, <4>2, TransportTexts
      <4>4. c = TRUE => t = <<A, m, A1, p, B>> \/ t = <<A, m, A1, p, B, m, B1>>
        BY <4>1, <4>2, TransportTexts
      <4> QED BY <3>0, <4>3, <4>4
    <3> QED BY <3>1, <3>2
  <2>2. AsUInt(A) = a /\ AsUInt(B) = b
    BY <1>0, Converted
  <2> HIDE DEF A, A1, B, B1, m, p, t, s
  <2> QED BY <2>1, <2>2
<1> HIDE DEF t, s, z
<1>5. (IF s THEN AsUInt(t[IF c THEN 5 ELSE 3]) ELSE 0) = b
  BY <1>1, <1>4
<1>6. ReadTransport(t) = {TransportOf(a, c, b, z)}
  BY <1>1, <1>3, <1>4, <1>5, TransportReadBy
<1> QED BY <1>2, <1>6 DEF s, z, ReadBackTransport

----------------------------------------------------------------------------
(* A header, line by line.                                                 *)
HeaderOf(cseq, length, timeout, session, transport, type, require, methods, generics) ==
  [cseq |-> cseq, content_length |-> length, timeout |-> timeout, session |-> session,
   transport |-> transport, content_type |-> type, require_wfd_support |-> require,
   supported_methods |-> methods, generic_headers |-> generics]

NumberLinesRead(r, n, u, v) ==
  /\ ReadHeaderLine(r, Line("CSeq", <<Dec(n)>>)) = {u}
  /\ ReadHeaderLine(r, Line("Content-Length", <<Dec(n)>>)) = {v}

(* A line with a number sets that part of the header.                      *)
LEMMA NumberLines ==
  ASSUME NEW a, NEW b, NEW c, NEW d, NEW e, NEW f, NEW g, NEW h, NEW i, NEW n
  PROVE  NumberLinesRead(HeaderOf(a, b, c, d, e, f, g, h, i), n,
                         HeaderOf(AsInt(Dec(n)), b, c, d, e, f, g, h, i),
                         HeaderOf(a, AsInt(Dec(n)), c, d, e, f, g, h, i))
<1> DEFINE r == HeaderOf(a, b, c, d, e, f, g, h, i)
           t == <<Dec(n)>>
           x == Line("CSeq", t)
           y == Line("Content-Length", t)
           number == Derives(<<{"NUM"}>>, t)
           k == AsInt(Dec(n))
           u == [r EXCEPT !.cseq = AsInt(t[1])]
           v == [r EXCEPT !.content_length = AsInt(t[1])]
<1>1. x.name = "CSeq" /\ x.tokens = t /\ y.name = "Content-Length" /\ y.tokens = t
  BY DEF Line
<1>2. number /\ AsInt(t[1]) = k
  <2>1. Terminal(Dec(n)) \in {"NUM"}
    BY Tokens
  <2> QED BY <2>1, OneToken
<1>3. u = HeaderOf(k, b, c, d, e, f, g, h, i) /\ v = HeaderOf(a, k, c, d, e, f, g, h, i)
  <2> HIDE DEF k, t
  <2> QED BY <1>2 DEF HeaderOf
<1> HIDE DEF t, r
<1>4. ReadHeaderLine(r, x) = When(number, u)
  BY <1>1 DEF ReadHeaderLine
<1>5. ReadHeaderLine(r, y) = When(number, v)
  BY <1>1 DEF ReadHeaderLine
<1>6. ReadHeaderLine(r, x) = {u} /\ ReadHeaderLine(r, y) = {v}
  BY <1>2, <1>4, <1>5 DEF When
<1> HIDE DEF u, v
<1>7. NumberLinesRead(r, n, u, v)
  BY <1>6 DEF NumberLinesRead, t
<1> QED BY <1>3, <1>7 DEF r

TypeLineReads(r, x, u) == ReadHeaderLine(r, Line("Content-Type", <<x>>)) = {u}
RequireLineReads(r, u) == ReadHeaderLine(r, Line("Require", <<>>)) = {u}
SessionLineReads(r, x, u) == ReadHeaderLine(r, Line("Session", <<x>>)) = {u}
TimeoutLineReads(r, x, n, u) == ReadHeaderLine(r, Line("Session", <<x, Word("timeout="), Dec(n)>>)) = {u}

(* A line with a string sets that part of the header.                      *)
LEMMA StringLines ==
  ASSUME NEW a, NEW b, NEW c, NEW d, NEW e, NEW f, NEW g, NEW h, NEW i, NEW s, NEW x, x = Chars(s), NEW n
  PROVE  LET r == HeaderOf(a, b, c, d, e, f, g, h, i)
         IN /\ TypeLineReads(r, x, HeaderOf(a, b, c, d, e, x, g, h, i))
            /\ RequireLineReads(r, HeaderOf(a, b, c, d, e, f, TRUE, h, i))
            /\ SessionLineReads(r, x, HeaderOf(a, b, 0, x, e, f, g, h, i))
            /\ TimeoutLineReads(r, x, n, HeaderOf(a, b, AsUInt(Dec(n)), x, e, f, g, h, i))
<1> DEFINE r == HeaderOf(a, b, c, d, e, f, g, h, i)
           t == <<x>>
           w == <<x, Word("timeout="), Dec(n)>>
           A == {"STRING"}
           B == {"timeout="}
           C == {"NUM"}
           yes == Derives(<<A, B, C>>, w)
           no == Derives(<<A, B, C>>, t)
           one == Derives(<<A>>, t)
           two == Derives(<<A>>, w)
           plain == [r EXCEPT !.session = x, !.timeout = 0]
           k == AsUInt(Dec(n))
           timed == [r EXCEPT !.session = x, !.timeout = k]
<1>1. Terminal(x) \in A /\ Terminal(Word("timeout=")) \in B /\ Terminal(Dec(n)) \in C
  BY Tokens
<1> HIDE DEF A, B, C
<1>2. yes /\ one
  BY <1>1, OneToken, ThreeTokens
<1>3. ~no /\ ~two
  <2>1. Len(<<A>>) = 1 /\ Len(<<A, B, C>>) = 3 /\ Len(t) = 1 /\ Len(w) = 3
    OBVIOUS
  <2> QED BY <2>1 DEF Derives
<1>4. t[1] = x /\ w[1] = x /\ AsUInt(w[3]) = k
  OBVIOUS
<1> HIDE DEF t, w, k
<1>5. ReadSession(r, t) = {plain}
  <2> DEFINE value == [r EXCEPT !.session = t[1], !.timeout = 0]
             other == [r EXCEPT !.session = t[1], !.timeout = AsUInt(t[3])]
  <2>1. ReadSession(r, t) = When(one, value) \cup When(no, other)
    BY Zenon DEF ReadSession, A, B, C
  <2>2. value = plain
    BY <1>4
  <2> HIDE DEF value, other, plain, one, no
  <2> QED BY <1>2, <1>3, <2>1, <2>2 DEF When
<1>6. ReadSession(r, w) = {timed}
  <2> DEFINE value == [r EXCEPT !.session = w[1], !.timeout = 0]
             other == [r EXCEPT !.session = w[1], !.timeout = AsUInt(w[3])]
  <2>1. ReadSession(r, w) = When(two, value) \cup When(yes, other)
    BY Zenon DEF ReadSession, A, B, C
  <2>2. other = timed
    BY <1>4
  <2> HIDE DEF value, other, timed, two, yes
  <2> QED BY <1>2, <1>3, <2>1, <2>2 DEF When
<1>7. ReadHeaderLine(r, Line("Session", t)) = {plain} /\ ReadHeaderLine(r, Line("Session", w)) = {timed}
  <2> HIDE DEF r, plain, timed
  <2>1. ASSUME NEW u PROVE ReadHeaderLine(r, Line("Session", u)) = ReadSession(r, u)
    <3> DEFINE line == Line("Session", u)
    <3>1. line.name = "Session" /\ line.tokens = u
      BY DEF Line
    <3> HIDE DEF line
    <3>2. ReadHeaderLine(r, line) = ReadSession(r, u)
      BY <3>1 DEF ReadHeaderLine
    <3> QED BY <3>2 DEF line
  <2> QED BY <1>5, <1>6, <2>1
<1>8. ReadHeaderLine(r, Line("Content-Type", t)) = {[r EXCEPT !.content_type = x]}
  <2> DEFINE line == Line("Content-Type", t)
             value == [r EXCEPT !.content_type = t[1]]
             good == Derives(<<{"STRING"}>>, t)
  <2>1. line.name = "Content-Type" /\ line.tokens = t
    BY DEF Line
  <2>2. good
    BY <1>2 DEF A
  <2>3. value = [r EXCEPT !.content_type = x]
    BY <1>4
  <2> HIDE DEF line, r
  <2>4. ReadHeaderLine(r, line) = When(good, value)
    BY <2>1 DEF ReadHeaderLine
  <2> QED BY <2>2, <2>3, <2>4 DEF When, line
<1>9. ReadHeaderLine(r, Line("Require", <<>>)) = {[r EXCEPT !.require_wfd_support = TRUE]}
  <2> DEFINE line == Line("Require", <<>>)
  <2>1. line.name = "Require"
    BY DEF Line
  <2> HIDE DEF line, r
  <2>2. ReadHeaderLine(r, line) = {[r EXCEPT !.require_wfd_support = TRUE]}
    BY <2>1 DEF ReadHeaderLine
  <2> QED BY <2>2 DEF line
<1>15. [r EXCEPT !.session = x] = HeaderOf(a, b, c, x, e, f, g, h, i)
  BY DEF HeaderOf
<1>16. ASSUME NEW j PROVE [r EXCEPT !.session = x, !.timeout = j] = HeaderOf(a, b, j, x, e, f, g, h, i)
  <2> DEFINE r1 == [r EXCEPT !.session = x]
  <2>1. [r EXCEPT !.session = x, !.timeout = j] = [r1 EXCEPT !.timeout = j]
    OBVIOUS
  <2>3. r1 = HeaderOf(a, b, c, x, e, f, g, h, i)
    BY <1>15
  <2> HIDE DEF r1
  <2>2. [r1 EXCEPT !.timeout = j] = HeaderOf(a, b, j, x, e, f, g, h, i)
    BY <2>3 DEF HeaderOf
  <2> QED BY <2>1, <2>2
<1>10. plain = HeaderOf(a, b, 0, x, e, f, g, h, i)
  BY <1>16
<1>12. timed = HeaderOf(a, b, k, x, e, f, g, h, i)
  BY <1>16
<1>13. [r EXCEPT !.content_type = x] = HeaderOf(a, b, c, d, e, x, g, h, i)
  BY DEF HeaderOf
<1>14. [r EXCEPT !.require_wfd_support = TRUE] = HeaderOf(a, b, c, d, e, f, TRUE, h, i)
  <2> DEFINE true == TRUE
  <2> HIDE DEF true
  <2>1. [r EXCEPT !.require_wfd_support = true] = HeaderOf(a, b, c, d, e, f, true, h, i)
    BY DEF HeaderOf
  <2> QED BY <2>1 DEF true
<1> HIDE DEF r, plain, timed
<1>11. /\ ReadHeaderLine(r, Line("Content-Type", t)) = {HeaderOf(a, b, c, d, e, x, g, h, i)}
       /\ ReadHeaderLine(r, Line("Require", <<>>)) = {HeaderOf(a, b, c, d, e, f, TRUE, h, i)}
       /\ ReadHeaderLine(r, Line("Session", t)) = {HeaderOf(a, b, 0, x, e, f, g, h, i)}
       /\ ReadHeaderLine(r, Line("Session", w)) = {HeaderOf(a, b, k, x, e, f, g, h, i)}
  BY <1>7, <1>8, <1>9, <1>10, <1>12, <1>13, <1>14
<1> QED BY <1>11 DEF r, t, w, k, TypeLineReads, RequireLineReads, SessionLineReads, TimeoutLineReads

(* The line of the ports sets them.                                        *)
LEMMA TransportLine ==
  ASSUME NEW a, NEW b, NEW c, NEW d, NEW e, NEW f, NEW g, NEW h, NEW i, NEW tokens, NEW v,
         ReadTransport(tokens) = {v}
  PROVE  ReadHeaderLine(HeaderOf(a, b, c, d, e, f, g, h, i), Line("Transport", tokens)) =
           {HeaderOf(a, b, c, d, v, f, g, h, i)}
<1> DEFINE r == HeaderOf(a, b, c, d, e, f, g, h, i)
           line == Line("Transport", tokens)
<1>1. line.name = "Transport" /\ line.tokens = tokens
  BY DEF Line
<1>2. [r EXCEPT !.transport = v] = HeaderOf(a, b, c, d, v, f, g, h, i)
  BY DEF HeaderOf
<1> HIDE DEF line, r
<1>3. ReadHeaderLine(r, line) = {[r EXCEPT !.transport = u] : u \in ReadTransport(tokens)}
  BY <1>1 DEF ReadHeaderLine
<1>4. ReadHeaderLine(r, line) = {[r EXCEPT !.transport = v]}
  BY <1>3
<1> QED BY <1>2, <1>4 DEF r, line

(* A line no production names is kept under its name, if it has two        *)
(* characters.                                                             *)
LEMMA OtherLine ==
  ASSUME NEW a, NEW b, NEW c, NEW d, NEW e, NEW f, NEW g, NEW h, NEW s, NEW v, v = Chars(s)
  PROVE  ReadHeaderLine(HeaderOf(a, b, c, d, e, f, g, h, <<>>), Line("Server", <<v>>)) =
           When(Len(s) >= 2, HeaderOf(a, b, c, d, e, f, g, h, Put(<<>>, "Server", v)))
<1> DEFINE r == HeaderOf(a, b, c, d, e, f, g, h, <<>>)
           t == <<v>>
           line == Line("Server", t)
           string == Derives(<<{"STRING"}>>, t)
           ok == string /\ Len(t[1].chars) >= 2
           value == [r EXCEPT !.generic_headers = Put(r.generic_headers, "Server", t[1])]
<1>1. line.name = "Server" /\ line.tokens = t
  BY DEF Line
<1>2. t[1] = v /\ v.chars = s
  BY Tokens
<1>3. string
  <2>1. Terminal(v) \in {"STRING"}
    BY Tokens
  <2> QED BY <2>1, OneToken
<1>4. ok <=> Len(s) >= 2
  BY <1>2, <1>3
<1>5. value = HeaderOf(a, b, c, d, e, f, g, h, Put(<<>>, "Server", v))
  <2> DEFINE map == Put(<<>>, "Server", v)
  <2>1. r.generic_headers = <<>>
    BY DEF HeaderOf
  <2>2. value = [r EXCEPT !.generic_headers = map]
    BY <1>2, <2>1
  <2> HIDE DEF map
  <2>3. [r EXCEPT !.generic_headers = map] = HeaderOf(a, b, c, d, e, f, g, h, map)
    BY DEF HeaderOf
  <2> QED BY <2>2, <2>3 DEF map
<1> HIDE DEF line, r, t
<1>6. ReadHeaderLine(r, line) = When(ok, value)
  BY <1>1 DEF ReadHeaderLine
<1> HIDE DEF ok, value
<1>7. ReadHeaderLine(r, line) = When(Len(s) >= 2, HeaderOf(a, b, c, d, e, f, g, h, Put(<<>>, "Server", v)))
  BY <1>4, <1>5, <1>6 DEF When
<1> QED BY <1>7 DEF r, line, t

----------------------------------------------------------------------------
(* Lines s are read as the headers D: one, or none after an error.         *)
Reads(s, D) == (\E S : s \in Seq(S)) /\ ReadHeader(s) = D

(* One more line.                                                          *)
LEMMA OneMoreLine ==
  ASSUME NEW S, NEW s \in Seq(S), NEW l \in S
  PROVE  ReadHeader(s \o <<l>>) = UNION {ReadHeaderLine(r, l) : r \in ReadHeader(s)}
<1> DEFINE t == s \o <<l>>
           n == Len(s)
<1>1. n \in Nat /\ Len(t) = n + 1 /\ t[n + 1] = l /\ (\A i \in 1 .. n : t[i] = s[i])
  <2>1. <<l>> \in Seq(S) /\ Len(<<l>>) = 1 /\ <<l>>[1] = l
    OBVIOUS
  <2> QED BY <2>1, ConcatProperties
<1> HIDE DEF t
<1>2. PICK f : HeaderAreRead(s, n, f) /\ ReadLines(ReadHeaderLine, Header, s) = f[n]
  BY <1>1, HeaderAreReadByLine
<1>3. PICK g : HeaderAreRead(t, n + 1, g) /\ ReadLines(ReadHeaderLine, Header, t) = g[n + 1]
  BY <1>1, HeaderAreReadByLine
<1> HIDE DEF n
<1> DEFINE After(i, A, q) == UNION {ReadHeaderLine(r, q) : r \in A}
<1>4. \A i \in 0 .. n : f[i] = IF i = 0 THEN {Header} ELSE After(i, f[i - 1], s[i])
  <2>1. f = [i \in 0 .. n |-> IF i = 0 THEN {Header} ELSE After(i, f[i - 1], s[i])]
    BY <1>2, Zenon DEF HeaderAreRead
  <2> HIDE DEF After
  <2> QED BY <2>1
<1>5. \A i \in 0 .. n + 1 : g[i] = IF i = 0 THEN {Header} ELSE After(i, g[i - 1], t[i])
  <2>1. g = [i \in 0 .. n + 1 |-> IF i = 0 THEN {Header} ELSE After(i, g[i - 1], t[i])]
    BY <1>3, Zenon DEF HeaderAreRead
  <2> HIDE DEF After
  <2> QED BY <2>1
<1> DEFINE T == {i \in Nat : i <= n => g[i] = f[i]}
<1>6. 0 \in T
  <2>1. 0 \in 0 .. n /\ 0 \in 0 .. n + 1
    BY <1>1
  <2> HIDE DEF After
  <2> QED BY <1>4, <1>5, <2>1
<1>7. ASSUME NEW i \in Nat, i \in T PROVE i + 1 \in T
  <2> SUFFICES ASSUME i + 1 <= n PROVE g[i + 1] = f[i + 1]
    OBVIOUS
  <2> DEFINE j == i + 1
  <2>1. j \in 1 .. n /\ j \in 0 .. n /\ j \in 0 .. n + 1 /\ j # 0 /\ j - 1 = i /\ g[i] = f[i] /\ t[j] = s[j]
    BY <1>1, <1>7
  <2> HIDE DEF j, After
  <2>2. f[j] = After(j, f[i], s[j]) /\ g[j] = After(j, g[i], t[j])
    BY <1>4, <1>5, <2>1
  <2> QED BY <2>1, <2>2 DEF j
<1> HIDE DEF T
<1>8. Nat \subseteq T
  BY <1>6, <1>7, Induction
<1>9. g[n] = f[n]
  BY <1>1, <1>8 DEF T
<1> DEFINE m == n + 1
<1>10. m \in 0 .. n + 1 /\ m # 0 /\ m - 1 = n /\ t[m] = l
  BY <1>1
<1>11. g[m] = After(m, f[n], l)
  <2> HIDE DEF m, After
  <2> QED BY <1>5, <1>9, <1>10
<1> QED BY <1>2, <1>3, <1>11 DEF ReadHeader, t

(* No lines are read as the empty header.                                  *)
LEMMA ReadsNothing == Reads(<<>>, {Header})
<1> DEFINE s == <<>>
<1>1. Len(s) = 0 /\ s \in Seq({})
  OBVIOUS
<1> HIDE DEF s
<1>2. PICK f : HeaderAreRead(s, 0, f) /\ ReadLines(ReadHeaderLine, Header, s) = f[0]
  BY <1>1, HeaderAreReadByLine
<1> DEFINE After(i, A) == UNION {ReadHeaderLine(r, s[i]) : r \in A}
<1>3. f = [i \in 0 .. 0 |-> IF i = 0 THEN {Header} ELSE After(i, f[i - 1])]
  BY <1>2, Zenon DEF HeaderAreRead
<1> HIDE DEF After
<1>4. f[0] = {Header}
  BY <1>3
<1>5. Reads(s, {Header})
  BY <1>1, <1>2, <1>4 DEF Reads, ReadHeader
<1> QED BY <1>5 DEF s

(* One line more reads one part more.                                      *)
LEMMA ReadsLine ==
  ASSUME NEW s, NEW b, Reads(s, {b}), NEW l
  PROVE  Reads(s \o <<l>>, ReadHeaderLine(b, l))
<1>1. PICK S : s \in Seq(S)
  BY DEF Reads
<1> DEFINE T == S \cup {l}
<1>2. l \in T /\ s \in Seq(T)
  BY <1>1
<1> HIDE DEF T
<1>3. ReadHeader(s \o <<l>>) = UNION {ReadHeaderLine(r, l) : r \in ReadHeader(s)}
  BY <1>2, OneMoreLine
<1>4. ReadHeader(s) = {b}
  BY DEF Reads
<1>5. UNION {ReadHeaderLine(r, l) : r \in {b}} = ReadHeaderLine(b, l)
  OBVIOUS
<1>6. s \o <<l>> \in Seq(T)
  BY <1>2
<1>7. ReadHeader(s \o <<l>>) = ReadHeaderLine(b, l)
  BY <1>3, <1>4, <1>5
<1> QED BY <1>6, <1>7 DEF Reads

(* A line that is there on a condition.                                    *)
LEMMA ReadsIf ==
  ASSUME NEW s, NEW b, Reads(s, {b}), NEW name, NEW tokens, NEW c \in BOOLEAN, NEW d,
         c => ReadHeaderLine(b, Line(name, tokens)) = {d}, ~c => d = b
  PROVE  Reads(s \o LineIf(c, name, tokens), {d})
<1> DEFINE l == Line(name, tokens)
<1>1. CASE c
  <2>1. LineIf(c, name, tokens) = <<l>>
    BY <1>1 DEF LineIf
  <2>2. ReadHeaderLine(b, l) = {d}
    BY <1>1
  <2> HIDE DEF l
  <2>3. Reads(s \o <<l>>, ReadHeaderLine(b, l))
    BY ReadsLine
  <2> QED BY <2>1, <2>2, <2>3
<1>2. CASE ~c
  <2>1. LineIf(c, name, tokens) = <<>>
    BY <1>2 DEF LineIf
  <2>2. s \o <<>> = s
    BY DEF Reads
  <2> QED BY <1>2, <2>1, <2>2
<1> QED BY <1>1, <1>2

----------------------------------------------------------------------------
(* After an error no line reads anything.                                  *)
LEMMA NothingMore ==
  ASSUME NEW s, Reads(s, {}), NEW l
  PROVE  Reads(s \o <<l>>, {})
<1>1. PICK S : s \in Seq(S)
  BY DEF Reads
<1> DEFINE T == S \cup {l}
<1>2. l \in T /\ s \in Seq(T)
  BY <1>1
<1> HIDE DEF T
<1>3. ReadHeader(s \o <<l>>) = UNION {ReadHeaderLine(r, l) : r \in ReadHeader(s)}
  BY <1>2, OneMoreLine
<1>4. ReadHeader(s \o <<l>>) = {}
  BY <1>3 DEF Reads
<1>5. s \o <<l>> \in Seq(T)
  BY <1>2
<1> QED BY <1>4, <1>5 DEF Reads

(* Nor does one that is there on a condition.                              *)
LEMMA NothingMoreIf ==
  ASSUME NEW s, Reads(s, {}), NEW c \in BOOLEAN, NEW name, NEW tokens
  PROVE  Reads(s \o LineIf(c, name, tokens), {})
<1> DEFINE l == Line(name, tokens)
<1>1. CASE c
  <2>1. LineIf(c, name, tokens) = <<l>>
    BY <1>1 DEF LineIf
  <2> HIDE DEF l
  <2> QED BY <2>1, NothingMore
<1>2. CASE ~c
  <2>1. LineIf(c, name, tokens) = <<>>
    BY <1>2 DEF LineIf
  <2>2. s \o <<>> = s
    BY DEF Reads
  <2> QED BY <2>1, <2>2
<1> QED BY <1>1, <1>2

(* The methods of a Public line are read as they were printed.             *)
WordsIn(items) == [k \in DOMAIN items |-> items[k][1].word]
MethodItems(ms) == [i \in DOMAIN ms |-> <<Word(ms[i])>>]
MethodsAreReadBack(ms) ==
  LET v == Listed(1, MethodItems(ms))
  IN IsList(<<MethodName>>, v) /\ WordsIn(Items(1, v)) = ms

(* The methods are read back.                                              *)
LEMMA PublicIsReadBack ==
  ASSUME NEW ms \in Seq(MethodName), ms # <<>>
  PROVE  MethodsAreReadBack(ms)
<1> DEFINE items == MethodItems(ms)
           n == 1
           P == <<MethodName>>
           K == Len(ms)
           S == {Word(w) : w \in MethodName \cup {"comma"}}
           v == Listed(n, items)
<1>1. K \in Nat /\ K # 0 /\ DOMAIN ms = 1 .. K /\ \A i \in 1 .. K : ms[i] \in MethodName
  OBVIOUS
<1>2. Word("comma") \in S /\ \A i \in 1 .. K : Word(ms[i]) \in S
  BY <1>1
<1>4. n \in Lengths /\ Len(P) = n
  BY DEF Lengths
<1> HIDE DEF S
<1>5. /\ items \in Seq(Seq(S)) /\ Len(items) = K
      /\ \A i \in 1 .. K : items[i] = <<Word(ms[i])>> /\ Len(items[i]) = 1
  <2>1. \A i \in 1 .. K : <<Word(ms[i])>> \in Seq(S)
    BY <1>2
  <2>2. items = [i \in 1 .. K |-> <<Word(ms[i])>>]
    BY <1>1 DEF MethodItems
  <2> HIDE DEF items
  <2>3. Len(items) = K /\ \A i \in 1 .. K : items[i] = <<Word(ms[i])>> /\ Len(items[i]) = 1
    BY <1>1, <2>2
  <2>4. items \in Seq(Seq(S))
    BY <1>1, <2>1, <2>2
  <2> QED BY <2>3, <2>4
<1> HIDE DEF items
<1>6. items # <<>> /\ \A k \in 1 .. Len(items) : Len(items[k]) = n
  BY <1>1, <1>5
<1>8. \A i \in 1 .. K : Derives(P, items[i])
  <2> SUFFICES ASSUME NEW i \in 1 .. K PROVE Derives(P, items[i])
    OBVIOUS
  <2> DEFINE w == Word(ms[i])
             A == MethodName
  <2>1. Terminal(w) = ms[i] /\ ms[i] \in A
    BY <1>1, Tokens
  <2>2. items[i] = <<w>>
    BY <1>5
  <2> HIDE DEF A, w
  <2>3. Derives(<<A>>, <<w>>)
    BY <2>1 DEF Derives
  <2> QED BY <2>2, <2>3 DEF A
<1> HIDE DEF n, P, K
<1>10. Items(n, v) = items /\ IsList(P, v)
  BY <1>2, <1>4, <1>5, <1>6, <1>8, ListedRound
<1>11. WordsIn(items) = ms
  <2>1. DOMAIN items = 1 .. K /\ DOMAIN ms = 1 .. K /\ ms = [k \in 1 .. K |-> ms[k]]
    BY <1>1, <1>5
  <2>2. \A k \in 1 .. K : items[k][1].word = ms[k]
    BY <1>5, Tokens
  <2>3. WordsIn(items) = [k \in 1 .. K |-> items[k][1].word]
    BY <2>1, Zenon DEF WordsIn
  <2> QED BY <2>1, <2>2, <2>3
<1> HIDE DEF v
<1>12. IsList(P, v) /\ WordsIn(Items(n, v)) = ms
  BY <1>10, <1>11
<1> QED BY <1>12 DEF MethodsAreReadBack, v, n, P, items

(* Their line sets them.                                                   *)
LEMMA PublicLine ==
  ASSUME NEW a, NEW b, NEW c, NEW d, NEW e, NEW f, NEW g, NEW h, NEW i,
         NEW ms \in Seq(MethodName), ms # <<>>
  PROVE  ReadHeaderLine(HeaderOf(a, b, c, d, e, f, g, h, i), Line("Public", Listed(1, MethodItems(ms)))) =
           {HeaderOf(a, b, c, d, e, f, g, ms, i)}
<1> DEFINE r == HeaderOf(a, b, c, d, e, f, g, h, i)
           t == Listed(1, MethodItems(ms))
           line == Line("Public", t)
           list == IsList(<<MethodName>>, t)
           words == [k \in DOMAIN Items(1, t) |-> Items(1, t)[k][1].word]
           value == [r EXCEPT !.supported_methods = words]
<1>1. line.name = "Public" /\ line.tokens = t
  BY DEF Line
<1>2. list /\ words = ms
  BY PublicIsReadBack, Zenon DEF MethodsAreReadBack, WordsIn
<1>3. value = HeaderOf(a, b, c, d, e, f, g, ms, i)
  <2>1. value = [r EXCEPT !.supported_methods = ms]
    BY <1>2
  <2>2. [r EXCEPT !.supported_methods = ms] = HeaderOf(a, b, c, d, e, f, g, ms, i)
    BY DEF HeaderOf
  <2> QED BY <2>1, <2>2
<1> HIDE DEF line, r, t
<1>4. ReadHeaderLine(r, line) = When(list, value)
  BY <1>1, Zenon DEF ReadHeaderLine
<1> HIDE DEF list, value
<1>5. ReadHeaderLine(r, line) = {value}
  BY <1>2, <1>4 DEF When
<1> QED BY <1>3, <1>5 DEF r, line, t

----------------------------------------------------------------------------
(* Headers that can be held: a generic line is called "Server".            *)
Strings == {Chars(s) : s \in Seq(Nat)}

HeldTransport(t) ==
  /\ t = TransportOf(t.client_port, t.client_rtcp, t.server_port, t.server_rtcp)
  /\ t.client_port \in UInt /\ t.client_rtcp \in BOOLEAN /\ t.server_port \in UInt /\ t.server_rtcp \in BOOLEAN

HeldGenerics(map) == map = <<>> \/ \E s \in Seq(Nat) : map = Put(<<>>, "Server", Chars(s))

HeldHeader(h) ==
  /\ h = HeaderOf(h.cseq, h.content_length, h.timeout, h.session, h.transport, h.content_type,
                  h.require_wfd_support, h.supported_methods, h.generic_headers)
  /\ h.cseq \in SInt /\ h.content_length \in SInt /\ h.timeout \in UInt
  /\ h.session \in Strings /\ h.content_type \in Strings
  /\ HeldTransport(h.transport) /\ h.require_wfd_support \in BOOLEAN
  /\ h.supported_methods \in Seq(MethodName) /\ HeldGenerics(h.generic_headers)

(* What they are read as, unless a generic line is too short: an error.    *)
TransportReadAs(t) ==
  IF t.client_port = 0 THEN TransportHeader
  ELSE TransportOf(t.client_port, t.client_rtcp, t.server_port, t.server_port > 0 /\ t.server_rtcp)

HeaderReadAs(h) ==
  HeaderOf(h.cseq, h.content_length, IF Empty(h.session) THEN 0 ELSE h.timeout, h.session,
           TransportReadAs(h.transport), h.content_type, h.require_wfd_support,
           h.supported_methods, h.generic_headers)

SoundGenerics(map) == \A k \in DOMAIN map : Len(map[k].chars) >= 2

(* The line of the ports, if there is one.                                 *)
LEMMA TransportPiece ==
  ASSUME NEW t, HeldTransport(t)
  PROVE  \E tokens : /\ TransportToString(t) = LineIf(t.client_port > 0, "Transport", tokens)
                     /\ t.client_port > 0 => ReadTransport(tokens) = {TransportReadAs(t)}
                     /\ ~(t.client_port > 0) => TransportReadAs(t) = TransportHeader
<1> DEFINE a == t.client_port
           c == t.client_rtcp
           b == t.server_port
           r == t.server_rtcp
<1>0. a \in UInt /\ c \in BOOLEAN /\ b \in UInt /\ r \in BOOLEAN /\ t = TransportOf(a, c, b, r)
  BY DEF HeldTransport
<1>1. a \in Nat /\ c \in BOOLEAN /\ b \in Nat /\ r \in BOOLEAN /\ t = TransportOf(a, c, b, r)
  BY <1>0, Ranges
<1>2. CASE a > 0
  <2>0. ReadBackTransport(a, c, b, r)
    BY <1>0, <1>2, TransportIsReadBack
  <2>1. PICK tokens : /\ TransportToString(TransportOf(a, c, b, r)) = <<Line("Transport", tokens)>>
                      /\ ReadTransport(tokens) = {TransportOf(a, c, b, b > 0 /\ r)}
    BY <2>0 DEF ReadBackTransport
  <2>2. TransportReadAs(t) = TransportOf(a, c, b, b > 0 /\ r)
    BY <1>1, <1>2 DEF TransportReadAs
  <2>3. LineIf(a > 0, "Transport", tokens) = <<Line("Transport", tokens)>>
    BY <1>2 DEF LineIf
  <2>4. TransportToString(t) = LineIf(a > 0, "Transport", tokens)
    BY <1>1, <2>1, <2>3
  <2>5. ReadTransport(tokens) = {TransportReadAs(t)}
    BY <2>1, <2>2
  <2> QED BY <1>2, <2>4, <2>5
<1>3. CASE ~(a > 0)
  <2> DEFINE tokens == PortToString(t.client_port, t.client_rtcp)
                         \o (IF t.server_port > 0
                             THEN <<Word("server_port=")>> \o PortToString(t.server_port, t.server_rtcp)
                             ELSE <<>>)
  <2>1. TransportToString(t) = LineIf(a > 0, "Transport", tokens)
    BY Zenon DEF TransportToString
  <2>2. TransportReadAs(t) = TransportHeader
    BY <1>1, <1>3 DEF TransportReadAs
  <2> HIDE DEF tokens
  <2> QED BY <1>3, <2>1, <2>2
<1> QED BY <1>2, <1>3

GenericLines(map) ==
  LET keys == SetToSeq(DOMAIN map)
  IN [i \in DOMAIN keys |-> Line(keys[i], <<map[keys[i]]>>)]

(* A header with no other lines prints none.                               *)
LEMMA NoGenericLines == GenericLines(<<>>) = <<>> /\ SoundGenerics(<<>>)
<1> DEFINE map == <<>>
           keys == SetToSeq(DOMAIN map)
<1>1. DOMAIN map = {}
  BY NoMap
<1>2. keys = <<>>
  BY <1>1, NoNames
<1>3. GenericLines(map) = [i \in DOMAIN keys |-> Line(keys[i], <<map[keys[i]]>>)]
  BY Zenon DEF GenericLines
<1> HIDE DEF keys
<1>4. DOMAIN keys = {}
  BY <1>2
<1> HIDE DEF map
<1> DEFINE f == GenericLines(map)
<1>5. f = [i \in {} |-> Line(keys[i], <<map[keys[i]]>>)]
  BY <1>3, <1>4
<1>6. f = [i \in DOMAIN f |-> f[i]] /\ DOMAIN f = {}
  BY <1>5
<1> HIDE DEF f
<1>7. f = <<>>
  BY <1>6, EmptyMap
<1>8. SoundGenerics(map)
  BY <1>1 DEF SoundGenerics
<1> QED BY <1>7, <1>8 DEF f, map

(* A header with one other line prints it.                                 *)
LEMMA OneGenericLine ==
  ASSUME NEW s, NEW v, v = Chars(s), NEW map, map = Put(<<>>, "Server", v)
  PROVE  GenericLines(map) = <<Line("Server", <<v>>)>> /\ (SoundGenerics(map) <=> Len(s) >= 2)
<1> DEFINE keys == SetToSeq(DOMAIN map)
           D == {"Server"}
<1>1. DOMAIN map = D /\ map["Server"] = v
  <2>1. PutIn(<<>>, "Server", v, map)
    BY PutIsIn
  <2>2. DOMAIN map = {"Server"} \cup DOMAIN <<>> /\ map["Server"] = v
    BY <2>1 DEF PutIn
  <2> QED BY <2>2, NoMap
<1>2. InOrderOf(D, keys)
  <2>1. IsFiniteSet(D)
    BY FS_Singleton
  <2> HIDE DEF D
  <2> QED BY <1>1, <2>1, FiniteInOrder
<1>3. GenericLines(map) = [i \in DOMAIN keys |-> Line(keys[i], <<map[keys[i]]>>)]
  BY Zenon DEF GenericLines
<1> HIDE DEF keys
<1>4. Len(keys) = 1 /\ DOMAIN keys = 1 .. 1 /\ keys[1] = "Server"
  <2>1. keys \in Seq(D) /\ Len(keys) \in Nat /\ DOMAIN keys = 1 .. Len(keys) /\ \A i \in 1 .. Len(keys) : keys[i] = "Server"
    BY <1>2 DEF InOrderOf
  <2>2. \A i, j \in 1 .. Len(keys) : keys[i] = keys[j] => i = j
    BY <1>2 DEF InOrderOf
  <2>3. Len(keys) >= 1
    BY <1>2, <2>1 DEF InOrderOf
  <2>4. ~(Len(keys) >= 2)
    <3> SUFFICES ASSUME Len(keys) >= 2 PROVE FALSE
      OBVIOUS
    <3>1. 1 \in 1 .. Len(keys) /\ 2 \in 1 .. Len(keys)
      BY <2>1
    <3> QED BY <2>1, <2>2, <3>1
  <2>5. Len(keys) = 1
    BY <2>1, <2>3, <2>4
  <2> QED BY <2>1, <2>5
<1> DEFINE x == Line("Server", <<v>>)
<1>5. GenericLines(map) = [i \in 1 .. 1 |-> x]
  BY <1>1, <1>3, <1>4
<1> HIDE DEF x
<1>6. [i \in 1 .. 1 |-> x] = <<x>>
  OBVIOUS
<1>7. SoundGenerics(map) <=> Len(s) >= 2
  <2>1. v.chars = s
    BY Tokens
  <2> QED BY <1>1, <2>1 DEF SoundGenerics
<1> QED BY <1>5, <1>6, <1>7 DEF x

----------------------------------------------------------------------------
(* The line of the sequence number sets it.                                *)
LEMMA CSeqLine ==
  ASSUME NEW a, NEW b, NEW c, NEW d, NEW e, NEW f, NEW g, NEW h, NEW i, NEW n
  PROVE  ReadHeaderLine(HeaderOf(a, b, c, d, e, f, g, h, i), Line("CSeq", <<Dec(n)>>)) =
           {HeaderOf(AsInt(Dec(n)), b, c, d, e, f, g, h, i)}
<1>1. NumberLinesRead(HeaderOf(a, b, c, d, e, f, g, h, i), n,
                      HeaderOf(AsInt(Dec(n)), b, c, d, e, f, g, h, i),
                      HeaderOf(a, AsInt(Dec(n)), c, d, e, f, g, h, i))
  BY NumberLines
<1> QED BY <1>1 DEF NumberLinesRead

(* The line of the length sets it.                                         *)
LEMMA LengthLine ==
  ASSUME NEW a, NEW b, NEW c, NEW d, NEW e, NEW f, NEW g, NEW h, NEW i, NEW n
  PROVE  ReadHeaderLine(HeaderOf(a, b, c, d, e, f, g, h, i), Line("Content-Length", <<Dec(n)>>)) =
           {HeaderOf(a, AsInt(Dec(n)), c, d, e, f, g, h, i)}
<1>1. NumberLinesRead(HeaderOf(a, b, c, d, e, f, g, h, i), n,
                      HeaderOf(AsInt(Dec(n)), b, c, d, e, f, g, h, i),
                      HeaderOf(a, AsInt(Dec(n)), c, d, e, f, g, h, i))
  BY NumberLines
<1> QED BY <1>1 DEF NumberLinesRead

(* An int that is not negative is written and read as a number.            *)
LEMMA UnsignedInt ==
  ASSUME NEW n \in SInt, n >= 0
  PROVE  IntTokens(n) = <<Dec(n)>> /\ AsInt(Dec(n)) = n /\ n \in Nat
<1>1. n \in Int
  BY Ranges
<1>2. n \in Nat /\ ~(n < 0)
  BY <1>1
<1>3. IntTokens(n) = <<Dec(n)>>
  BY <1>2 DEF IntTokens
<1> QED BY <1>2, <1>3, Converted

(* A negative sequence number is not read.                                 *)
LEMMA SignedCSeq ==
  ASSUME NEW r, NEW n \in SInt, n < 0
  PROVE  ReadHeaderLine(r, Line("CSeq", IntTokens(n))) = {}
<1> DEFINE t == IntTokens(n)
           line == Line("CSeq", t)
           P == <<{"NUM"}>>
           number == Derives(P, t)
           value == [r EXCEPT !.cseq = AsInt(t[1])]
<1>1. line.name = "CSeq" /\ line.tokens = t
  BY DEF Line
<1>2. ~number
  <2>1. t = <<Word("-"), Dec(-n)>>
    BY DEF IntTokens
  <2>2. Len(P) = 1 /\ Len(t) = 2
    BY <2>1
  <2> HIDE DEF t, P
  <2> QED BY <2>2 DEF Derives
<1> HIDE DEF t, line
<1>3. ReadHeaderLine(r, line) = When(number, value)
  BY <1>1 DEF ReadHeaderLine
<1> HIDE DEF number, value
<1>4. ReadHeaderLine(r, line) = {}
  BY <1>2, <1>3 DEF When
<1> QED BY <1>4 DEF line, t

(* A header is read line by line: what is read of the lines before it is   *)
(* known, and each line adds its own.                                      *)
SessionTokens(h) == <<h.session>> \o (IF h.timeout > 0 THEN <<Word("timeout="), Dec(h.timeout)>> ELSE <<>>)

(* The line of the session sets it, and its timeout.                       *)
LEMMA SessionLine ==
  ASSUME NEW h, HeldHeader(h), ~Empty(h.session),
         NEW a, NEW b, NEW c, NEW d, NEW e, NEW f, NEW g, NEW k, NEW i
  PROVE  ReadHeaderLine(HeaderOf(a, b, c, d, e, f, g, k, i), Line("Session", SessionTokens(h))) =
           {HeaderOf(a, b, h.timeout, h.session, e, f, g, k, i)}
<1> DEFINE n == h.timeout
           x == h.session
           w == Word("timeout=")
           v == Dec(n)
<1>0. n \in UInt
  BY DEF HeldHeader
<1>1. n \in Nat /\ AsUInt(Dec(n)) = n
  <2>1. n \in Nat
    BY <1>0, Ranges
  <2> QED BY <1>0, <2>1, Converted
<1>2. PICK s : x = Chars(s)
  BY DEF HeldHeader, Strings
<1>3. CASE n > 0
  <2>1. SessionTokens(h) = <<x>> \o <<w, v>>
    BY <1>3 DEF SessionTokens
  <2> HIDE DEF w, v, x
  <2>2. <<x>> \o <<w, v>> = <<x, w, v>>
    BY ConcatPair
  <2>3. SessionTokens(h) = <<x, w, v>>
    BY <2>1, <2>2
  <2>4. ReadHeaderLine(HeaderOf(a, b, c, d, e, f, g, k, i), Line("Session", <<x, w, v>>)) = {HeaderOf(a, b, n, x, e, f, g, k, i)}
    <3> DEFINE j == AsUInt(Dec(n))
    <3>1. TimeoutLineReads(HeaderOf(a, b, c, d, e, f, g, k, i), x, n, HeaderOf(a, b, j, x, e, f, g, k, i))
      BY <1>2, StringLines
    <3>2. j = n
      BY <1>1
    <3> HIDE DEF j, n, x
    <3> QED BY <3>1, <3>2 DEF TimeoutLineReads, w, v
  <2> QED BY <2>3, <2>4 DEF x
<1>4. CASE n = 0
  <2>1. SessionTokens(h) = <<x>> \o <<>>
    BY <1>4 DEF SessionTokens
  <2>2. <<x>> \o <<>> = <<x>>
    OBVIOUS
  <2>3. SessionTokens(h) = <<x>>
    BY <2>1, <2>2
  <2> DEFINE z == 0
  <2>4. ReadHeaderLine(HeaderOf(a, b, c, d, e, f, g, k, i), Line("Session", <<x>>)) = {HeaderOf(a, b, z, x, e, f, g, k, i)}
    <3>1. SessionLineReads(HeaderOf(a, b, c, d, e, f, g, k, i), x, HeaderOf(a, b, z, x, e, f, g, k, i))
      BY <1>2, StringLines
    <3> QED BY <3>1 DEF SessionLineReads
  <2>5. n = z
    BY <1>4
  <2> HIDE DEF x, z, n
  <2>6. ReadHeaderLine(HeaderOf(a, b, c, d, e, f, g, k, i), Line("Session", SessionTokens(h))) = {HeaderOf(a, b, n, x, e, f, g, k, i)}
    BY <2>3, <2>4, <2>5
  <2> QED BY <2>6 DEF x, n
<1> QED BY <1>1, <1>3, <1>4

HeaderStart(h) ==
  <<Line("CSeq", IntTokens(h.cseq))>>
    \o LineIf(~Empty(h.session), "Session", SessionTokens(h))
    \o LineIf(~Empty(h.content_type), "Content-Type", <<h.content_type>>)
    \o LineIf(h.content_length # 0, "Content-Length", IntTokens(h.content_length))

SessionTimeout(h) == IF Empty(h.session) THEN 0 ELSE h.timeout

(* A string is empty if it has no characters.                              *)
LEMMA EmptyString ==
  ASSUME NEW x \in Strings
  PROVE  Empty(x) <=> x = Chars(<<>>)
<1>1. PICK s : x = Chars(s)
  BY DEF Strings
<1>2. x.chars = s /\ Chars(<<>>).chars = <<>>
  BY <1>1, Tokens
<1> QED BY <1>1, <1>2 DEF Empty

(* The lines up to the session are read as they were printed.              *)
LEMMA StartIsRead ==
  ASSUME NEW h, HeldHeader(h), h.cseq >= 0, h.content_length >= 0
  PROVE  Reads(HeaderStart(h),
               {HeaderOf(h.cseq, h.content_length, SessionTimeout(h), h.session, TransportHeader,
                         h.content_type, FALSE, <<>>, <<>>)})
<1> DEFINE E == Chars(<<>>)
           T == TransportHeader
           no == FALSE
           nil == <<>>
           z == 0
           t == SessionTimeout(h)
           q == h.cseq
           l == h.content_length
           s == h.session
           y == h.content_type
           none == <<>>
<1>1. Header = HeaderOf(z, z, z, E, T, E, no, nil, nil)
  BY DEF Header, HeaderOf
<1>2. Reads(none, {HeaderOf(z, z, z, E, T, E, no, nil, nil)})
  BY <1>1, ReadsNothing
<1>3. none \o <<Line("CSeq", <<Dec(q)>>)>> = <<Line("CSeq", <<Dec(q)>>)>>
  OBVIOUS
<1>4. s \in Strings /\ y \in Strings /\ q \in SInt /\ l \in SInt
  BY DEF HeldHeader
<1>9. /\ IntTokens(q) = <<Dec(q)>> /\ AsInt(Dec(q)) = q
      /\ IntTokens(l) = <<Dec(l)>> /\ AsInt(Dec(l)) = l
  BY <1>4, UnsignedInt
<1>5. (Empty(s) <=> s = E) /\ (Empty(y) <=> y = E)
  BY <1>4, EmptyString
<1>6. PICK c : y = Chars(c)
  BY <1>4 DEF Strings
<1>7. ~Empty(s) => t = h.timeout
  BY DEF SessionTimeout
<1>8. ~(~Empty(s)) => t = z
  BY DEF SessionTimeout
<1> HIDE DEF E, T, no, nil, t
<1> DEFINE s1 == <<Line("CSeq", <<Dec(q)>>)>>
           r1 == HeaderOf(q, z, z, E, T, E, no, nil, nil)
<1>10. Reads(s1, {r1})
  <2>1. ReadHeaderLine(HeaderOf(z, z, z, E, T, E, no, nil, nil), Line("CSeq", <<Dec(q)>>)) = {r1}
    <3> DEFINE j == AsInt(Dec(q))
    <3>1. ReadHeaderLine(HeaderOf(z, z, z, E, T, E, no, nil, nil), Line("CSeq", <<Dec(q)>>)) = {HeaderOf(j, z, z, E, T, E, no, nil, nil)}
      BY CSeqLine
    <3>2. j = q
      BY <1>9
    <3> HIDE DEF j, q, z
    <3> QED BY <3>1, <3>2
  <2> HIDE DEF none, z, r1
  <2>2. Reads(none \o <<Line("CSeq", <<Dec(q)>>)>>, {r1})
    BY <1>2, <2>1, ReadsLine
  <2> QED BY <1>3, <2>2
<1> HIDE DEF z
<1> DEFINE c2 == ~Empty(s)
           s2 == s1 \o LineIf(c2, "Session", SessionTokens(h))
           r2 == HeaderOf(q, z, t, s, T, E, no, nil, nil)
<1>11. Reads(s2, {r2})
  <2>1. c2 => ReadHeaderLine(r1, Line("Session", SessionTokens(h))) = {r2}
    <3> SUFFICES ASSUME c2 PROVE ReadHeaderLine(r1, Line("Session", SessionTokens(h))) = {r2}
      OBVIOUS
    <3>1. ReadHeaderLine(r1, Line("Session", SessionTokens(h))) = {HeaderOf(q, z, h.timeout, s, T, E, no, nil, nil)}
      BY SessionLine
    <3> QED BY <1>7, <3>1
  <2>2. ~c2 => r2 = r1
    <3> SUFFICES ASSUME ~c2 PROVE r2 = r1
      OBVIOUS
    <3>1. s = E /\ t = z
      BY <1>5, <1>8
    <3> QED BY <3>1
  <2>3. c2 \in BOOLEAN
    BY DEF Empty
  <2> HIDE DEF s1, r1, r2, c2
  <2> QED BY <1>10, <2>1, <2>2, <2>3, ReadsIf
<1> DEFINE c3 == ~Empty(y)
           s3 == s2 \o LineIf(c3, "Content-Type", <<y>>)
           r3 == HeaderOf(q, z, t, s, T, y, no, nil, nil)
<1>12. Reads(s3, {r3})
  <2>1. c3 => ReadHeaderLine(r2, Line("Content-Type", <<y>>)) = {r3}
    <3>1. TypeLineReads(r2, y, r3)
      BY <1>6, StringLines
    <3> QED BY <3>1 DEF TypeLineReads
  <2>2. ~c3 => r3 = r2
    <3> SUFFICES ASSUME ~c3 PROVE r3 = r2
      OBVIOUS
    <3>1. y = E
      BY <1>5
    <3> QED BY <3>1
  <2>3. c3 \in BOOLEAN
    BY DEF Empty
  <2> HIDE DEF s2, r2, r3, c3
  <2> QED BY <1>11, <2>1, <2>2, <2>3, ReadsIf
<1> DEFINE c4 == l # 0
           s4 == s3 \o LineIf(c4, "Content-Length", <<Dec(l)>>)
           r4 == HeaderOf(q, l, t, s, T, y, no, nil, nil)
<1>13. Reads(s4, {r4})
  <2>1. c4 => ReadHeaderLine(r3, Line("Content-Length", <<Dec(l)>>)) = {r4}
    <3> DEFINE j == AsInt(Dec(l))
    <3>1. ReadHeaderLine(r3, Line("Content-Length", <<Dec(l)>>)) = {HeaderOf(q, j, t, s, T, y, no, nil, nil)}
      BY LengthLine
    <3>2. j = l
      BY <1>9
    <3> HIDE DEF j, l, r3
    <3> QED BY <3>1, <3>2
  <2>2. ~c4 => r4 = r3
    BY DEF z
  <2>3. c4 \in BOOLEAN
    OBVIOUS
  <2> HIDE DEF s3, r3, r4, c4
  <2> QED BY <1>12, <2>1, <2>2, <2>3, ReadsIf
<1>14. HeaderStart(h) = s4
  <2> DEFINE x1 == IntTokens(q)
             x4 == IntTokens(l)
  <2>1. HeaderStart(h) = <<Line("CSeq", x1)>> \o LineIf(c2, "Session", SessionTokens(h))
                           \o LineIf(c3, "Content-Type", <<y>>) \o LineIf(c4, "Content-Length", x4)
    BY Zenon DEF HeaderStart
  <2>2. x1 = <<Dec(q)>> /\ x4 = <<Dec(l)>>
    BY <1>9
  <2> HIDE DEF x1, x4, c2, c3, c4, q, l, y
  <2> QED BY <2>1, <2>2
<1> HIDE DEF s4
<1> QED BY <1>13, <1>14 DEF E, T, no, nil, t

HeaderMiddle(h) ==
  HeaderStart(h)
    \o TransportToString(h.transport)
    \o LineIf(h.supported_methods # <<>>, "Public",
              Listed(1, [i \in DOMAIN h.supported_methods |-> <<Word(h.supported_methods[i])>>]))
    \o LineIf(h.require_wfd_support, "Require", <<>>)

(* So are the lines up to the ones no production names.                    *)
LEMMA MiddleIsRead ==
  ASSUME NEW h, HeldHeader(h), h.cseq >= 0, h.content_length >= 0
  PROVE  Reads(HeaderMiddle(h),
               {HeaderOf(h.cseq, h.content_length, SessionTimeout(h), h.session,
                         TransportReadAs(h.transport), h.content_type, h.require_wfd_support,
                         h.supported_methods, <<>>)})
<1> DEFINE T == TransportHeader
           no == FALSE
           yes == TRUE
           nil == <<>>
           t == SessionTimeout(h)
           q == h.cseq
           l == h.content_length
           s == h.session
           y == h.content_type
           ms == h.supported_methods
           w == h.require_wfd_support
           v == TransportReadAs(h.transport)
           s4 == HeaderStart(h)
           r4 == HeaderOf(q, l, t, s, T, y, no, nil, nil)
<1>1. Reads(s4, {r4})
  BY StartIsRead
<1>2. ms \in Seq(MethodName) /\ w \in BOOLEAN /\ HeldTransport(h.transport) /\ h.transport.client_port \in Int
  BY Ranges DEF HeldHeader, HeldTransport
<1>3. PICK tokens : /\ TransportToString(h.transport) = LineIf(h.transport.client_port > 0, "Transport", tokens)
                    /\ h.transport.client_port > 0 => ReadTransport(tokens) = {v}
                    /\ ~(h.transport.client_port > 0) => v = T
  BY <1>2, TransportPiece
<1>4. (w => w = yes) /\ (~w => w = no)
  BY <1>2
<1>5. \A a, b, c, d, e, f, g, k, i :
        ReadHeaderLine(HeaderOf(a, b, c, d, e, f, g, k, i), Line("Require", <<>>)) = {HeaderOf(a, b, c, d, e, f, yes, k, i)}
  <2> SUFFICES ASSUME NEW a, NEW b, NEW c, NEW d, NEW e, NEW f, NEW g, NEW k, NEW i
               PROVE  ReadHeaderLine(HeaderOf(a, b, c, d, e, f, g, k, i), Line("Require", <<>>)) =
                        {HeaderOf(a, b, c, d, e, f, yes, k, i)}
    OBVIOUS
  <2>1. RequireLineReads(HeaderOf(a, b, c, d, e, f, g, k, i), HeaderOf(a, b, c, d, e, f, yes, k, i))
    BY StringLines
  <2> QED BY <2>1 DEF RequireLineReads
<1> HIDE DEF T, no, yes, t, v
<1> DEFINE c5 == h.transport.client_port > 0
           s5 == s4 \o LineIf(c5, "Transport", tokens)
           r5 == HeaderOf(q, l, t, s, v, y, no, nil, nil)
<1>10. Reads(s5, {r5})
  <2>1. c5 => ReadHeaderLine(r4, Line("Transport", tokens)) = {r5}
    BY <1>3, TransportLine
  <2>2. ~c5 => r5 = r4
    <3> SUFFICES ASSUME ~c5 PROVE r5 = r4
      OBVIOUS
    <3>1. v = T
      BY <1>3
    <3> QED BY <3>1
  <2>3. c5 \in BOOLEAN
    BY <1>2
  <2> HIDE DEF s4, r4, r5, c5
  <2> QED BY <1>1, <2>1, <2>2, <2>3, ReadsIf
<1> DEFINE c6 == ms # <<>>
           s6 == s5 \o LineIf(c6, "Public", Listed(1, MethodItems(ms)))
           r6 == HeaderOf(q, l, t, s, v, y, no, ms, nil)
<1>11. Reads(s6, {r6})
  <2>1. c6 => ReadHeaderLine(r5, Line("Public", Listed(1, MethodItems(ms)))) = {r6}
    BY <1>2, PublicLine
  <2>2. ~c6 => r6 = r5
    <3> SUFFICES ASSUME ~c6 PROVE r6 = r5
      OBVIOUS
    <3>1. ms = nil
      OBVIOUS
    <3> QED BY <3>1
  <2>3. c6 \in BOOLEAN
    OBVIOUS
  <2> HIDE DEF s5, r5, r6, c6
  <2> DEFINE tt == Listed(1, MethodItems(ms))
  <2> HIDE DEF tt
  <2> QED BY <1>10, <2>1, <2>2, <2>3, ReadsIf DEF tt
<1> HIDE DEF nil
<1> DEFINE s7 == s6 \o LineIf(w, "Require", <<>>)
           r7 == HeaderOf(q, l, t, s, v, y, w, ms, nil)
<1>12. Reads(s7, {r7})
  <2> DEFINE empty == <<>>
  <2>1. w => ReadHeaderLine(r6, Line("Require", empty)) = {r7}
    <3> SUFFICES ASSUME w PROVE ReadHeaderLine(r6, Line("Require", empty)) = {r7}
      OBVIOUS
    <3>1. w = yes
      BY <1>4
    <3>2. ReadHeaderLine(r6, Line("Require", empty)) = {HeaderOf(q, l, t, s, v, y, yes, ms, nil)}
      BY <1>5
    <3> HIDE DEF empty, r6
    <3> QED BY <3>1, <3>2
  <2>2. ~w => r7 = r6
    <3> SUFFICES ASSUME ~w PROVE r7 = r6
      OBVIOUS
    <3>1. w = no
      BY <1>4
    <3> QED BY <3>1
  <2>3. w \in BOOLEAN
    BY <1>2
  <2> HIDE DEF s6, r6, r7, empty
  <2>4. Reads(s6 \o LineIf(w, "Require", empty), {r7})
    BY <1>11, <2>1, <2>2, <2>3, ReadsIf
  <2> QED BY <2>4 DEF empty
<1>13. MethodItems(ms) = [i \in DOMAIN h.supported_methods |-> <<Word(h.supported_methods[i])>>]
  BY DEF MethodItems
<1>14. HeaderMiddle(h) = s7
  <2> DEFINE items == [i \in DOMAIN h.supported_methods |-> <<Word(h.supported_methods[i])>>]
  <2>1. HeaderMiddle(h) = HeaderStart(h) \o TransportToString(h.transport)
                            \o LineIf(ms # <<>>, "Public", Listed(1, items)) \o LineIf(w, "Require", <<>>)
    BY Zenon DEF HeaderMiddle
  <2>2. MethodItems(ms) = items
    BY <1>13
  <2> HIDE DEF items
  <2>3. s5 = HeaderStart(h) \o TransportToString(h.transport)
    BY <1>3
  <2> HIDE DEF s5
  <2> QED BY <2>1, <2>2, <2>3
<1> HIDE DEF s7
<1> QED BY <1>12, <1>14 DEF T, no, nil, t, v

(* A header is printed as those lines and the others.                      *)
LEMMA HeaderInParts ==
  ASSUME NEW h
  PROVE  HeaderToString(h) = HeaderMiddle(h) \o GenericLines(h.generic_headers)
BY Zenon DEF HeaderToString, HeaderMiddle, HeaderStart, SessionTokens, GenericLines

ReadIfGenerics(h) ==
  ReadHeader(HeaderToString(h)) = IF SoundGenerics(h.generic_headers) THEN {HeaderReadAs(h)} ELSE {}

(* A header with a number for a CSeq is read, if its generic lines are.    *)
LEMMA UnsignedHeader ==
  ASSUME NEW h, HeldHeader(h), h.cseq >= 0, h.content_length >= 0
  PROVE  ReadIfGenerics(h)
<1> DEFINE map == h.generic_headers
           s7 == HeaderMiddle(h)
           q == h.cseq
           l == h.content_length
           t == SessionTimeout(h)
           s == h.session
           v == TransportReadAs(h.transport)
           y == h.content_type
           w == h.require_wfd_support
           ms == h.supported_methods
           nil == <<>>
           r7 == HeaderOf(q, l, t, s, v, y, w, ms, nil)
           r8 == HeaderOf(q, l, t, s, v, y, w, ms, map)
           all == HeaderToString(h)
<1>1. Reads(s7, {r7})
  BY MiddleIsRead
<1>2. all = s7 \o GenericLines(map)
  BY HeaderInParts
<1>3. HeaderReadAs(h) = r8
  BY Zenon DEF HeaderReadAs, SessionTimeout
<1>4. map = nil \/ \E x \in Seq(Nat) : map = Put(nil, "Server", Chars(x))
  BY DEF HeldHeader, HeldGenerics
<1>5. ReadHeader(all) = IF SoundGenerics(map) THEN {r8} ELSE {}
  <2>1. CASE map = nil
    <3>1. GenericLines(map) = nil /\ SoundGenerics(map)
      BY <2>1, NoGenericLines
    <3>2. PICK S : s7 \in Seq(S)
      BY <1>1 DEF Reads
    <3> HIDE DEF s7
    <3>3. s7 \o nil = s7
      BY <3>2
    <3> HIDE DEF nil, map
    <3>4. all = s7 /\ r8 = r7
      BY <1>2, <2>1, <3>1, <3>3
    <3>5. ReadHeader(all) = {r7}
      BY <1>1, <3>4 DEF Reads
    <3> HIDE DEF r7, r8, all
    <3> QED BY <3>1, <3>4, <3>5
  <2>2. ASSUME NEW x \in Seq(Nat), map = Put(nil, "Server", Chars(x))
        PROVE  ReadHeader(all) = IF SoundGenerics(map) THEN {r8} ELSE {}
    <3> DEFINE c == Chars(x)
               line == Line("Server", <<c>>)
    <3>1. GenericLines(map) = <<line>> /\ (SoundGenerics(map) <=> Len(x) >= 2)
      BY <2>2, OneGenericLine
    <3>2. ReadHeaderLine(r7, line) = When(Len(x) >= 2, HeaderOf(q, l, t, s, v, y, w, ms, Put(nil, "Server", c)))
      BY OtherLine
    <3>3. ReadHeaderLine(r7, line) = When(Len(x) >= 2, r8)
      <4> HIDE DEF map
      <4> QED BY <2>2, <3>2
    <3> HIDE DEF s7, r7, line
    <3>4. Reads(s7 \o <<line>>, ReadHeaderLine(r7, line))
      BY <1>1, ReadsLine
    <3>5. ReadHeader(all) = When(Len(x) >= 2, r8)
      <4> HIDE DEF all, r8, map
      <4> QED BY <1>2, <3>1, <3>3, <3>4 DEF Reads
    <3> HIDE DEF all, r8, map
    <3> QED BY <3>1, <3>5 DEF When
  <2> QED BY <1>4, <2>1, <2>2
<1> HIDE DEF r8, all
<1>6. ReadHeader(all) = IF SoundGenerics(map) THEN {HeaderReadAs(h)} ELSE {}
  BY <1>3, <1>5
<1> QED BY <1>6, Zenon DEF ReadIfGenerics, all

(* A header with a negative CSeq is not.                                   *)
LEMMA SignedHeader ==
  ASSUME NEW h, HeldHeader(h), h.cseq < 0
  PROVE  ReadHeader(HeaderToString(h)) = {}
<1> DEFINE q == h.cseq
           ms == h.supported_methods
           w == h.require_wfd_support
           map == h.generic_headers
           items == [i \in DOMAIN ms |-> <<Word(ms[i])>>]
           none == <<>>
           l == Line("CSeq", IntTokens(q))
           s1 == <<l>>
           c2 == ~Empty(h.session)
           s2 == s1 \o LineIf(c2, "Session", SessionTokens(h))
           c3 == ~Empty(h.content_type)
           s3 == s2 \o LineIf(c3, "Content-Type", <<h.content_type>>)
           c4 == h.content_length # 0
           s4 == s3 \o LineIf(c4, "Content-Length", IntTokens(h.content_length))
<1>1. q \in SInt /\ w \in BOOLEAN /\ HeldTransport(h.transport) /\ h.transport.client_port \in Int
  BY Ranges DEF HeldHeader, HeldTransport
<1>2. Reads(s1, {})
  <2>1. ReadHeaderLine(Header, l) = {}
    BY <1>1, SignedCSeq
  <2> HIDE DEF l
  <2>2. Reads(none \o <<l>>, ReadHeaderLine(Header, l))
    BY ReadsNothing, ReadsLine
  <2>3. none \o <<l>> = <<l>>
    OBVIOUS
  <2> QED BY <2>1, <2>2, <2>3
<1> HIDE DEF s1
<1>3. c2 \in BOOLEAN /\ c3 \in BOOLEAN /\ c4 \in BOOLEAN
  BY DEF Empty
<1> HIDE DEF c2, c3, c4
<1>4. Reads(s2, {})
  BY <1>2, <1>3, NothingMoreIf
<1> HIDE DEF s2
<1>5. Reads(s3, {})
  BY <1>3, <1>4, NothingMoreIf
<1> HIDE DEF s3
<1>6. Reads(s4, {})
  BY <1>3, <1>5, NothingMoreIf
<1>7. HeaderStart(h) = s4
  BY Zenon DEF HeaderStart, s1, s2, s3, c2, c3, c4
<1> HIDE DEF s4
<1>8. PICK tokens : TransportToString(h.transport) = LineIf(h.transport.client_port > 0, "Transport", tokens)
  BY <1>1, TransportPiece
<1> DEFINE c5 == h.transport.client_port > 0
           s5 == s4 \o LineIf(c5, "Transport", tokens)
           c6 == ms # <<>>
           s6 == s5 \o LineIf(c6, "Public", Listed(1, items))
           s7 == s6 \o LineIf(w, "Require", <<>>)
<1>9. HeaderMiddle(h) = s7
  <2>1. HeaderMiddle(h) = HeaderStart(h) \o TransportToString(h.transport)
                            \o LineIf(c6, "Public", Listed(1, items)) \o LineIf(w, "Require", <<>>)
    BY Zenon DEF HeaderMiddle
  <2>2. s5 = HeaderStart(h) \o TransportToString(h.transport)
    BY <1>7, <1>8
  <2> HIDE DEF s5, c6, items, w
  <2> QED BY <2>1, <2>2
<1>10. c5 \in BOOLEAN /\ c6 \in BOOLEAN
  BY <1>1
<1> HIDE DEF c5, c6, items, w
<1>11. Reads(s5, {})
  BY <1>6, <1>10, NothingMoreIf
<1> HIDE DEF s5
<1>12. Reads(s6, {})
  BY <1>10, <1>11, NothingMoreIf
<1> HIDE DEF s6
<1> DEFINE t7 == <<>>
           s8 == s6 \o LineIf(w, "Require", t7)
<1>13. s8 = s7 /\ w \in BOOLEAN
  BY <1>1 DEF w
<1> HIDE DEF s7, t7
<1>14. Reads(s8, {})
  BY <1>12, <1>13, NothingMoreIf
<1>15. HeaderToString(h) = s8 \o GenericLines(map)
  BY <1>9, <1>13, HeaderInParts
<1> HIDE DEF s8
<1>16. GenericLines(map) = <<>> \/ \E g : GenericLines(map) = <<g>>
  <2>1. map = <<>> \/ \E x \in Seq(Nat) : map = Put(<<>>, "Server", Chars(x))
    BY DEF HeldHeader, HeldGenerics
  <2> HIDE DEF map
  <2>2. CASE map = <<>>
    BY <2>2, NoGenericLines
  <2>3. ASSUME NEW x \in Seq(Nat), map = Put(<<>>, "Server", Chars(x)) PROVE \E g : GenericLines(map) = <<g>>
    <3>1. GenericLines(map) = <<Line("Server", <<Chars(x)>>)>>
      BY <2>3, OneGenericLine
    <3> QED BY <3>1
  <2> QED BY <2>1, <2>2, <2>3
<1> DEFINE more == GenericLines(map)
<1> HIDE DEF more, map
<1>17. Reads(s8 \o more, {})
  <2>1. CASE more = <<>>
    <3>1. s8 \o more = s8
      BY <1>14, <2>1 DEF Reads
    <3> QED BY <1>14, <3>1
  <2>2. ASSUME NEW g, more = <<g>> PROVE Reads(s8 \o more, {})
    BY <1>14, <2>2, NothingMore
  <2> QED BY <1>16, <2>1, <2>2 DEF more
<1> QED BY <1>15, <1>17 DEF Reads, more

HeaderIsReadAs(h) ==
  ReadHeader(HeaderToString(h)) =
    IF SoundGenerics(h.generic_headers) /\ h.cseq >= 0 THEN {HeaderReadAs(h)} ELSE {}

(* What parse_header makes of the header to_string() printed.              *)
THEOREM HeaderIsReadBack ==
  ASSUME NEW h, HeldHeader(h), h.content_length >= 0
  PROVE  HeaderIsReadAs(h)
<1>1. h.cseq \in Int
  BY Ranges DEF HeldHeader
<1>2. CASE h.cseq >= 0
  <2>1. ReadIfGenerics(h)
    BY <1>2, UnsignedHeader
  <2> QED BY <1>2, <2>1, Zenon DEF ReadIfGenerics, HeaderIsReadAs
<1>3. CASE h.cseq < 0
  <2>1. ReadHeader(HeaderToString(h)) = {} /\ ~(h.cseq >= 0)
    BY <1>1, <1>3, SignedHeader
  <2> QED BY <2>1, Zenon DEF HeaderIsReadAs
<1> QED BY <1>1, <1>2, <1>3

----------------------------------------------------------------------------
(* What is read is a header that can be held, and can be read again.       *)
LEMMA NoTransport ==
  HeldTransport(TransportHeader) /\ TransportHeader.client_port = 0 /\ TransportHeader.server_rtcp = FALSE
<1> DEFINE z == 0
           no == FALSE
           T == TransportOf(z, no, z, no)
<1>1. TransportHeader = T
  BY DEF TransportHeader, TransportOf
<1>2. z \in UInt /\ no \in BOOLEAN
  BY Ranges
<1> HIDE DEF z, no
<1>3. T.client_port = z /\ T.server_port = z
  BY DEF TransportOf
<1>4. T.client_rtcp = no /\ T.server_rtcp = no
  BY <1>2 DEF TransportOf
<1>5. HeldTransport(T)
  <2>1. T = TransportOf(T.client_port, T.client_rtcp, T.server_port, T.server_rtcp)
    BY <1>3, <1>4
  <2> HIDE DEF T
  <2> QED BY <1>2, <1>3, <1>4, <2>1 DEF HeldTransport
<1> HIDE DEF T
<1> QED BY <1>1, <1>3, <1>4, <1>5 DEF z, no

TransportKept(u) ==
  /\ HeldTransport(u)
  /\ u.client_port = 0 => u = TransportHeader
  /\ u.server_port = 0 => u.server_rtcp = FALSE

(* Ports that were read have a server port if they have an RTCP one.       *)
LEMMA TransportReadHeld ==
  ASSUME NEW t, HeldTransport(t)
  PROVE  TransportKept(TransportReadAs(t))
<1> DEFINE a == t.client_port
           c == t.client_rtcp
           b == t.server_port
           r == b > 0 /\ t.server_rtcp
           u == TransportReadAs(t)
<1>1. /\ a \in UInt /\ c \in BOOLEAN /\ b \in UInt /\ r \in BOOLEAN
      /\ a \in Nat /\ b \in Nat
  BY Ranges DEF HeldTransport
<1>2. CASE a = 0
  <2>1. u = TransportHeader
    BY <1>2 DEF TransportReadAs
  <2> HIDE DEF u
  <2>2. TransportKept(u)
    BY <2>1, NoTransport DEF TransportKept
  <2> QED BY <2>2 DEF u
<1>3. CASE a > 0
  <2>1. u = TransportOf(a, c, b, r)
    BY <1>1, <1>3 DEF TransportReadAs
  <2>5. b = 0 => r = FALSE
    OBVIOUS
  <2> HIDE DEF u, a, c, b, r
  <2>2. u.client_port = a /\ u.client_rtcp = c /\ u.server_port = b
    BY <2>1 DEF TransportOf
  <2>3. u.server_rtcp = r
    BY <1>1, <2>1 DEF TransportOf
  <2>4. HeldTransport(u)
    <3>1. u = TransportOf(u.client_port, u.client_rtcp, u.server_port, u.server_rtcp)
      BY <2>1, <2>2, <2>3
    <3> QED BY <1>1, <2>2, <2>3, <3>1 DEF HeldTransport
  <2>6. u.client_port # 0
    BY <1>1, <1>3, <2>2
  <2>7. u.server_port = 0 => u.server_rtcp = FALSE
    BY <2>2, <2>3, <2>5
  <2>8. TransportKept(u)
    BY <2>4, <2>6, <2>7 DEF TransportKept
  <2> QED BY <2>8 DEF u
<1>4. a = 0 \/ a > 0
  BY <1>1
<1> QED BY <1>2, <1>3, <1>4

(* A header that was read can be held, and its text says it all.           *)
LEMMA HeaderReadHeld ==
  ASSUME NEW h, HeldHeader(h)
  PROVE  /\ HeldHeader(HeaderReadAs(h))
         /\ SoundGenerics(h.generic_headers) /\ h.cseq >= 0 => SoundHeader(HeaderReadAs(h))
         /\ HeaderReadAs(h).content_length = h.content_length
<1> DEFINE t == IF Empty(h.session) THEN 0 ELSE h.timeout
           v == TransportReadAs(h.transport)
           q == h.cseq
           l == h.content_length
           s == h.session
           y == h.content_type
           w == h.require_wfd_support
           ms == h.supported_methods
           g == h.generic_headers
           r == HeaderOf(q, l, t, s, v, y, w, ms, g)
<1>1. HeaderReadAs(h) = r
  BY Zenon DEF HeaderReadAs
<1>0. h.timeout \in UInt /\ 0 \in UInt
  BY Ranges DEF HeldHeader
<1>2. /\ q \in SInt /\ l \in SInt /\ t \in UInt /\ s \in Strings /\ y \in Strings
      /\ w \in BOOLEAN /\ ms \in Seq(MethodName) /\ HeldGenerics(g) /\ HeldTransport(h.transport)
  BY <1>0 DEF HeldHeader
<1>3. /\ HeldTransport(v) /\ (v.client_port = 0 => v = TransportHeader)
      /\ v.server_port = 0 => v.server_rtcp = FALSE
  BY <1>2, TransportReadHeld DEF TransportKept
<1>4. Empty(s) => t = 0
  OBVIOUS
<1> HIDE DEF t, v, q, l, s, y, w, ms, g, r
<1>5. /\ r.cseq = q /\ r.content_length = l /\ r.timeout = t /\ r.session = s /\ r.transport = v
      /\ r.content_type = y /\ r.supported_methods = ms /\ r.generic_headers = g
  BY DEF r, HeaderOf
<1>6. r.require_wfd_support = w
  BY <1>2 DEF r, HeaderOf
<1>7. HeldHeader(r)
  <2>1. r = HeaderOf(r.cseq, r.content_length, r.timeout, r.session, r.transport, r.content_type,
                     r.require_wfd_support, r.supported_methods, r.generic_headers)
    BY <1>5, <1>6 DEF r
  <2> QED BY <1>2, <1>3, <1>5, <1>6, <2>1 DEF HeldHeader
<1>8. ASSUME SoundGenerics(g), q >= 0 PROVE SoundHeader(r)
  <2>1. \A k \in DOMAIN g : Len(g[k].chars) >= 2
    BY <1>8 DEF SoundGenerics
  <2> QED BY <1>3, <1>4, <1>5, <1>8, <2>1 DEF SoundHeader
<1>9. ASSUME SoundGenerics(h.generic_headers), h.cseq >= 0 PROVE SoundHeader(r)
  BY <1>8, <1>9 DEF g, q
<1> QED BY <1>1, <1>5, <1>7, <1>9 DEF l

(* A header whose text says it all is read as itself.                      *)
LEMMA SoundHeaderIsRead ==
  ASSUME NEW h, HeldHeader(h), SoundHeader(h)
  PROVE  HeaderReadAs(h) = h /\ SoundGenerics(h.generic_headers) /\ h.cseq >= 0
<1> DEFINE x == h.transport
<1>1. SoundGenerics(h.generic_headers) /\ h.cseq >= 0
  BY DEF SoundHeader, SoundGenerics
<1>2. (Empty(h.session) => h.timeout = 0) /\ HeldTransport(x)
  BY DEF SoundHeader, HeldHeader
<1>3. TransportReadAs(x) = x
  <2> DEFINE a == x.client_port
             c == x.client_rtcp
             b == x.server_port
             r == x.server_rtcp
             both == b > 0 /\ r
  <2>1. (a = 0 => x = TransportHeader) /\ (b = 0 => ~r)
    BY DEF SoundHeader
  <2>2. a \in Nat /\ b \in Nat /\ r \in BOOLEAN /\ x = TransportOf(a, c, b, r)
    BY <1>2, Ranges DEF HeldTransport
  <2>3. both = r
    BY <2>1, <2>2
  <2>4. TransportReadAs(x) = IF a = 0 THEN TransportHeader ELSE TransportOf(a, c, b, both)
    BY Zenon DEF TransportReadAs
  <2> HIDE DEF both, a, c, b, r
  <2> QED BY <2>1, <2>2, <2>3, <2>4
<1>4. (IF Empty(h.session) THEN 0 ELSE h.timeout) = h.timeout
  BY <1>2
<1>5. h = HeaderOf(h.cseq, h.content_length, h.timeout, h.session, h.transport, h.content_type,
                   h.require_wfd_support, h.supported_methods, h.generic_headers)
  BY DEF HeldHeader
<1> DEFINE t == IF Empty(h.session) THEN 0 ELSE h.timeout
           v == TransportReadAs(x)
<1>6. HeaderReadAs(h) = HeaderOf(h.cseq, h.content_length, t, h.session, v, h.content_type,
                                 h.require_wfd_support, h.supported_methods, h.generic_headers)
  BY Zenon DEF HeaderReadAs
<1>7. t = h.timeout /\ v = h.transport
  BY <1>3, <1>4
<1> HIDE DEF t, v
<1>8. HeaderReadAs(h) = h
  BY <1>5, <1>6, <1>7
<1> QED BY <1>1, <1>8

(* The stored length changes nothing else.                                 *)
LengthStored(h, n, g) ==
  /\ HeldHeader(g) /\ g.content_length = n /\ (SoundHeader(g) <=> SoundHeader(h))
  /\ g.generic_headers = h.generic_headers
  /\ (n = h.content_length => g = h)

(* Storing a length changes nothing else.                                  *)
LEMMA LengthInHeader ==
  ASSUME NEW h, HeldHeader(h), NEW n \in SInt
  PROVE  LengthStored(h, n, [h EXCEPT !.content_length = n])
<1> DEFINE t == h.timeout
           v == h.transport
           q == h.cseq
           l == h.content_length
           s == h.session
           y == h.content_type
           w == h.require_wfd_support
           ms == h.supported_methods
           m == h.generic_headers
           g == HeaderOf(q, n, t, s, v, y, w, ms, m)
<1>1. /\ q \in SInt /\ l \in SInt /\ t \in UInt /\ s \in Strings /\ y \in Strings
      /\ w \in BOOLEAN /\ ms \in Seq(MethodName) /\ HeldGenerics(m) /\ HeldTransport(v)
  BY DEF HeldHeader
<1>2. h = HeaderOf(q, l, t, s, v, y, w, ms, m)
  BY DEF HeldHeader
<1> HIDE DEF q, l, t, s, v, y, w, ms, m
<1>3. [h EXCEPT !.content_length = n] = g
  BY <1>2 DEF HeaderOf
<1> HIDE DEF g
<1>5. /\ g.cseq = q /\ g.content_length = n /\ g.timeout = t /\ g.session = s /\ g.transport = v
      /\ g.content_type = y /\ g.supported_methods = ms /\ g.generic_headers = m
  BY DEF g, HeaderOf
<1>6. g.require_wfd_support = w
  BY <1>1 DEF g, HeaderOf
<1>7. HeldHeader(g)
  <2>1. g = HeaderOf(g.cseq, g.content_length, g.timeout, g.session, g.transport, g.content_type,
                     g.require_wfd_support, g.supported_methods, g.generic_headers)
    BY <1>5, <1>6 DEF g
  <2> QED BY <1>1, <1>5, <1>6, <2>1 DEF HeldHeader
<1>8. SoundHeader(g) <=> SoundHeader(h)
  <2>1. /\ g.timeout = h.timeout /\ g.session = h.session /\ g.transport = h.transport
        /\ g.generic_headers = h.generic_headers /\ g.cseq = h.cseq
    BY <1>5 DEF t, s, v, m, q
  <2> QED BY <2>1 DEF SoundHeader
<1>9. n = l => g = h
  BY <1>2 DEF g
<1> QED BY <1>3, <1>5, <1>7, <1>8, <1>9 DEF LengthStored, m, l
----------------------------------------------------------------------------
(* The header of the texts of other makers.                                *)
LEMMA NoStringHeld == Chars(<<>>) \in Strings
<1>1. <<>> \in Seq(Nat)
  OBVIOUS
<1> QED BY <1>1, Zenon DEF Strings

ForeignHeader(n) ==
  HeaderOf(0, n, 0, Chars(<<>>), TransportHeader, Chars(<<>>), FALSE, <<>>, <<>>)

(* A header with a sequence number and a length.                           *)
LEMMA PlainHeader ==
  ASSUME NEW q \in SInt, q >= 0, NEW n \in SInt, NEW no \in BOOLEAN, NEW h,
         h = HeaderOf(q, n, 0, Chars(<<>>), TransportHeader, Chars(<<>>), no, <<>>, <<>>)
  PROVE  HeldHeader(h) /\ SoundHeader(h) /\ h.content_length = n /\ h.cseq = q
<1> DEFINE E == Chars(<<>>)
           T == TransportHeader
           z == 0
           nil == <<>>
<1>1. HeldTransport(T) /\ T.client_port = 0 /\ T.server_rtcp = FALSE
  BY NoTransport
<1>2. E \in Strings /\ z \in UInt /\ no \in BOOLEAN /\ nil \in Seq(MethodName) /\ HeldGenerics(nil)
  BY NoStringHeld, Ranges DEF HeldGenerics
<1>9. DOMAIN nil = {}
  BY NoMap
<1>3. h = HeaderOf(q, n, z, E, T, E, no, nil, nil)
  OBVIOUS
<1> HIDE DEF E, T, nil
<1>5. /\ h.cseq = q /\ h.content_length = n /\ h.timeout = z /\ h.session = E /\ h.transport = T
      /\ h.content_type = E /\ h.supported_methods = nil /\ h.generic_headers = nil
  BY <1>3 DEF HeaderOf
<1>6. h.require_wfd_support = no
  <2>1. no \in BOOLEAN
    BY <1>2
  <2> QED BY <2>1, <1>3 DEF HeaderOf
<1>7. HeldHeader(h)
  <2>1. h = HeaderOf(h.cseq, h.content_length, h.timeout, h.session, h.transport, h.content_type,
                     h.require_wfd_support, h.supported_methods, h.generic_headers)
    BY <1>3, <1>5, <1>6
  <2> QED BY <1>1, <1>2, <1>5, <1>6, <2>1 DEF HeldHeader
<1>8. SoundHeader(h)
  BY <1>1, <1>5, <1>9 DEF SoundHeader, T
<1> QED BY <1>5, <1>7, <1>8

(* The header of the texts other programs send.                            *)
LEMMA ForeignHeaderIsRead ==
  ASSUME NEW n \in SInt, n >= 0
  PROVE  ReadHeader(<<Line("CSeq", <<Dec(0)>>), Line("Content-Length", <<Dec(n)>>)>>) = {ForeignHeader(n)}
<1> DEFINE E == Chars(<<>>)
           T == TransportHeader
           no == FALSE
           nil == <<>>
           z == 0
           none == <<>>
           a == Line("CSeq", <<Dec(z)>>)
           b == Line("Content-Length", <<Dec(n)>>)
<1>1. Header = HeaderOf(z, z, z, E, T, E, no, nil, nil)
  BY DEF Header, HeaderOf
<1>2. Reads(none, {HeaderOf(z, z, z, E, T, E, no, nil, nil)})
  BY <1>1, ReadsNothing
<1>3. ForeignHeader(n) = HeaderOf(z, n, z, E, T, E, no, nil, nil)
  BY Zenon DEF ForeignHeader
<1> HIDE DEF E, T, no, nil
<1>4. ReadHeaderLine(HeaderOf(z, z, z, E, T, E, no, nil, nil), a) = {HeaderOf(z, z, z, E, T, E, no, nil, nil)}
  <2> DEFINE j == AsInt(Dec(z))
  <2>1. j = z
    BY Ranges, UnsignedInt
  <2>2. ReadHeaderLine(HeaderOf(z, z, z, E, T, E, no, nil, nil), a) = {HeaderOf(j, z, z, E, T, E, no, nil, nil)}
    BY CSeqLine
  <2> HIDE DEF j, z
  <2> QED BY <2>1, <2>2
<1>5. ReadHeaderLine(HeaderOf(z, z, z, E, T, E, no, nil, nil), b) = {HeaderOf(z, n, z, E, T, E, no, nil, nil)}
  <2> DEFINE j == AsInt(Dec(n))
  <2>1. j = n
    BY UnsignedInt
  <2>2. ReadHeaderLine(HeaderOf(z, z, z, E, T, E, no, nil, nil), b) = {HeaderOf(z, j, z, E, T, E, no, nil, nil)}
    BY LengthLine
  <2> HIDE DEF j, z
  <2> QED BY <2>1, <2>2
<1>6. none \o <<a>> = <<a>> /\ <<a>> \o <<b>> = <<a, b>>
  <2> HIDE DEF a, b
  <2> QED BY JoinOneOne
<1> DEFINE r == HeaderOf(z, z, z, E, T, E, no, nil, nil)
           q == HeaderOf(z, n, z, E, T, E, no, nil, nil)
<1> HIDE DEF a, b, r, q, none
<1>7. Reads(none \o <<a>>, {r})
  BY <1>2, <1>4, ReadsLine DEF r
<1>8. Reads(<<a>>, {r})
  BY <1>6, <1>7
<1>9. Reads(<<a>> \o <<b>>, {q})
  BY <1>5, <1>8, ReadsLine DEF r, q
<1>10. ReadHeader(<<a, b>>) = {q}
  BY <1>6, <1>9 DEF Reads
<1> QED BY <1>3, <1>10 DEF q, a, b

----------------------------------------------------------------------------
(* Whatever is read from a body the classes printed can be printed and     *)
(* read again.                                                             *)
SoundPayload(kind, p) ==
  /\ kind \in Request => DOMAIN p.properties \cap Bare = {}
  /\ kind = "REPLY" => \A i \in DOMAIN p.parameters : p.parameters[i] \notin Bare
  /\ \A n \in DOMAIN p.properties : SoundProperty(p.properties[n])
  /\ "wfd_standby" \notin DOMAIN p.errors

SoundOnly(lexer, p) ==
  /\ OnlyProperties(p)
  /\ \A n \in DOMAIN p.properties : SoundProperty(p.properties[n])
  /\ lexer # "reply" => DOMAIN p.properties \cap Bare = {}

Spoken(line) ==
  /\ WellFormed(line)
  /\ line.colon => /\ line.name \notin Bare
                   /\ \E p \in HeldAs(line.name) : line.tokens = PropertyToString(p)

(* The names that stand alone are names of the grammar.                    *)
LEMMA BareIsKnown == Bare \subseteq PropertyName
  BY DEF Bare, PropertyName

(* A property that is a name alone says it all.                            *)
LEMMA BareIsSound ==
  ASSUME NEW name \in Bare
  PROVE  Property(name, <<>>, <<>>) \in HeldAs(name) /\ SoundProperty(Property(name, <<>>, <<>>)) /\ name \in Names
<1> DEFINE p == Property(name, <<>>, <<>>)
<1>1. p \in HeldAs(name)
  BY HeldByName
<1>2. name \in Names /\ name \in {"wfd_standby", "wfd_idr_request"}
  BY NamesOfClasses DEF Bare
<1>3. p.type = name /\ p.none \in BOOLEAN
  BY <1>1, <1>2, HeldIsTyped DEF TypedAs
<1> HIDE DEF p
<1>4. SoundProperty(p)
  BY <1>2, <1>3, SoundnessByName
<1> QED BY <1>1, <1>2, <1>4 DEF p

(* What is read from a spoken line is a property whose text says it all.   *)
LEMMA SpokenPropertyRead ==
  ASSUME NEW line, Spoken(line), line.colon, NEW q \in ReadProperty(line.name, line.tokens)
  PROVE  q \in HeldAs(line.name) /\ SoundProperty(q)
<1>1. PICK p \in HeldAs(line.name) : line.tokens = PropertyToString(p)
  BY DEF Spoken
<1>2. line.name \in Names /\ line.name \notin Bare
  BY DEF Spoken, WellFormed
<1>3. p.type = line.name
  BY <1>1, <1>2, HeldIsTyped DEF TypedAs
<1>4. PropertyIsReadBack(HeldAs(line.name), p)
  BY <1>1, <1>2, HeldIsReadBack
<1> QED BY <1>1, <1>3, <1>4 DEF PropertyIsReadBack

(* A spoken line adds such a property to such a payload.                   *)
LEMMA SpokenLineRead ==
  ASSUME NEW lexer, NEW payload, SoundOnly(lexer, payload), NEW line, Spoken(line), ~IsParameter(lexer, line),
         NEW q \in ReadPropertyLine(payload, line)
  PROVE  SoundOnly(lexer, q)
<1>1. PICK p : /\ p \in IF line.colon THEN ReadProperty(line.name, line.tokens)
                        ELSE When(line.name \in Bare, Property(line.name, <<>>, <<>>))
               /\ q = AddProperty(payload, p)
  BY DEF ReadPropertyLine
<1>2. line.name \in Names /\ line.colon \in BOOLEAN
  BY DEF Spoken, WellFormed
<1>3. p \in HeldAs(line.name) /\ SoundProperty(p)
  <2>1. CASE line.colon
    <3>2. p \in ReadProperty(line.name, line.tokens)
      BY <1>1, <2>1
    <3> QED BY <2>1, <3>2, SpokenPropertyRead
  <2>2. CASE ~line.colon
    <3>1. p \in When(line.name \in Bare, Property(line.name, <<>>, <<>>))
      BY <1>1, <2>2
    <3>2. line.name \in Bare /\ p = Property(line.name, <<>>, <<>>)
      BY <3>1 DEF When
    <3> QED BY <3>2, BareIsSound
  <2> QED BY <2>1, <2>2
<1>4. lexer # "reply" => line.name \notin Bare
  BY <1>2, BareIsKnown DEF IsParameter, Spoken
<1>5. OnlyProperties(payload) /\ (\A n \in DOMAIN payload.properties : SoundProperty(payload.properties[n]))
      /\ (lexer # "reply" => DOMAIN payload.properties \cap Bare = {})
  BY DEF SoundOnly
<1> DEFINE map == Put(payload.properties, line.name, p)
<1>6. OnlyProperties(q) /\ q = PayloadOf(map, <<>>, <<>>)
  BY <1>1, <1>2, <1>3, <1>5, PropertyAdded
<1>7. q.properties = map
  BY <1>6, PayloadFields
<1>8. PutIn(payload.properties, line.name, p, map)
  BY PutIsIn
<1> HIDE DEF map
<1>9. \A n \in DOMAIN map : SoundProperty(map[n])
  BY <1>3, <1>5, <1>8 DEF PutIn
<1>10. lexer # "reply" => DOMAIN map \cap Bare = {}
  BY <1>4, <1>5, <1>8 DEF PutIn
<1> QED BY <1>6, <1>7, <1>9, <1>10 DEF SoundOnly

(* The lines of a payload that can be held are spoken ones.                *)
LEMMA PrintedIsSpoken ==
  ASSUME NEW kind, NEW code, ~ErrorReply(kind, code), NEW p, HeldIn(kind, code, p),
         NEW body, body = PayloadToString(p), NEW i \in 1 .. Len(body)
  PROVE  Spoken(body[i])
<1>1. CASE OnlyProperties(p)
  <2>1. PICK s : InOrderOf(DOMAIN p.properties, s) /\ PayloadToString(p) = PrintedProperties(p, s)
    BY <1>1, PrintsProperties
  <2>2. s \in Seq(DOMAIN p.properties) /\ HeldProperties(p.properties)
    BY <1>1, <2>1 DEF InOrderOf, OnlyProperties, HeldPayload
  <2>4. Len(body) = Len(s) /\ body[i] = PropertyLine(p.properties[s[i]])
    BY <2>1, <2>2 DEF PrintedProperties
  <2> DEFINE name == s[i]
             x == p.properties[s[i]]
             line == PropertyLine(x)
  <2>3. name \in Names /\ x \in HeldAs(name)
    BY <2>2, <2>4 DEF HeldProperties
  <2> HIDE DEF name, x
  <2>5. WellFormed(line) /\ line = IF name \in Bare THEN BareLine(name) ELSE Line(name, PropertyToString(x))
    BY <2>3, PropertyLineIs
  <2> HIDE DEF line
  <2>6. CASE name \in Bare
    <3>1. line.colon = FALSE
      BY <2>3, <2>5, <2>6, BareNames
    <3> QED BY <2>4, <2>5, <3>1 DEF Spoken, line, x
  <2>7. CASE name \notin Bare
    <3>1. line.name = name /\ line.tokens = PropertyToString(x)
      BY <2>5, <2>7 DEF Line
    <3>2. Spoken(line)
      BY <2>3, <2>5, <2>7, <3>1 DEF Spoken
    <3> QED BY <2>4, <3>2 DEF line, x
  <2> QED BY <2>6, <2>7
<1>2. CASE OnlyNames(p)
  <2>1. p.parameters \in Seq(Names)
    BY <1>2 DEF OnlyNames, HeldPayload
  <2>2. body = PrintedNames(p)
    BY <1>2, PrintsNames
  <2>3. body[i] = BareLine(p.parameters[i]) /\ p.parameters[i] \in Names
    BY <2>1, <2>2 DEF PrintedNames
  <2>4. WellFormed(body[i]) /\ body[i].colon = FALSE
    BY <2>3, BareNames
  <2> QED BY <2>4 DEF Spoken
<1> QED BY <1>1, <1>2, HeldIsOne

(* Spoken lines are read as a payload whose text says it all.              *)
LEMMA PropertiesSound ==
  ASSUME NEW lexer, NEW lines, Len(lines) \in Nat,
         \A i \in 1 .. Len(lines) : Spoken(lines[i]) /\ ~IsParameter(lexer, lines[i]),
         NEW q \in ReadLines(ReadPropertyLine, Payload, lines)
  PROVE  SoundOnly(lexer, q)
<1> DEFINE Good == {p \in PropertyPayloads : SoundOnly(lexer, p)}
<1>1. Payload \in Good
  <2>1. OnlyProperties(Payload) /\ Payload \in PropertyPayloads
    BY StartPayloads, ArePayloads
  <2>2. Payload.properties = <<>> /\ DOMAIN <<>> = {}
    BY NoMap DEF Payload
  <2>3. SoundOnly(lexer, Payload)
    BY <2>1, <2>2 DEF SoundOnly
  <2> QED BY <2>1, <2>3
<1>2. ASSUME NEW i \in 1 .. Len(lines), NEW r \in Good PROVE ReadPropertyLine(r, lines[i]) \subseteq Good
  <2>1. SUFFICES ASSUME NEW s \in ReadPropertyLine(r, lines[i]) PROVE s \in Good
    OBVIOUS
  <2>2. SoundOnly(lexer, s)
    BY SpokenLineRead
  <2> QED BY <2>2, ArePayloads DEF SoundOnly
<1>4. \A p \in Good : SoundOnly(lexer, p)
  OBVIOUS
<1> HIDE DEF Good
<1>3. ReadLines(ReadPropertyLine, Payload, lines) \subseteq Good
  BY <1>1, <1>2, PropertiesAllRead
<1> QED BY <1>3, <1>4

(* A payload read from a printed one says only what can be said.           *)
THEOREM ReadIsSound ==
  ASSUME NEW message, message # NoMessage, message.kind \in Request \cup {"REPLY"},
         NEW p, HeldIn(message.kind, message.code, p),
         NEW q \in ReadPayload(LexerFor(message), PayloadToString(p))
  PROVE  SoundPayload(message.kind, q)
<1> DEFINE kind == message.kind
           code == message.code
           lexer == LexerFor(message)
           body == PayloadToString(p)
<1>1. lexer = IF ErrorReply(kind, code) THEN "error" ELSE IF kind = "REPLY" THEN "reply" ELSE "request"
  BY LexerIs
<1>2. WellFormedBody(kind, code, body)
  BY PrintedIsWellFormed
<1>3. ~ErrorReply(kind, code) => \A i \in 1 .. Len(body) : Spoken(body[i])
  BY PrintedIsSpoken
<1>4. kind \in Request => kind # "REPLY"
  BY DEF Request
<1>10. kind \in Request \cup {"REPLY"}
  OBVIOUS
<1>5. DOMAIN <<>> = {}
  BY NoMap
<1> HIDE DEF body, kind, code
<1>6. Len(body) \in Nat /\ DOMAIN body = 1 .. Len(body)
  BY <1>2 DEF WellFormedBody
<1>7. \/ lexer = "error" /\ q \in ReadLines(ReadErrorLine, Payload, body)
      \/ /\ lexer # "error" /\ q = Names1(body)
         /\ \A i \in DOMAIN body : IsParameter(lexer, body[i])
      \/ /\ lexer # "error" /\ q \in ReadLines(ReadPropertyLine, Payload, body)
         /\ \A i \in DOMAIN body : ~IsParameter(lexer, body[i])
  BY PayloadIsRead DEF body
<1> HIDE DEF lexer
<1>11. CASE lexer = "error" /\ q \in ReadLines(ReadErrorLine, Payload, body)
  <2>1. ErrorReply(kind, code)
    BY <1>1, <1>11
  <2>2. ErrorsOf(q)
    BY <1>2, <1>6, <1>11, <2>1, ErrorsHeld DEF WellFormedBody
  <2>3. q.properties = <<>> /\ q.parameters = <<>> /\ "wfd_standby" \notin DOMAIN q.errors
    BY <2>2 DEF ErrorsOf, OnlyErrors
  <2>4. SoundPayload(kind, q)
    BY <1>5, <2>3 DEF SoundPayload
  <2> QED BY <2>4 DEF kind
<1>12. CASE lexer # "error" /\ q = Names1(body) /\ \A i \in DOMAIN body : IsParameter(lexer, body[i])
  <2> DEFINE names == [i \in DOMAIN body |-> body[i].name]
  <2>1. kind = "REPLY" => \A i \in DOMAIN body : names[i] \notin Bare
    <3> SUFFICES ASSUME kind = "REPLY", NEW i \in DOMAIN body, names[i] \in Bare PROVE FALSE
      OBVIOUS
    <3>1. IsParameter(lexer, body[i]) /\ body[i].name \in Bare /\ body[i].name \in PropertyName
      BY <1>12, BareIsKnown
    <3>2. lexer = "reply"
      BY <1>1, <1>12
    <3> QED BY <3>1, <3>2 DEF IsParameter
  <2>3. DOMAIN names = DOMAIN body
    OBVIOUS
  <2>2. Names1(body) = PayloadOf(<<>>, names, <<>>)
    BY Zenon DEF Names1
  <2> HIDE DEF names
  <2>4. q.properties = <<>> /\ q.parameters = names /\ q.errors = <<>>
    BY <1>12, <2>2, PayloadFields
  <2>5. SoundPayload(kind, q)
    BY <1>5, <2>1, <2>3, <2>4 DEF SoundPayload
  <2> QED BY <2>5 DEF kind
<1>13. CASE lexer # "error" /\ q \in ReadLines(ReadPropertyLine, Payload, body)
            /\ \A i \in DOMAIN body : ~IsParameter(lexer, body[i])
  <2>1. SoundOnly(lexer, q)
    BY <1>1, <1>3, <1>6, <1>13, PropertiesSound
  <2>2. q.parameters = <<>> /\ q.errors = <<>>
    BY <2>1 DEF SoundOnly, OnlyProperties
  <2>3. kind \in Request => lexer # "reply"
    BY <1>1, <1>4
  <2>4. SoundPayload(kind, q)
    BY <1>5, <2>1, <2>2, <2>3 DEF SoundPayload, SoundOnly
  <2> QED BY <2>4 DEF kind
<1> QED BY <1>7, <1>11, <1>12, <1>13

----------------------------------------------------------------------------
(* What a text can say, or says in another way: no I2C port is said "none".*)
NoPort == I2C(Dec(0))
Sayable(q) == SoundProperty(q) \/ q = NoPort
PropertyReadAs(q) == IF q = NoPort THEN I2C(Dec(-1)) ELSE q
PropertiesReadAs(map) == [n \in DOMAIN map |-> PropertyReadAs(map[n])]
PayloadReadAs(p) == PayloadOf(PropertiesReadAs(p.properties), p.parameters, p.errors)

SayablePayload(kind, p) ==
  /\ kind \in Request => DOMAIN p.properties \cap Bare = {}
  /\ kind = "REPLY" => \A i \in DOMAIN p.parameters : p.parameters[i] \notin Bare
  /\ \A n \in DOMAIN p.properties : Sayable(p.properties[n])
  /\ "wfd_standby" \notin DOMAIN p.errors

(* No I2C port is printed "none" and read as -1.                           *)
LEMMA NoPortIsRead ==
  /\ NoPort \in HeldI2C /\ NoPort.type = "wfd_I2C" /\ ~SoundProperty(NoPort)
  /\ ReadProperty("wfd_I2C", PropertyToString(NoPort)) = {I2C(Dec(-1))}
  /\ I2C(Dec(-1)) \in HeldI2C
<1> DEFINE p == NoPort
           n == 0
           k == -1
<1>0. n \in SInt /\ k \in SInt /\ ~(n > 0) /\ n # -1
  BY Ranges
<1>1. p = I2C(Dec(n))
  BY DEF NoPort
<1>2. p \in HeldI2C /\ I2C(Dec(k)) \in HeldI2C
  BY <1>0, <1>1 DEF HeldI2C
<1> HIDE DEF p, n
<1>3. p.type = "wfd_I2C" /\ p.none = FALSE /\ p.members = <<Dec(n)>> /\ p.members[1] = Dec(n)
  BY <1>1, I2CFields
<1>4. p.members[1].dec = n
  BY <1>3, Tokens
<1>5. PropertyToString(p) = <<NONE>>
  BY <1>0, <1>3, <1>4, PropertyTexts DEF I2CToString
<1>6. ~SoundProperty(p)
  <2>1. p.none \in BOOLEAN
    BY <1>3
  <2>2. SoundProperty(p) <=> p.members[1].dec > 0 \/ p.members[1].dec = -1
    BY <1>3, <2>1, SoundnessByName
  <2> QED BY <1>0, <1>4, <2>2
<1>7. ReadProperty(p.type, <<NONE>>) = ReadI2C(<<NONE>>)
  BY <1>3, PropertyReaders
<1>8. ReadI2C(<<NONE>>) = {I2C(Dec(k))}
  <2> DEFINE A == {"NUM", "none"}
             x == NONE
             v == <<x>>
  <2>1. Terminal(x) \in A
    BY WordTokens, WordSets DEF NONE
  <2>2. PortOf(x) = Dec(k)
    BY DEF PortOf
  <2>3. v[1] = x
    OBVIOUS
  <2> HIDE DEF A, x, k
  <2>4. Derives(<<A>>, <<x>>)
    BY <2>1, OneToken
  <2>5. ReadI2C(v) = When(Derives(<<A>>, v), I2C(PortOf(v[1])))
    BY Zenon DEF ReadI2C, A
  <2>6. ReadI2C(v) = {I2C(Dec(k))}
    BY <2>2, <2>3, <2>4, <2>5 DEF When
  <2> QED BY <2>6 DEF x
<1> QED BY <1>2, <1>3, <1>5, <1>6, <1>7, <1>8 DEF p

PropertySaid(name, p) ==
  /\ PropertyReadAs(p) \in HeldAs(name)
  /\ \A payload : ReadPropertyLine(payload, PropertyLine(p)) = {AddProperty(payload, PropertyReadAs(p))}

(* A property that can be said is read with its meaning.                   *)
LEMMA SayableIsRead ==
  ASSUME NEW name \in Names, NEW p \in HeldAs(name), Sayable(p)
  PROVE  PropertySaid(name, p)
<1> DEFINE line == PropertyLine(p)
           tokens == PropertyToString(p)
<1>1. p.type = name
  BY HeldIsTyped DEF TypedAs
<1>2. line = IF name \in Bare THEN BareLine(name) ELSE Line(name, tokens)
  BY PropertyLineIs
<1>6. \A payload, l : ReadPropertyLine(payload, l) =
        {AddProperty(payload, x) : x \in IF l.colon THEN ReadProperty(l.name, l.tokens)
                                         ELSE When(l.name \in Bare, Property(l.name, <<>>, <<>>))}
  BY Zenon DEF ReadPropertyLine
<1> HIDE DEF line, tokens
<1>3. CASE name \in Bare
  <2>1. p = Property(name, <<>>, <<>>)
    BY <1>3, HeldByName
  <2>2. line.name = name /\ line.colon = FALSE
    BY <1>2, <1>3, BareNames
  <2>3. name # "wfd_I2C"
    BY <1>3 DEF Bare
  <2>4. PropertyReadAs(p) = p
    BY <1>1, <2>3, NoPortIsRead DEF PropertyReadAs
  <2> DEFINE S == IF line.colon THEN ReadProperty(line.name, line.tokens)
                  ELSE When(line.name \in Bare, Property(line.name, <<>>, <<>>))
  <2>5. S = {p}
    <3>1. S = When(name \in Bare, Property(name, <<>>, <<>>))
      BY <2>2
    <3> HIDE DEF S
    <3> QED BY <1>3, <2>1, <3>1 DEF When
  <2>7. \A payload : ReadPropertyLine(payload, line) = {AddProperty(payload, x) : x \in S}
    BY <1>6, Zenon
  <2> HIDE DEF S
  <2>6. \A payload : ReadPropertyLine(payload, line) = {AddProperty(payload, p)}
    BY <2>5, <2>7
  <2> QED BY <2>4, <2>6 DEF PropertySaid, line
<1>4. CASE name \notin Bare
  <2> DEFINE read == ReadProperty(name, tokens)
             back == PropertyReadAs(p)
             S == IF line.colon THEN ReadProperty(line.name, line.tokens)
                  ELSE When(line.name \in Bare, Property(line.name, <<>>, <<>>))
  <2>1. line.name = name /\ line.colon = TRUE /\ line.tokens = tokens
    BY <1>2, <1>4 DEF Line
  <2>2. read = {back} /\ back \in HeldAs(name)
    <3>1. CASE p = NoPort
      <4>1. name = "wfd_I2C"
        BY <1>1, <3>1, NoPortIsRead
      <4>2. HeldAs(name) = HeldI2C
        BY <4>1, HeldByName
      <4>3. read = {I2C(Dec(-1))}
        BY <3>1, <4>1, NoPortIsRead DEF tokens
      <4>4. back = I2C(Dec(-1))
        BY <3>1 DEF PropertyReadAs
      <4> QED BY <4>2, <4>3, <4>4, NoPortIsRead
    <3>2. CASE p # NoPort
      <4>1. SoundProperty(p)
        BY <3>2 DEF Sayable
      <4>2. PropertyIsReadBack(HeldAs(name), p)
        BY <1>4, HeldIsReadBack
      <4>3. read = {p}
        BY <1>1, <4>1, <4>2 DEF PropertyIsReadBack, tokens
      <4>4. back = p
        BY <3>2 DEF PropertyReadAs
      <4> QED BY <4>3, <4>4
    <3> QED BY <3>1, <3>2
  <2>3. S = {back}
    <3>1. S = ReadProperty(name, tokens)
      BY <2>1
    <3> QED BY <2>2, <3>1
  <2>7. \A payload : ReadPropertyLine(payload, line) = {AddProperty(payload, x) : x \in S}
    BY <1>6, Zenon
  <2> HIDE DEF S, back
  <2>6. \A payload : ReadPropertyLine(payload, line) = {AddProperty(payload, back)}
    BY <2>3, <2>7
  <2> QED BY <2>2, <2>6 DEF PropertySaid, line, back
<1> QED BY <1>3, <1>4

----------------------------------------------------------------------------
(* Lines of properties are read one after the other, each name once.       *)
ReadSoFar(p, s, i) == [x \in {s[j] : j \in 1 .. i} |-> PropertyReadAs(p.properties[x])]

(* What has been read after one line more.                                 *)
LEMMA OneMoreProperty ==
  ASSUME NEW p, NEW s, NEW i \in Nat \ {0}
  PROVE  Put(ReadSoFar(p, s, i - 1), s[i], PropertyReadAs(p.properties[s[i]])) = ReadSoFar(p, s, i)
<1> DEFINE f == ReadSoFar(p, s, i - 1)
           g == ReadSoFar(p, s, i)
           v == PropertyReadAs(p.properties[s[i]])
           A == {s[j] : j \in 1 .. i - 1}
           B == {s[j] : j \in 1 .. i}
           h == Put(f, s[i], v)
           B1(x) == PropertyReadAs(p.properties[x])
<1>1. B = {s[i]} \cup A
  <2>1. 1 .. i = (1 .. i - 1) \cup {i}
    OBVIOUS
  <2> QED BY <2>1
<1>2. f = [x \in A |-> B1(x)] /\ g = [x \in B |-> B1(x)]
  BY Zenon DEF ReadSoFar
<1>3. PutIn(f, s[i], v, h)
  BY PutIsIn
<1>4. v = B1(s[i])
  OBVIOUS
<1> HIDE DEF A, B, f, g, h, v, B1
<1>5. DOMAIN f = A /\ DOMAIN g = B /\ (\A x \in A : f[x] = B1(x)) /\ (\A x \in B : g[x] = B1(x))
  BY <1>2
<1>6. DOMAIN h = B /\ \A x \in B : h[x] = B1(x)
  BY <1>1, <1>3, <1>4, <1>5 DEF PutIn
<1>7. h = [x \in B |-> B1(x)]
  BY <1>3, <1>6 DEF PutIn
<1>8. h = g
  BY <1>2, <1>7
<1> QED BY <1>8 DEF f, g, h, v

(* The printed properties are read with their meaning.                     *)
LEMMA PrintedPropertiesRead ==
  ASSUME NEW p, OnlyProperties(p), \A n \in DOMAIN p.properties : Sayable(p.properties[n]),
         NEW s, InOrderOf(DOMAIN p.properties, s),
         NEW lines, lines = PrintedProperties(p, s)
  PROVE  ReadLines(ReadPropertyLine, Payload, lines) = {PayloadReadAs(p)}
<1> DEFINE D == DOMAIN p.properties
           n == Len(s)
           G(i) == PayloadOf(ReadSoFar(p, s, i), <<>>, <<>>)
           g == [i \in 0 .. n |-> G(i)]
<1>1. s \in Seq(D) /\ n \in Nat /\ \A d \in D : \E i \in 1 .. n : s[i] = d
  BY DEF InOrderOf
<1>2. HeldProperties(p.properties) /\ p.parameters = <<>> /\ p.errors = <<>>
  BY DEF OnlyProperties, HeldPayload
<1>3. Len(lines) = n /\ \A i \in 1 .. n : lines[i] = PropertyLine(p.properties[s[i]])
  BY <1>1 DEF PrintedProperties
<1>4. {s[j] : j \in 1 .. n} = D
  BY <1>1
<1>5. \A i \in 1 .. n : s[i] \in D
  BY <1>1
<1>6. g[0] = Payload
  <2> DEFINE f == ReadSoFar(p, s, 0)
             E == {s[j] : j \in 1 .. 0}
  <2>1. E = {}
    OBVIOUS
  <2>2. f = [x \in E |-> PropertyReadAs(p.properties[x])]
    BY Zenon DEF ReadSoFar
  <2> HIDE DEF E, f
  <2>3. DOMAIN f = {} /\ f = [x \in DOMAIN f |-> f[x]]
    BY <2>1, <2>2
  <2>4. f = <<>>
    BY <2>3, EmptyMap
  <2>5. Payload = PayloadOf(<<>>, <<>>, <<>>)
    BY EmptyPayload
  <2>6. 0 \in 0 .. n
    BY <1>1
  <2> DEFINE z == 0
  <2>7. z \in 0 .. n
    BY <2>6
  <2>8. G(z) = PayloadOf(f, <<>>, <<>>)
    BY DEF f
  <2> HIDE DEF z, G
  <2>9. g[z] = G(z)
    BY <2>7
  <2>10. g[z] = Payload
    BY <2>4, <2>5, <2>8, <2>9
  <2> QED BY <2>10 DEF z
<1>7. ASSUME NEW i \in 1 .. n PROVE ReadPropertyLine(g[i - 1], lines[i]) = {g[i]}
  <2> DEFINE name == s[i]
             x == p.properties[s[i]]
             k == i - 1
             r == G(k)
             f == ReadSoFar(p, s, k)
             back == PropertyReadAs(x)
  <2>1. i \in Nat \ {0} /\ k \in 0 .. n /\ i \in 0 .. n
    BY <1>1
  <2>2. g[k] = G(k) /\ g[i] = G(i)
    <3> HIDE DEF G, k
    <3> QED BY <2>1
  <2>3. name \in Names /\ x \in HeldAs(name) /\ Sayable(x)
    BY <1>2, <1>5 DEF HeldProperties
  <2>4. PropertySaid(name, x)
    BY <2>3, SayableIsRead
  <2>5. lines[i] = PropertyLine(x)
    BY <1>3
  <2>6. Put(f, name, back) = ReadSoFar(p, s, i)
    BY <2>1, OneMoreProperty
  <2>7. back.type = name
    <3>1. back \in HeldAs(name)
      BY <2>4 DEF PropertySaid
    <3> HIDE DEF back, name
    <3> QED BY <2>3, <3>1, HeldIsTyped DEF TypedAs
  <2>12. r = PayloadOf(f, <<>>, <<>>) /\ G(i) = PayloadOf(ReadSoFar(p, s, i), <<>>, <<>>)
    OBVIOUS
  <2> HIDE DEF f, back, r, name, x, G
  <2>8. AddProperty(r, back) = [r EXCEPT !.properties = Put(r.properties, back.type, back)]
    BY Zenon DEF AddProperty
  <2>9. r.properties = f
    BY <2>12, PayloadFields
  <2>10. [r EXCEPT !.properties = Put(f, name, back)] = PayloadOf(ReadSoFar(p, s, i), <<>>, <<>>)
    <3> DEFINE m == Put(f, name, back)
    <3> HIDE DEF m
    <3>1. [r EXCEPT !.properties = m] = PayloadOf(m, <<>>, <<>>)
      BY <2>12 DEF PayloadOf
    <3>2. m = ReadSoFar(p, s, i)
      BY <2>6 DEF m
    <3> QED BY <3>1, <3>2 DEF m
  <2>11. AddProperty(r, back) = G(i)
    BY <2>7, <2>8, <2>9, <2>10, <2>12
  <2>13. ReadPropertyLine(r, lines[i]) = {AddProperty(r, back)}
    BY <2>4, <2>5 DEF PropertySaid, back
  <2> QED BY <2>2, <2>11, <2>13 DEF r, k
<1>8. n \in 0 .. n
  BY <1>1
<1>9. PayloadReadAs(p) = g[n]
  <2> DEFINE f == ReadSoFar(p, s, n)
             S == {s[j] : j \in 1 .. n}
  <2>1. f = [x \in S |-> PropertyReadAs(p.properties[x])]
    BY Zenon DEF ReadSoFar
  <2>2. S = D
    BY <1>4
  <2> HIDE DEF S, D
  <2>3. f = [x \in D |-> PropertyReadAs(p.properties[x])]
    BY <2>1, <2>2
  <2>4. f = PropertiesReadAs(p.properties)
    BY <2>3, Zenon DEF PropertiesReadAs, D
  <2>5. G(n) = PayloadOf(f, <<>>, <<>>)
    BY Zenon
  <2> HIDE DEF f
  <2>6. PayloadReadAs(p) = PayloadOf(f, <<>>, <<>>)
    BY <1>2, <2>4, Zenon DEF PayloadReadAs
  <2> HIDE DEF G
  <2>7. g[n] = G(n)
    BY <1>8
  <2> QED BY <2>5, <2>6, <2>7
<1> HIDE DEF g, n
<1>10. Len(lines) = n /\ Len(lines) \in Nat
  BY <1>1, <1>3
<1>11. ReadLines(ReadPropertyLine, Payload, lines) = {g[Len(lines)]}
  BY <1>6, <1>7, <1>10, PropertiesOneRead
<1> QED BY <1>9, <1>10, <1>11

----------------------------------------------------------------------------
(* The error codes of a reply, name by name.                               *)
ErrorsSoFar(p, s, i) == [x \in {s[j] : j \in 1 .. i} |-> p.errors[x]]

(* What has been read after one line of errors more.                       *)
LEMMA OneMoreError ==
  ASSUME NEW p, NEW s, NEW i \in Nat \ {0}
  PROVE  Put(ErrorsSoFar(p, s, i - 1), s[i], p.errors[s[i]]) = ErrorsSoFar(p, s, i)
<1> DEFINE f == ErrorsSoFar(p, s, i - 1)
           g == ErrorsSoFar(p, s, i)
           v == p.errors[s[i]]
           A == {s[j] : j \in 1 .. i - 1}
           B == {s[j] : j \in 1 .. i}
           h == Put(f, s[i], v)
           B1(x) == p.errors[x]
<1>1. B = {s[i]} \cup A
  <2>1. 1 .. i = (1 .. i - 1) \cup {i}
    OBVIOUS
  <2> QED BY <2>1
<1>2. f = [x \in A |-> B1(x)] /\ g = [x \in B |-> B1(x)]
  BY Zenon DEF ErrorsSoFar
<1>3. PutIn(f, s[i], v, h)
  BY PutIsIn
<1>4. v = B1(s[i])
  OBVIOUS
<1> HIDE DEF A, B, f, g, h, v, B1
<1>5. DOMAIN f = A /\ DOMAIN g = B /\ (\A x \in A : f[x] = B1(x)) /\ (\A x \in B : g[x] = B1(x))
  BY <1>2
<1>6. DOMAIN h = B /\ \A x \in B : h[x] = B1(x)
  BY <1>1, <1>3, <1>4, <1>5 DEF PutIn
<1>7. h = [x \in B |-> B1(x)]
  BY <1>3, <1>6 DEF PutIn
<1>8. h = g
  BY <1>2, <1>7
<1> QED BY <1>8 DEF f, g, h, v

ErrorIsReadBack(name, codes) ==
  \A payload : ReadErrorLine(payload, Line(name, PropertyErrorsToString(codes))) =
                 {[payload EXCEPT !.errors = Put(payload.errors, name, codes)]}

(* The line of an error is read back.                                      *)
LEMMA OneErrorRead ==
  ASSUME NEW name, name # "wfd_standby", NEW codes \in Codes
  PROVE  ErrorIsReadBack(name, codes)
<1> DEFINE v == PropertyErrorsToString(codes)
           line == Line(name, v)
           P == <<{"NUM"}>>
<1>1. IsList(P, v) /\ CodesOf(v) = codes
  BY ErrorsAreReadBack, Zenon DEF CodesAreReadBack
<1>2. line.name = name /\ line.colon = TRUE /\ line.tokens = v
  BY DEF Line
<1> HIDE DEF v, line
<1>3. ASSUME NEW payload
      PROVE  ReadErrorLine(payload, line) = {[payload EXCEPT !.errors = Put(payload.errors, name, codes)]}
  <2> DEFINE ok == line.colon /\ line.name # "wfd_standby" /\ IsList(P, line.tokens)
             c == [k \in DOMAIN Items(1, line.tokens) |-> AsUShort(Items(1, line.tokens)[k][1])]
             r == [payload EXCEPT !.errors = Put(payload.errors, line.name, c)]
  <2>1. ReadErrorLine(payload, line) = When(ok, r)
    BY SMT DEF ReadErrorLine
  <2>2. ok
    <3> HIDE DEF P
    <3> QED BY <1>1, <1>2
  <2>3. c = CodesOf(line.tokens)
    <3> DEFINE items == Items(1, line.tokens)
               d == CodesIn(items)
    <3>1. CodesOf(line.tokens) = d
      BY DEF CodesOf
    <3>2. c = [k \in DOMAIN items |-> AsUShort(items[k][1])]
      OBVIOUS
    <3> HIDE DEF items, c
    <3>3. d = [k \in DOMAIN items |-> AsUShort(items[k][1])]
      BY DEF CodesIn
    <3> QED BY <3>1, <3>2, <3>3
  <2> HIDE DEF ok, c
  <2>4. c = codes
    BY <1>1, <1>2, <2>3
  <2>5. r = [payload EXCEPT !.errors = Put(payload.errors, name, codes)]
    BY <1>2, <2>4
  <2> HIDE DEF r
  <2>6. ReadErrorLine(payload, line) = {r}
    BY <2>1, <2>2 DEF When
  <2> QED BY <2>5, <2>6
<1> QED BY <1>3 DEF ErrorIsReadBack, line, v

(* The printed errors are read back.                                       *)
LEMMA PrintedErrorsRead ==
  ASSUME NEW p, OnlyErrors(p), "wfd_standby" \notin DOMAIN p.errors,
         NEW s, InOrderOf(DOMAIN p.errors, s),
         NEW lines, lines = PrintedErrors(p, s)
  PROVE  ReadLines(ReadErrorLine, Payload, lines) = {p}
<1> DEFINE D == DOMAIN p.errors
           n == Len(s)
           G(i) == PayloadOf(<<>>, <<>>, ErrorsSoFar(p, s, i))
           g == [i \in 0 .. n |-> G(i)]
<1>1. s \in Seq(D) /\ n \in Nat /\ \A d \in D : \E i \in 1 .. n : s[i] = d
  BY DEF InOrderOf
<1>2. HeldErrors(p.errors) /\ p = PayloadOf(<<>>, <<>>, p.errors)
  BY DEF OnlyErrors, HeldPayload
<1>3. Len(lines) = n /\ \A i \in 1 .. n : lines[i] = Line(s[i], PropertyErrorsToString(p.errors[s[i]]))
  BY <1>1 DEF PrintedErrors
<1>4. {s[j] : j \in 1 .. n} = D
  BY <1>1
<1>5. \A i \in 1 .. n : s[i] \in D
  BY <1>1
<1>6. g[0] = Payload
  <2> DEFINE f == ErrorsSoFar(p, s, 0)
             E == {s[j] : j \in 1 .. 0}
             z == 0
  <2>1. E = {}
    OBVIOUS
  <2>2. f = [x \in E |-> p.errors[x]]
    BY Zenon DEF ErrorsSoFar
  <2> HIDE DEF E, f
  <2>3. DOMAIN f = {} /\ f = [x \in DOMAIN f |-> f[x]]
    BY <2>1, <2>2
  <2>4. f = <<>>
    BY <2>3, EmptyMap
  <2>5. Payload = PayloadOf(<<>>, <<>>, <<>>)
    BY EmptyPayload
  <2>7. z \in 0 .. n
    BY <1>1
  <2>8. G(z) = PayloadOf(<<>>, <<>>, f)
    BY DEF f
  <2> HIDE DEF z, G
  <2>9. g[z] = G(z)
    BY <2>7
  <2>10. g[z] = Payload
    BY <2>4, <2>5, <2>8, <2>9
  <2> QED BY <2>10 DEF z
<1>7. ASSUME NEW i \in 1 .. n PROVE ReadErrorLine(g[i - 1], lines[i]) = {g[i]}
  <2> DEFINE name == s[i]
             codes == p.errors[s[i]]
             k == i - 1
             r == G(k)
             f == ErrorsSoFar(p, s, k)
             m == Put(f, name, codes)
  <2>1. i \in Nat \ {0} /\ k \in 0 .. n /\ i \in 0 .. n
    BY <1>1
  <2>2. g[k] = G(k) /\ g[i] = G(i)
    <3> HIDE DEF G, k
    <3> QED BY <2>1
  <2>3. name # "wfd_standby" /\ codes \in Codes
    BY <1>2, <1>5 DEF HeldErrors
  <2>4. ErrorIsReadBack(name, codes)
    BY <2>3, OneErrorRead
  <2>5. lines[i] = Line(name, PropertyErrorsToString(codes))
    BY <1>3
  <2>6. m = ErrorsSoFar(p, s, i)
    BY <2>1, OneMoreError
  <2>12. r = PayloadOf(<<>>, <<>>, f) /\ G(i) = PayloadOf(<<>>, <<>>, ErrorsSoFar(p, s, i))
    OBVIOUS
  <2>9. r.errors = f
    BY <2>12, PayloadFields
  <2> HIDE DEF f, r, name, codes, G
  <2>13. ReadErrorLine(r, lines[i]) = {[r EXCEPT !.errors = Put(r.errors, name, codes)]}
    BY <2>4, <2>5 DEF ErrorIsReadBack
  <2> HIDE DEF m
  <2>10. [r EXCEPT !.errors = m] = PayloadOf(<<>>, <<>>, m)
    BY <2>12 DEF PayloadOf
  <2>11. [r EXCEPT !.errors = m] = G(i)
    BY <2>6, <2>10, <2>12
  <2>14. Put(r.errors, name, codes) = m
    BY <2>9 DEF m
  <2>15. ReadErrorLine(r, lines[i]) = {[r EXCEPT !.errors = m]}
    BY <2>13, <2>14
  <2> QED BY <2>2, <2>11, <2>15 DEF r, k
<1>8. n \in 0 .. n
  BY <1>1
<1>9. p = g[n]
  <2> DEFINE f == ErrorsSoFar(p, s, n)
             S == {s[j] : j \in 1 .. n}
  <2>1. f = [x \in S |-> p.errors[x]]
    BY Zenon DEF ErrorsSoFar
  <2>2. S = D
    BY <1>4
  <2> HIDE DEF S, D
  <2>3. f = [x \in D |-> p.errors[x]]
    BY <2>1, <2>2
  <2>4. f = p.errors
    BY <1>2, <2>3 DEF HeldErrors, D
  <2>5. G(n) = PayloadOf(<<>>, <<>>, f)
    BY Zenon
  <2> HIDE DEF f
  <2> HIDE DEF G
  <2>7. g[n] = G(n)
    BY <1>8
  <2> QED BY <1>2, <2>4, <2>5, <2>7
<1> HIDE DEF g, n
<1>10. Len(lines) = n /\ Len(lines) \in Nat
  BY <1>1, <1>3
<1>11. ReadLines(ReadErrorLine, Payload, lines) = {g[Len(lines)]}
  BY <1>6, <1>7, <1>10, ErrorsOneRead
<1> QED BY <1>9, <1>10, <1>11

----------------------------------------------------------------------------
(* A payload without lines is the empty one.                               *)
LEMMA NothingReadAs == PayloadReadAs(Payload) = Payload
<1> DEFINE f == PropertiesReadAs(<<>>)
           nil == <<>>
<1>1. Payload.properties = nil /\ Payload.parameters = nil /\ Payload.errors = nil
  BY DEF Payload
<1>2. DOMAIN nil = {}
  BY NoMap
<1>3. f = [n \in DOMAIN nil |-> PropertyReadAs(nil[n])]
  BY Zenon DEF PropertiesReadAs
<1> HIDE DEF f, nil
<1>4. DOMAIN f = {} /\ f = [n \in DOMAIN f |-> f[n]]
  BY <1>2, <1>3
<1>5. f = nil
  BY <1>4, EmptyMap DEF nil
<1>6. PayloadReadAs(Payload) = PayloadOf(f, nil, nil)
  BY <1>1, Zenon DEF PayloadReadAs, f, nil
<1>7. Payload = PayloadOf(nil, nil, nil)
  BY EmptyPayload DEF nil
<1> QED BY <1>5, <1>6, <1>7

(* A payload without lines is the empty one.                               *)
LEMMA NoBody ==
  ASSUME NEW kind, NEW code, NEW p, HeldIn(kind, code, p), Len(PayloadToString(p)) = 0
  PROVE  p = Payload
<1> DEFINE body == PayloadToString(p)
<1>1. p = PayloadOf(p.properties, p.parameters, p.errors) /\ p.parameters \in Seq(Names)
      /\ HeldProperties(p.properties) /\ HeldErrors(p.errors)
  BY DEF HeldIn, HeldPayload
<1>0. Payload = PayloadOf(<<>>, <<>>, <<>>)
  BY EmptyPayload
<1>2. CASE OnlyProperties(p)
  <2>1. PICK s : InOrderOf(DOMAIN p.properties, s) /\ PayloadToString(p) = PrintedProperties(p, s)
    BY <1>2, PrintsProperties
  <2>2. Len(s) = Len(body) /\ Len(s) = 0
    BY <2>1 DEF PrintedProperties, InOrderOf
  <2>3. DOMAIN p.properties = {}
    BY <2>1, <2>2 DEF InOrderOf
  <2>4. p.properties = <<>>
    <3> DEFINE map == p.properties
    <3>1. map = [n \in DOMAIN map |-> map[n]] /\ DOMAIN map = {}
      BY <1>1, <2>3 DEF HeldProperties
    <3> HIDE DEF map
    <3>2. map = <<>>
      BY <3>1, EmptyMap
    <3> QED BY <3>2 DEF map
  <2> QED BY <1>0, <1>1, <1>2, <2>4 DEF OnlyProperties
<1>3. CASE OnlyNames(p)
  <2>1. body = PrintedNames(p)
    BY <1>3, PrintsNames
  <2>2. Len(p.parameters) = 0
    BY <1>1, <2>1 DEF PrintedNames
  <2>3. p.parameters = <<>>
    BY <1>1, <2>2
  <2> QED BY <1>0, <1>1, <1>3, <2>3 DEF OnlyNames
<1>4. CASE OnlyErrors(p)
  <2>1. PICK s : InOrderOf(DOMAIN p.errors, s) /\ PayloadToString(p) = PrintedErrors(p, s)
    BY <1>4, PrintsErrors
  <2>2. Len(s) = Len(body) /\ Len(s) = 0
    BY <2>1 DEF PrintedErrors, InOrderOf
  <2>3. DOMAIN p.errors = {}
    BY <2>1, <2>2 DEF InOrderOf
  <2>4. p.errors = <<>>
    <3> DEFINE map == p.errors
    <3>1. map = [n \in DOMAIN map |-> map[n]] /\ DOMAIN map = {}
      BY <1>1, <2>3 DEF HeldErrors
    <3> HIDE DEF map
    <3>2. map = <<>>
      BY <3>1, EmptyMap
    <3> QED BY <3>2 DEF map
  <2> QED BY <1>0, <1>1, <1>4, <2>4 DEF OnlyErrors
<1> QED BY <1>2, <1>3, <1>4, HeldIsOne

----------------------------------------------------------------------------
(* A body with all that a text can say is read as it was meant.            *)
LEMMA PayloadReader ==
  ASSUME NEW lexer, NEW lines
  PROVE  /\ lexer = "error" => ReadPayload(lexer, lines) = ReadLines(ReadErrorLine, Payload, lines)
         /\ lexer # "error" /\ (\A i \in DOMAIN lines : IsParameter(lexer, lines[i])) =>
              ReadPayload(lexer, lines) = {Names1(lines)}
         /\ lexer # "error" /\ DOMAIN lines # {} /\ (\A i \in DOMAIN lines : ~IsParameter(lexer, lines[i])) =>
              ReadPayload(lexer, lines) = ReadLines(ReadPropertyLine, Payload, lines)
<1> DEFINE parameters == {i \in DOMAIN lines : IsParameter(lexer, lines[i])}
           names == [i \in DOMAIN lines |-> lines[i].name]
           E == ReadLines(ReadErrorLine, Payload, lines)
           P == ReadLines(ReadPropertyLine, Payload, lines)
           N == {[Payload EXCEPT !.parameters = names]}
           all == \A i \in DOMAIN lines : IsParameter(lexer, lines[i])
           no == \A i \in DOMAIN lines : ~IsParameter(lexer, lines[i])
           R == ReadPayload(lexer, lines)
           D == DOMAIN lines
<1>1. R = IF lexer = "error" THEN E ELSE IF parameters = D THEN N
          ELSE IF parameters = {} THEN P ELSE {}
  BY Zenon DEF ReadPayload
<1>2. [Payload EXCEPT !.parameters = names] = PayloadOf(<<>>, names, <<>>)
  <2> HIDE DEF names
  <2> QED BY DEF Payload, PayloadOf
<1>5. N = {Names1(lines)}
  BY <1>2, Zenon DEF Names1
<1>3. (all => parameters = D) /\ (no => parameters = {})
  OBVIOUS
<1> DEFINE N1 == {Names1(lines)}
<1> HIDE DEF parameters, names, E, P, N, R, D, all, no, N1
<1>6. /\ lexer = "error" => R = E
      /\ lexer # "error" /\ all => R = N
      /\ lexer # "error" /\ D # {} /\ no => R = P
  BY <1>1, <1>3
<1>7. /\ lexer = "error" => R = E
      /\ lexer # "error" /\ all => R = N1
      /\ lexer # "error" /\ D # {} /\ no => R = P
  BY <1>5, <1>6 DEF N1
<1> QED BY <1>7, Zenon DEF E, P, N1, R, D, all, no

(* Names and errors are read as they are.                                  *)
LEMMA NothingRenamed ==
  ASSUME NEW p, p = PayloadOf(<<>>, p.parameters, p.errors)
  PROVE  PayloadReadAs(p) = p
<1> DEFINE nil == <<>>
           f == PropertiesReadAs(nil)
           a == p.parameters
           b == p.errors
<1>1. Payload.properties = nil /\ Payload.parameters = nil /\ Payload.errors = nil
  BY DEF Payload
<1>2. p.properties = nil /\ p = PayloadOf(nil, a, b)
  <2>1. p = PayloadOf(nil, a, b)
    OBVIOUS
  <2>2. PayloadOf(nil, a, b).properties = nil
    BY PayloadFields
  <2> QED BY <2>1, <2>2
<1> HIDE DEF nil, f
<1>3. PayloadOf(f, nil, nil) = Payload
  BY <1>1, NothingReadAs, Zenon DEF PayloadReadAs, f
<1>4. f = nil
  BY <1>1, <1>3, PayloadFields
<1>5. PayloadReadAs(p) = PayloadOf(f, a, b)
  BY <1>2, Zenon DEF PayloadReadAs, f
<1> HIDE DEF a, b
<1> QED BY <1>2, <1>4, <1>5

(* A generic property that can be said has a string behind its name.       *)
LEMMA GenericHasString ==
  ASSUME NEW x \in HeldAs("vendor_key"), Sayable(x)
  PROVE  HasString(PropertyToString(x))
<1>1. x \in HeldGeneric
  BY HeldByName
<1>2. PICK c \in Seq(Nat) : x = GenericProperty("vendor_key", Chars(c))
  BY <1>1 DEF HeldGeneric
<1> DEFINE v == Chars(c)
           t == <<v>>
<1>3. x.type = "vendor_key" /\ x.members = t /\ x.none \in BOOLEAN
  BY <1>2, GenericFields
<1>4. t[1] = v /\ v.chars = c
  BY Tokens
<1>5. PropertyToString(x) = t
  BY <1>3, PropertyTexts DEF GenericPropertyToString
<1>6. SoundProperty(x)
  BY <1>3, NoPortIsRead DEF Sayable
<1>7. Len(c) >= 2
  <2> HIDE DEF t, v
  <2> QED BY <1>3, <1>4, <1>6, SoundnessByName
<1>8. HasString(t)
  BY <1>7, StringOf
<1> QED BY <1>5, <1>8

(* A payload that can be said is read, in one way only, with its meaning:  *)
(* the parser's grammar is unambiguous on everything the serialiser        *)
(* prints.                                                                 *)
THEOREM SayablePayloadIsRead ==
  ASSUME NEW message, message # NoMessage, message.kind \in Request \cup {"REPLY"},
         NEW p, HeldIn(message.kind, message.code, p), SayablePayload(message.kind, p),
         NEW body, body = PayloadToString(p), Len(body) # 0
  PROVE  ReadPayload(LexerFor(message), body) = {PayloadReadAs(p)}
<1> DEFINE kind == message.kind
           code == message.code
           lexer == LexerFor(message)
<1>1. lexer = IF ErrorReply(kind, code) THEN "error" ELSE IF kind = "REPLY" THEN "reply" ELSE "request"
  BY LexerIs
<1>2. WellFormedBody(kind, code, body)
  BY PrintedIsWellFormed
<1>4. kind # "REPLY" => kind \in Request
  OBVIOUS
<1>3. HeldIn(kind, code, p) /\ SayablePayload(kind, p)
  OBVIOUS
<1> HIDE DEF kind, code
<1>6. Len(body) \in Nat /\ DOMAIN body = 1 .. Len(body)
  BY <1>2 DEF WellFormedBody
<1>5. 1 \in DOMAIN body
  BY <1>6
<1> HIDE DEF lexer
<1>11. CASE ErrorReply(kind, code) /\ OnlyErrors(p)
  <2>1. PICK s : InOrderOf(DOMAIN p.errors, s) /\ PayloadToString(p) = PrintedErrors(p, s)
    BY <1>11, PrintsErrors
  <2>2. "wfd_standby" \notin DOMAIN p.errors
    BY <1>3 DEF SayablePayload
  <2>3. ReadLines(ReadErrorLine, Payload, body) = {p}
    BY <1>11, <2>1, <2>2, PrintedErrorsRead
  <2>4. ReadPayload(lexer, body) = ReadLines(ReadErrorLine, Payload, body)
    BY <1>1, <1>11, PayloadReader
  <2>5. p = PayloadOf(<<>>, p.parameters, p.errors)
    BY <1>11 DEF OnlyErrors, HeldPayload
  <2>6. PayloadReadAs(p) = p
    BY <2>5, NothingRenamed
  <2> QED BY <2>3, <2>4, <2>6 DEF lexer
<1>12. CASE ~ErrorReply(kind, code) /\ OnlyNames(p)
  <2> DEFINE ns == p.parameters
  <2>1. ns \in Seq(Names) /\ p = PayloadOf(<<>>, ns, <<>>) /\ p = PayloadOf(<<>>, ns, p.errors)
    BY <1>12 DEF OnlyNames, HeldPayload
  <2>2. body = PrintedNames(p)
    BY <1>12, PrintsNames
  <2>3. Len(body) = Len(ns) /\ \A i \in 1 .. Len(ns) : body[i] = BareLine(ns[i]) /\ ns[i] \in Names
    BY <2>1, <2>2 DEF PrintedNames
  <2>4. kind = "REPLY" => \A i \in DOMAIN ns : ns[i] \notin Bare
    BY <1>3 DEF SayablePayload
  <2>5. DOMAIN ns = 1 .. Len(ns)
    BY <2>1
  <2>6. ASSUME NEW i \in DOMAIN body PROVE IsParameter(lexer, body[i]) /\ body[i].name = ns[i]
    <3>1. i \in 1 .. Len(ns) /\ body[i] = BareLine(ns[i]) /\ ns[i] \in Names
      BY <1>6, <2>3
    <3>2. body[i].name = ns[i] /\ body[i].colon = FALSE
      BY <3>1, BareNames
    <3>3. lexer = "reply" => kind = "REPLY"
      BY <1>1
    <3>4. ~HasString(body[i].tokens)
      <4>1. body[i].tokens = <<>>
        BY <3>1 DEF BareLine
      <4> QED BY <4>1 DEF HasString
    <3> QED BY <2>4, <2>5, <3>1, <3>2, <3>3, <3>4 DEF IsParameter
  <2>7. ReadPayload(lexer, body) = {Names1(body)}
    <3>1. lexer # "error"
      BY <1>1, <1>12
    <3> QED BY <2>6, <3>1, PayloadReader
  <2>8. [i \in DOMAIN body |-> body[i].name] = ns
    BY <1>6, <2>1, <2>3, <2>5, <2>6
  <2> DEFINE names == [i \in DOMAIN body |-> body[i].name]
  <2>9. Names1(body) = PayloadOf(<<>>, names, <<>>)
    BY Zenon DEF Names1
  <2> HIDE DEF names
  <2>10. names = ns
    BY <2>8 DEF names
  <2> HIDE DEF ns
  <2>11. Names1(body) = p
    BY <2>1, <2>9, <2>10
  <2>12. PayloadReadAs(p) = p
    <3>1. p = PayloadOf(<<>>, p.parameters, p.errors)
      BY <2>1 DEF ns
    <3> QED BY <3>1, NothingRenamed
  <2> QED BY <2>7, <2>11, <2>12 DEF lexer
<1>13. CASE ~ErrorReply(kind, code) /\ OnlyProperties(p)
  <2>1. PICK s : InOrderOf(DOMAIN p.properties, s) /\ PayloadToString(p) = PrintedProperties(p, s)
    BY <1>13, PrintsProperties
  <2>2. s \in Seq(DOMAIN p.properties) /\ HeldProperties(p.properties)
    BY <1>13, <2>1 DEF InOrderOf, OnlyProperties, HeldPayload
  <2>3. (\A n \in DOMAIN p.properties : Sayable(p.properties[n]))
        /\ (kind \in Request => DOMAIN p.properties \cap Bare = {})
    BY <1>3 DEF SayablePayload
  <2>4. ReadLines(ReadPropertyLine, Payload, body) = {PayloadReadAs(p)}
    BY <1>13, <2>1, <2>3, PrintedPropertiesRead
  <2>5. ASSUME NEW i \in DOMAIN body PROVE ~IsParameter(lexer, body[i])
    <3> DEFINE name == s[i]
               x == p.properties[s[i]]
               line == body[i]
    <3>1. line = PropertyLine(x) /\ name \in DOMAIN p.properties
      BY <2>1, <2>2 DEF PrintedProperties
    <3>2. name \in Names /\ x \in HeldAs(name)
      BY <2>2, <3>1 DEF HeldProperties
    <3> HIDE DEF x, line, name
    <3>3. line = IF name \in Bare THEN BareLine(name) ELSE Line(name, PropertyToString(x))
      BY <3>1, <3>2, PropertyLineIs
    <3>4. CASE name \in Bare
      <4>1. line.name = name /\ line.colon = FALSE
        BY <3>2, <3>3, <3>4, BareNames
      <4>2. lexer = "reply"
        BY <1>1, <1>4, <1>13, <2>3, <3>1, <3>4
      <4> QED BY <3>4, <4>1, <4>2, BareIsKnown DEF IsParameter, line
    <3>5. CASE name \notin Bare
      <4>1. line.colon = TRUE /\ line.name = name /\ line.tokens = PropertyToString(x)
        BY <3>3, <3>5 DEF Line
      <4>2. CASE name \in PropertyName
        BY <4>1, <4>2 DEF IsParameter, line
      <4>3. CASE name \notin PropertyName
        <5>1. name = "vendor_key"
          BY <3>2, <4>3 DEF Names
        <5>2. Sayable(x)
          BY <2>3, <3>1 DEF x, name
        <5>3. HasString(PropertyToString(x))
          BY <3>2, <5>1, <5>2, GenericHasString
        <5> QED BY <4>1, <4>3, <5>3 DEF IsParameter, line
      <4> QED BY <4>2, <4>3
    <3> QED BY <3>4, <3>5
  <2>6. ReadPayload(lexer, body) = ReadLines(ReadPropertyLine, Payload, body)
    <3>1. lexer # "error" /\ DOMAIN body # {}
      BY <1>1, <1>5, <1>13
    <3> QED BY <2>5, <3>1, PayloadReader
  <2> QED BY <2>4, <2>6 DEF lexer
<1> QED BY <1>3, <1>11, <1>12, <1>13, HeldIsOne

(* What can be printed whole is read as it is.                             *)
LEMMA SoundIsSayable ==
  ASSUME NEW kind, NEW p, HeldPayload(p), SoundPayload(kind, p)
  PROVE  SayablePayload(kind, p) /\ PayloadReadAs(p) = p
<1> DEFINE map == p.properties
           f == PropertiesReadAs(map)
           a == p.parameters
           b == p.errors
<1>1. \A n \in DOMAIN map : SoundProperty(map[n])
  BY DEF SoundPayload
<1>2. SayablePayload(kind, p)
  BY <1>1 DEF SoundPayload, SayablePayload, Sayable
<1>3. p = PayloadOf(map, a, b) /\ HeldProperties(map)
  BY DEF HeldPayload
<1>4. PayloadReadAs(p) = PayloadOf(f, a, b)
  BY Zenon DEF PayloadReadAs
<1>5. f = [n \in DOMAIN map |-> PropertyReadAs(map[n])]
  BY Zenon DEF PropertiesReadAs
<1>6. \A n \in DOMAIN map : PropertyReadAs(map[n]) = map[n]
  BY <1>1, NoPortIsRead DEF PropertyReadAs
<1>7. map = [n \in DOMAIN map |-> map[n]]
  BY <1>3 DEF HeldProperties
<1> HIDE DEF f, map
<1>8. f = map
  BY <1>5, <1>6, <1>7
<1> HIDE DEF a, b
<1> QED BY <1>2, <1>3, <1>4, <1>8

----------------------------------------------------------------------------
(* Messages that can be held, with the length of their body stored.        *)
Kinds == Request \cup {"REPLY"}
Whole(m) == HeldMessage(m) /\ m.kind \in Kinds /\ HeldHeader(m.header)
Printable(m) == Whole(m) /\ m.header.content_length = Len(PayloadToString(m.payload))

SayableMessage(m) ==
  /\ m.kind \in Request => ReadsURI(m.kind, m.uri)
  /\ SoundGenerics(m.header.generic_headers)
  /\ SayablePayload(m.kind, m.payload)

MessageReadAs(m) ==
  Message(m.kind, m.uri, m.code, HeaderReadAs(m.header), PayloadReadAs(m.payload))

(* The text t is read as m, may be read as m, may be refused.              *)
Understood(t, m) ==
  \E h : /\ ParseHeader(t) = {h}
         /\ IF h.header.content_length = 0 THEN h = m ELSE ParsePayload(h, t) = {m}

ReadFrom(t, m) ==
  \E h \in ParseHeader(t) : IF h.header.content_length = 0 THEN m = h ELSE m \in ParsePayload(h, t)

RefusedText(t) ==
  \/ ParseHeader(t) = {}
  \/ \E h \in ParseHeader(t) : h.header.content_length # 0 /\ ParsePayload(h, t) = {}

(* A text that is understood is read in one way, and is not refused.       *)
LEMMA UnderstoodOnly ==
  ASSUME NEW t, NEW m, Understood(t, m), NEW q
  PROVE  (ReadFrom(t, q) => q = m) /\ ~RefusedText(t)
BY DEF Understood, ReadFrom, RefusedText

(* The length of a body, stored, is an int.                                *)
LEMMA LengthIsInt ==
  ASSUME NEW m, Whole(m)
  PROVE  /\ Len(PayloadToString(m.payload)) \in Nat
         /\ Printable(m) => /\ Len(PayloadToString(m.payload)) <= INT_MAX
                            /\ m.header.content_length >= 0
<1> DEFINE n == Len(PayloadToString(m.payload))
<1>1. HeldIn(m.kind, m.code, m.payload) /\ HeldHeader(m.header)
  BY DEF Whole, HeldMessage
<1>2. WellFormedBody(m.kind, m.code, PayloadToString(m.payload))
  BY <1>1, PrintedIsWellFormed
<1>3. n \in Nat
  BY <1>2 DEF WellFormedBody
<1>4. m.header.content_length \in SInt
  BY <1>1 DEF HeldHeader
<1>5. m.header.content_length <= INT_MAX
  BY <1>4, Ranges
<1> QED BY <1>3, <1>5 DEF Printable

(* Storing the length changes nothing else in a whole message.             *)
LEMMA LengthIsStored ==
  ASSUME NEW m, Whole(m), Len(PayloadToString(m.payload)) <= INT_MAX
  PROVE  /\ Printable(WithLength(m)) /\ (Sound(m) <=> Sound(WithLength(m)))
         /\ Printable(m) => WithLength(m) = m
         /\ WithLength(m).kind = m.kind /\ WithLength(m).uri = m.uri /\ WithLength(m).code = m.code
         /\ WithLength(m).payload = m.payload
         /\ WithLength(m).header.generic_headers = m.header.generic_headers
         /\ SoundHeader(WithLength(m).header) <=> SoundHeader(m.header)
<1> DEFINE n == Len(PayloadToString(m.payload))
           g == [m.header EXCEPT !.content_length = n]
           w == WithLength(m)
<1>1. m = Message(m.kind, m.uri, m.code, m.header, m.payload) /\ HeldMessage(m) /\ HeldHeader(m.header)
      /\ HeldIn(m.kind, m.code, m.payload) /\ m.kind \in Kinds
  BY DEF Whole, HeldMessage
<1>2. WellFormedBody(m.kind, m.code, PayloadToString(m.payload))
  BY <1>1, PrintedIsWellFormed
<1>3. n \in SInt
  <2>1. n \in Nat
    BY <1>2 DEF WellFormedBody
  <2> QED BY <2>1, Ranges
<1>4. LengthStored(m.header, n, g)
  BY <1>1, <1>3, LengthInHeader
<1>5. w = Message(m.kind, m.uri, m.code, g, m.payload)
  BY <1>1, WithLengthIs
<1>6. HeldMessage(w)
  BY <1>1, LengthHeld
<1> HIDE DEF w, g
<1>7. w.kind = m.kind /\ w.uri = m.uri /\ w.code = m.code /\ w.header = g /\ w.payload = m.payload
  BY <1>5, MessageFields
<1>8. HeldHeader(g) /\ g.content_length = n /\ (SoundHeader(g) <=> SoundHeader(m.header))
      /\ g.generic_headers = m.header.generic_headers /\ (n = m.header.content_length => g = m.header)
  BY <1>4 DEF LengthStored
<1>9. Printable(w)
  BY <1>1, <1>6, <1>7, <1>8 DEF Printable, Whole
<1>10. Sound(m) <=> Sound(w)
  BY <1>7, <1>8 DEF Sound
<1>11. ASSUME Printable(m) PROVE w = m
  <2>1. g = m.header
    BY <1>8, <1>11 DEF Printable
  <2> QED BY <1>1, <1>5, <2>1
<1> QED BY <1>7, <1>8, <1>9, <1>10, <1>11 DEF w

(* What parse_header makes of a message.                                   *)
HeaderOnly(m) == Message(m.kind, m.uri, m.code, HeaderReadAs(m.header), Payload)

(* The parts of a message's text.                                          *)
LEMMA MessageTextIs ==
  ASSUME NEW m, Printable(m)
  PROVE  LET t == MessageToString(m)
         IN /\ t.kind = m.kind /\ t.uri = m.uri /\ t.code = m.code
            /\ t.header = HeaderToString(m.header) /\ t.body = PayloadToString(m.payload)
<1>1. WithLength(m) = m
  BY LengthIsInt, LengthIsStored DEF Printable
<1> QED BY <1>1 DEF MessageToString

(* The header of a message is read if its URI can be and its text says it  *)
(* all.                                                                    *)
LEMMA MessageHeaderRead ==
  ASSUME NEW m, Printable(m)
  PROVE  ParseHeader(MessageToString(m)) =
           IF (m.kind = "REPLY" \/ ReadsURI(m.kind, m.uri)) /\ SoundGenerics(m.header.generic_headers)
                /\ m.header.cseq >= 0
           THEN {HeaderOnly(m)} ELSE {}
<1> DEFINE t == MessageToString(m)
           ok == m.kind = "REPLY" \/ ReadsURI(m.kind, m.uri)
           good == SoundGenerics(m.header.generic_headers) /\ m.header.cseq >= 0
           h == HeaderReadAs(m.header)
           S == IF t.kind = "REPLY" \/ ReadsURI(t.kind, t.uri) THEN ReadHeader(t.header) ELSE {}
<1>1. t.kind = m.kind /\ t.uri = m.uri /\ t.code = m.code /\ t.header = HeaderToString(m.header)
  BY MessageTextIs
<1>2. HeaderIsReadAs(m.header)
  BY LengthIsInt, HeaderIsReadBack DEF Printable, Whole
<1>3. ReadHeader(t.header) = IF good THEN {h} ELSE {}
  BY <1>1, <1>2, Zenon DEF HeaderIsReadAs
<1>4. ParseHeader(t) = {Message(t.kind, t.uri, t.code, x, Payload) : x \in S}
  BY Zenon DEF ParseHeader
<1> HIDE DEF t
<1>5. S = IF ok THEN ReadHeader(t.header) ELSE {}
  BY <1>1
<1> HIDE DEF S, ok, good, h
<1>6. S = IF ok /\ good THEN {h} ELSE {}
  BY <1>3, <1>5
<1>7. ParseHeader(t) = {Message(m.kind, m.uri, m.code, x, Payload) : x \in S}
  BY <1>1, <1>4
<1>8. CASE ok /\ good
  <2>1. ParseHeader(t) = {Message(m.kind, m.uri, m.code, h, Payload)}
    BY <1>6, <1>7, <1>8
  <2>2. HeaderOnly(m) = Message(m.kind, m.uri, m.code, h, Payload)
    BY Zenon DEF HeaderOnly, h
  <2> QED BY <1>8, <2>1, <2>2 DEF t, ok, good
<1>9. CASE ~(ok /\ good)
  <2>1. ParseHeader(t) = {}
    BY <1>6, <1>7, <1>9
  <2> QED BY <1>9, <2>1 DEF t, ok, good
<1> QED BY <1>8, <1>9

(* What is read of that header.                                            *)
LEMMA HeaderOnlyIs ==
  ASSUME NEW m, Printable(m)
  PROVE  LET h == HeaderOnly(m)
         IN /\ h.kind = m.kind /\ h.uri = m.uri /\ h.code = m.code /\ h.payload = Payload
            /\ h.header = HeaderReadAs(m.header) /\ h # NoMessage
            /\ h.header.content_length = Len(PayloadToString(m.payload))
            /\ HeldHeader(h.header)
            /\ SoundGenerics(m.header.generic_headers) /\ m.header.cseq >= 0 => SoundHeader(h.header)
<1> DEFINE h == HeaderOnly(m)
           x == HeaderReadAs(m.header)
<1>1. h = Message(m.kind, m.uri, m.code, x, Payload)
  BY Zenon DEF HeaderOnly
<1>2. /\ HeldHeader(x) /\ (SoundGenerics(m.header.generic_headers) /\ m.header.cseq >= 0 => SoundHeader(x))
      /\ x.content_length = m.header.content_length
  BY HeaderReadHeld DEF Printable, Whole
<1> HIDE DEF h, x
<1>3. h.kind = m.kind /\ h.uri = m.uri /\ h.code = m.code /\ h.payload = Payload /\ h.header = x /\ h # NoMessage
  BY <1>1, MessageFields
<1> QED BY <1>2, <1>3 DEF h, x, Printable

----------------------------------------------------------------------------
(* What is sound, in its parts.                                            *)
LEMMA SoundIs ==
  ASSUME NEW m
  PROVE  Sound(m) <=> /\ SoundHeader(m.header) /\ SoundPayload(m.kind, m.payload)
                      /\ m.kind \in Request => ReadsURI(m.kind, m.uri)
BY DEF Sound, SoundPayload

(* A message without a body is sound in it.                                *)
LEMMA NothingIsSound ==
  ASSUME NEW kind
  PROVE SoundPayload(kind, Payload)
<1>1. Payload.properties = <<>> /\ Payload.parameters = <<>> /\ Payload.errors = <<>>
  BY DEF Payload
<1>2. DOMAIN Payload.properties = {} /\ DOMAIN Payload.parameters = {} /\ DOMAIN Payload.errors = {}
  BY <1>1
<1> QED BY <1>2 DEF SoundPayload

(* With a body, the message read is the header with what is read of it.    *)
LEMMA BodyIsAdded ==
  ASSUME NEW m, Printable(m), NEW q \in ParsePayload(HeaderOnly(m), MessageToString(m))
  PROVE  /\ q = Message(m.kind, m.uri, m.code, HeaderReadAs(m.header), q.payload)
         /\ q.payload \in ReadPayload(LexerFor(HeaderOnly(m)), PayloadToString(m.payload))
         /\ HeldMessage(q) /\ q # NoMessage
<1> DEFINE t == MessageToString(m)
           h == HeaderOnly(m)
<1>1. t.kind = m.kind /\ t.uri = m.uri /\ t.code = m.code /\ t.body = PayloadToString(m.payload)
  BY MessageTextIs
<1>2. HeldText(t)
  BY TextHeld DEF Printable, Whole
<1>3. h.kind = m.kind /\ h.uri = m.uri /\ h.code = m.code /\ h.payload = Payload /\ h.header = HeaderReadAs(m.header)
  BY HeaderOnlyIs
<1>4. h = Message(m.kind, m.uri, m.code, HeaderReadAs(m.header), Payload)
  BY Zenon DEF HeaderOnly
<1>5. q \in ParsePayload(h, t)
  OBVIOUS
<1> HIDE DEF t, h
<1>6. h = Message(t.kind, t.uri, t.code, h.header, Payload)
  BY <1>1, <1>3, <1>4
<1>7. /\ q = Message(t.kind, t.uri, t.code, h.header, q.payload)
      /\ q.payload \in ReadPayload(LexerFor(h), t.body)
      /\ HeldMessage(q) /\ q # NoMessage
  BY <1>2, <1>5, <1>6, PayloadReadIsHeld
<1>8. q.payload \in ReadPayload(LexerFor(h), PayloadToString(m.payload))
  BY <1>1, <1>7
<1> QED BY <1>1, <1>3, <1>7, <1>8 DEF h

(* Whatever is read from a printed text is sound: it can be passed on.     *)
THEOREM ReadMessageIsSound ==
  ASSUME NEW m, Printable(m), NEW q, ReadFrom(MessageToString(m), q)
  PROVE  Sound(q) /\ Whole(q)
<1> DEFINE t == MessageToString(m)
           h == HeaderOnly(m)
           ok == m.kind = "REPLY" \/ ReadsURI(m.kind, m.uri)
           good == SoundGenerics(m.header.generic_headers) /\ m.header.cseq >= 0
<1>1. PICK x \in ParseHeader(t) : IF x.header.content_length = 0 THEN q = x ELSE q \in ParsePayload(x, t)
  BY DEF ReadFrom
<1>2. ParseHeader(t) = IF ok /\ good THEN {h} ELSE {}
  BY MessageHeaderRead
<1>3. /\ h.kind = m.kind /\ h.uri = m.uri /\ h.code = m.code /\ h.payload = Payload
      /\ h.header = HeaderReadAs(m.header) /\ h # NoMessage
      /\ HeldHeader(h.header) /\ (good => SoundHeader(h.header))
  BY HeaderOnlyIs
<1>4. h = Message(m.kind, m.uri, m.code, HeaderReadAs(m.header), Payload)
  BY Zenon DEF HeaderOnly
<1>5. m.kind \in Kinds /\ HeldIn(m.kind, m.code, m.payload)
  BY DEF Printable, Whole, HeldMessage
<1>6. m.kind \in Request => m.kind # "REPLY"
  BY DEF Request
<1> HIDE DEF t, h, ok, good
<1>7. x = h /\ ok /\ good
  BY <1>1, <1>2
<1>8. m.kind \in Request => ReadsURI(m.kind, m.uri)
  BY <1>6, <1>7 DEF ok
<1>9. CASE q = h
  <2>1. HeldMessage(q)
    BY <1>4, <1>9, EmptyPayload, IsHeldMessage
  <2>2. SoundPayload(q.kind, q.payload)
    BY <1>3, <1>9, NothingIsSound
  <2> QED BY <1>3, <1>5, <1>7, <1>8, <1>9, <2>1, <2>2, SoundIs DEF Whole
<1>10. CASE q \in ParsePayload(h, t)
  <2>1. /\ q = Message(m.kind, m.uri, m.code, HeaderReadAs(m.header), q.payload)
        /\ q.payload \in ReadPayload(LexerFor(h), PayloadToString(m.payload))
        /\ HeldMessage(q)
    BY <1>10, BodyIsAdded DEF t, h
  <2>2. q.kind = m.kind /\ q.uri = m.uri /\ q.header = HeaderReadAs(m.header)
    BY <2>1, MessageFields
  <2>3. h.kind \in Request \cup {"REPLY"} /\ HeldIn(h.kind, h.code, m.payload)
    BY <1>3, <1>5 DEF Kinds
  <2>4. SoundPayload(h.kind, q.payload)
    BY <1>3, <2>1, <2>3, ReadIsSound
  <2>5. SoundPayload(q.kind, q.payload)
    BY <1>3, <2>2, <2>4
  <2> QED BY <1>3, <1>5, <1>7, <1>8, <2>1, <2>2, <2>5, SoundIs DEF Whole
<1> QED BY <1>1, <1>7, <1>9, <1>10

(* A message that can be said is read, as one message and as no other.     *)
THEOREM MessageIsUnderstood ==
  ASSUME NEW m, Printable(m), SayableMessage(m), m.header.cseq >= 0
  PROVE  Understood(MessageToString(m), MessageReadAs(m))
<1> DEFINE t == MessageToString(m)
           h == HeaderOnly(m)
           r == MessageReadAs(m)
           body == PayloadToString(m.payload)
           p == PayloadReadAs(m.payload)
<1>1. m.kind \in Kinds /\ HeldIn(m.kind, m.code, m.payload)
  BY DEF Printable, Whole, HeldMessage
<1>2. m.kind = "REPLY" \/ ReadsURI(m.kind, m.uri)
  BY <1>1 DEF SayableMessage, Kinds
<1>3. ParseHeader(t) = {h}
  BY <1>2, MessageHeaderRead DEF SayableMessage
<1>4. /\ h.kind = m.kind /\ h.uri = m.uri /\ h.code = m.code /\ h.payload = Payload
      /\ h.header = HeaderReadAs(m.header) /\ h # NoMessage
      /\ h.header.content_length = Len(body)
  BY HeaderOnlyIs
<1>5. h = Message(m.kind, m.uri, m.code, HeaderReadAs(m.header), Payload)
  BY Zenon DEF HeaderOnly
<1>6. r = Message(m.kind, m.uri, m.code, HeaderReadAs(m.header), p)
  BY Zenon DEF MessageReadAs
<1>7. t.body = body
  BY MessageTextIs
<1>8. SayablePayload(m.kind, m.payload)
  BY DEF SayableMessage
<1> HIDE DEF t, h, r
<1>9. CASE Len(body) = 0
  <2>1. m.payload = Payload
    BY <1>1, <1>9, NoBody
  <2>2. p = Payload
    BY <2>1, NothingReadAs
  <2>3. h = r
    BY <1>5, <1>6, <2>2
  <2> QED BY <1>3, <1>4, <1>9, <2>3 DEF Understood, t, r
<1>10. CASE Len(body) # 0
  <2>1. h.kind \in Request \cup {"REPLY"} /\ HeldIn(h.kind, h.code, m.payload) /\ SayablePayload(h.kind, m.payload)
    BY <1>1, <1>4, <1>8 DEF Kinds
  <2>2. ReadPayload(LexerFor(h), body) = {p}
    BY <1>4, <1>10, <2>1, SayablePayloadIsRead
  <2>3. ParsePayload(h, t) = {[h EXCEPT !.payload = x] : x \in ReadPayload(LexerFor(h), t.body)}
    BY Zenon DEF ParsePayload
  <2> HIDE DEF body, p
  <2>4. ParsePayload(h, t) = {[h EXCEPT !.payload = p]}
    BY <1>7, <2>2, <2>3
  <2>5. [h EXCEPT !.payload = p] = r
    BY <1>5, <1>6 DEF Message
  <2>6. ParsePayload(h, t) = {r} /\ h.header.content_length # 0
    BY <1>4, <1>10, <2>4, <2>5
  <2> QED BY <1>3, <2>6 DEF Understood, t, r
<1> QED BY <1>9, <1>10

(* What is sound is said and read as it is.                                *)
LEMMA SoundIsRead ==
  ASSUME NEW m, Whole(m), Sound(m)
  PROVE  SayableMessage(m) /\ MessageReadAs(m) = m /\ m.header.cseq >= 0
<1>1. m = Message(m.kind, m.uri, m.code, m.header, m.payload) /\ HeldHeader(m.header) /\ HeldPayload(m.payload)
  BY DEF Whole, HeldMessage, HeldIn
<1>2. /\ SoundHeader(m.header) /\ SoundPayload(m.kind, m.payload)
      /\ m.kind \in Request => ReadsURI(m.kind, m.uri)
  BY SoundIs
<1>3. HeaderReadAs(m.header) = m.header /\ SoundGenerics(m.header.generic_headers)
      /\ m.header.cseq >= 0
  BY <1>1, <1>2, SoundHeaderIsRead
<1>4. SayablePayload(m.kind, m.payload) /\ PayloadReadAs(m.payload) = m.payload
  BY <1>1, <1>2, SoundIsSayable
<1>5. SayableMessage(m)
  BY <1>2, <1>3, <1>4 DEF SayableMessage
<1>6. MessageReadAs(m) = Message(m.kind, m.uri, m.code, HeaderReadAs(m.header), PayloadReadAs(m.payload))
  BY Zenon DEF MessageReadAs
<1>7. MessageReadAs(m) = m
  BY <1>1, <1>3, <1>4, <1>6
<1> QED BY <1>3, <1>5, <1>7

(* Saying is not changed by storing the length of the body.                *)
LEMMA LengthIsNotSaid ==
  ASSUME NEW m, Whole(m), SayableMessage(m), Len(PayloadToString(m.payload)) <= INT_MAX
  PROVE  SayableMessage(WithLength(m))
BY LengthIsStored DEF SayableMessage

----------------------------------------------------------------------------
(* The headers that are made are headers that can be held.                 *)
LEMMA HeaderMade ==
  ASSUME NEW q \in SInt, NEW n \in SInt, NEW t \in UInt, NEW s \in Strings, NEW v, HeldTransport(v),
         NEW y \in Strings, NEW w \in BOOLEAN, NEW ms \in Seq(MethodName), NEW g, HeldGenerics(g),
         NEW h, h = HeaderOf(q, n, t, s, v, y, w, ms, g)
  PROVE  HeldHeader(h) /\ h.generic_headers = g
<1>5. /\ h.cseq = q /\ h.content_length = n /\ h.timeout = t /\ h.session = s /\ h.transport = v
      /\ h.content_type = y /\ h.supported_methods = ms /\ h.generic_headers = g
  BY DEF HeaderOf
<1>6. h.require_wfd_support = w
  BY DEF HeaderOf
<1>7. h = HeaderOf(h.cseq, h.content_length, h.timeout, h.session, h.transport, h.content_type,
                   h.require_wfd_support, h.supported_methods, h.generic_headers)
  BY <1>5, <1>6
<1> QED BY <1>5, <1>6, <1>7 DEF HeldHeader

(* The empty header.                                                       *)
LEMMA NoHeader ==
  /\ Header = HeaderOf(0, 0, 0, Chars(<<>>), TransportHeader, Chars(<<>>), FALSE, <<>>, <<>>)
  /\ Chars(<<>>) \in Strings /\ HeldTransport(TransportHeader) /\ <<>> \in Seq(MethodName) /\ HeldGenerics(<<>>)
<1>1. Header = HeaderOf(0, 0, 0, Chars(<<>>), TransportHeader, Chars(<<>>), FALSE, <<>>, <<>>)
  BY DEF Header, HeaderOf
<1>2. HeldGenerics(<<>>)
  BY DEF HeldGenerics
<1> QED BY <1>1, <1>2, NoStringHeld, NoTransport

(* A header with a sequence number alone.                                  *)
LEMMA CSeqHeaderIs ==
  ASSUME NEW q
  PROVE  CSeqHeader(q) = HeaderOf(q, 0, 0, Chars(<<>>), TransportHeader, Chars(<<>>), FALSE, <<>>, <<>>)
<1> DEFINE E == Chars(<<>>)
           T == TransportHeader
           nil == <<>>
           no == FALSE
           z == 0
<1>1. Header = HeaderOf(z, z, z, E, T, E, no, nil, nil)
  BY NoHeader
<1>2. no \in BOOLEAN
  OBVIOUS
<1> HIDE DEF E, T, nil, no, z
<1>3. CSeqHeader(q) = HeaderOf(q, z, z, E, T, E, no, nil, nil)
  BY <1>1, <1>2 DEF CSeqHeader, HeaderOf
<1> QED BY <1>3 DEF E, T, nil, no, z

(* A number of a port fits into an int, whatever its sign.                 *)
LEMMA SmallFits ==
  ASSUME NEW n \in Nat, n <= 65535
  PROVE  n \in SInt /\ n \in UInt /\ n >= 0
BY Ranges

(* So do zero, the ends of the types, and the CSeq of the samples.         *)
LEMMA ZeroFits ==
  /\ 0 \in SInt /\ 0 \in UInt /\ -1 \in SInt /\ 5000 \in UInt
  /\ INT_MAX \in SInt /\ UINT_MAX \in UInt
BY Ranges

(* It can be held, and its text says it all if it is not negative.         *)
LEMMA CSeqHeaderHeld ==
  ASSUME NEW q \in SInt
  PROVE  HeldHeader(CSeqHeader(q)) /\ CSeqHeader(q).generic_headers = <<>>
<1> DEFINE E == Chars(<<>>)
           T == TransportHeader
           nil == <<>>
           no == FALSE
           z == 0
           h == CSeqHeader(q)
<1>1. h = HeaderOf(q, z, z, E, T, E, no, nil, nil)
  BY CSeqHeaderIs
<1>2. no \in BOOLEAN /\ z \in SInt /\ z \in UInt
  BY ZeroFits
<1>3. E \in Strings /\ HeldTransport(T) /\ nil \in Seq(MethodName) /\ HeldGenerics(nil)
  BY NoHeader
<1> HIDE DEF E, T, nil, no, h, z
<1>4. HeldHeader(h) /\ h.generic_headers = nil
  BY <1>1, <1>2, <1>3, HeaderMade
<1> QED BY <1>4 DEF h, nil

(* So can the empty header.                                                *)
LEMMA HeaderItselfHeld == HeldHeader(Header) /\ SoundHeader(Header)
<1> DEFINE no == FALSE
           z == 0
<1>1. Header = HeaderOf(z, z, z, Chars(<<>>), TransportHeader, Chars(<<>>), no, <<>>, <<>>)
  BY NoHeader
<1>2. no \in BOOLEAN /\ z \in SInt /\ z >= 0
  BY ZeroFits
<1> DEFINE h == Header
<1>3. h = HeaderOf(z, z, z, Chars(<<>>), TransportHeader, Chars(<<>>), no, <<>>, <<>>)
  BY <1>1
<1> HIDE DEF no, h
<1>4. HeldHeader(h) /\ SoundHeader(h)
  BY <1>2, <1>3, PlainHeader
<1> QED BY <1>4 DEF h

(* The strings of the samples.                                             *)
LEMMA StringsOf ==
  /\ \A s \in Seq(Nat) : Chars(s) \in Strings
  /\ <<1>> \in Seq(Nat) /\ <<1, 2>> \in Seq(Nat) /\ <<1, 2, 3>> \in Seq(Nat) /\ <<>> \in Seq(Nat)
  /\ Repeated(1, 8) \in Seq(Nat) /\ Repeated(3, 1) \in Seq(Nat) /\ Repeated(3, 2) \in Seq(Nat)
<1>1. \A s \in Seq(Nat) : Chars(s) \in Strings
  BY Zenon DEF Strings
<1>2. 1 \in Nat /\ 2 \in Nat /\ 3 \in Nat /\ 8 \in Nat
  OBVIOUS
<1>3. Repeated(1, 8) \in Seq(Nat)
  BY <1>2, RepeatedTokens
<1>4. Repeated(3, 1) \in Seq(Nat) /\ Repeated(3, 2) \in Seq(Nat)
  BY <1>2, RepeatedTokens
<1>5. <<1>> \in Seq(Nat) /\ <<1, 2>> \in Seq(Nat) /\ <<1, 2, 3>> \in Seq(Nat) /\ <<>> \in Seq(Nat)
  OBVIOUS
<1> QED BY <1>1, <1>3, <1>4, <1>5

(* The sample headers with a session can be held.                          *)
LEMMA SessionHeadersHeld ==
  ASSUME NEW s \in {<<>>, << 1 >>, <<1, 2>>}, NEW t \in {0, UINT_MAX}, NEW r \in BOOLEAN
  PROVE  HeldHeader([CSeqHeader(INT_MAX) EXCEPT !.session = Chars(s), !.timeout = t, !.require_wfd_support = r])
<1> DEFINE E == Chars(<<>>)
           T == TransportHeader
           nil == <<>>
           no == FALSE
           z == 0
           q == INT_MAX
           x == Chars(s)
<1>1. CSeqHeader(q) = HeaderOf(q, z, z, E, T, E, no, nil, nil)
  BY CSeqHeaderIs
<1>2. no \in BOOLEAN /\ q \in SInt /\ z \in SInt /\ z \in UInt /\ t \in UInt
  BY ZeroFits
<1>3. x \in Strings
  BY StringsOf
<1>4. E \in Strings /\ HeldTransport(T) /\ nil \in Seq(MethodName) /\ HeldGenerics(nil)
  BY NoHeader
<1> HIDE DEF E, T, nil, no, z, q, x
<1> DEFINE a == CSeqHeader(q)
           b == [a EXCEPT !.session = x]
           c == [b EXCEPT !.timeout = t]
           d == [c EXCEPT !.require_wfd_support = r]
<1>5. a = HeaderOf(q, z, z, E, T, E, no, nil, nil)
  BY <1>1
<1> HIDE DEF a
<1>6. b = HeaderOf(q, z, z, x, T, E, no, nil, nil)
  BY <1>5, <1>2 DEF HeaderOf
<1> HIDE DEF b
<1>7. c = HeaderOf(q, z, t, x, T, E, no, nil, nil)
  BY <1>6, <1>2 DEF HeaderOf
<1> HIDE DEF c
<1>8. d = HeaderOf(q, z, t, x, T, E, r, nil, nil)
  BY <1>7, <1>2 DEF HeaderOf
<1> HIDE DEF d
<1>9. HeldHeader(d)
  BY <1>2, <1>3, <1>4, <1>8, HeaderMade
<1>10. [CSeqHeader(q) EXCEPT !.session = x, !.timeout = t, !.require_wfd_support = r] = d
  BY DEF a, b, c, d
<1> QED BY <1>9, <1>10 DEF q, x

(* Any two ports can be held.                                              *)
LEMMA TransportIsHeld ==
  ASSUME NEW a \in UInt, NEW b \in BOOLEAN, NEW c \in UInt, NEW d \in BOOLEAN
  PROVE  HeldTransport(TransportOf(a, b, c, d))
<1> DEFINE t == TransportOf(a, b, c, d)
<1>1. t.client_port = a /\ t.server_port = c
  BY DEF TransportOf
<1>2. t.client_rtcp = b
  BY DEF TransportOf
<1>3. t.server_rtcp = d
  BY DEF TransportOf
<1> HIDE DEF t
<1>4. t = TransportOf(t.client_port, t.client_rtcp, t.server_port, t.server_rtcp)
  BY <1>1, <1>2, <1>3 DEF t
<1> QED BY <1>1, <1>2, <1>3, <1>4 DEF HeldTransport, t

(* A header with ports can be held.                                        *)
LEMMA TransportHeadersHeld ==
  ASSUME NEW q \in SInt, NEW v, HeldTransport(v)
  PROVE  /\ HeldHeader([CSeqHeader(q) EXCEPT !.transport = v])
         /\ [CSeqHeader(q) EXCEPT !.transport = v].generic_headers = <<>>
         /\ HeldHeader([Header EXCEPT !.transport = v])
<1> DEFINE E == Chars(<<>>)
           T == TransportHeader
           nil == <<>>
           no == FALSE
           z == 0
           a == [CSeqHeader(q) EXCEPT !.transport = v]
           b == [Header EXCEPT !.transport = v]
<1>1. Header = HeaderOf(z, z, z, E, T, E, no, nil, nil)
  BY NoHeader
<1>2. no \in BOOLEAN /\ z \in SInt /\ z \in UInt
  BY ZeroFits
<1>3. E \in Strings /\ HeldTransport(T) /\ nil \in Seq(MethodName) /\ HeldGenerics(nil)
  BY NoHeader
<1>4. CSeqHeader(q) = HeaderOf(q, z, z, E, T, E, no, nil, nil)
  BY CSeqHeaderIs
<1> HIDE DEF E, T, nil, no, z
<1>5. a = HeaderOf(q, z, z, E, v, E, no, nil, nil)
  BY <1>2, <1>4 DEF HeaderOf
<1>6. b = HeaderOf(z, z, z, E, v, E, no, nil, nil)
  BY <1>1, <1>2 DEF HeaderOf
<1> HIDE DEF a, b
<1>7. HeldHeader(a) /\ a.generic_headers = nil
  BY <1>2, <1>3, <1>5, HeaderMade
<1>8. HeldHeader(b)
  BY <1>2, <1>3, <1>6, HeaderMade
<1> QED BY <1>7, <1>8 DEF a, b, nil

(* A header with a session can be held.                                    *)
LEMMA SessionHeader ==
  ASSUME NEW q \in SInt, NEW s \in Strings, NEW v, HeldTransport(v)
  PROVE  /\ HeldHeader([CSeqHeader(q) EXCEPT !.session = s])
         /\ [CSeqHeader(q) EXCEPT !.session = s].generic_headers = <<>>
         /\ HeldHeader([CSeqHeader(q) EXCEPT !.session = s, !.transport = v])
         /\ [CSeqHeader(q) EXCEPT !.session = s, !.transport = v].generic_headers = <<>>
<1> DEFINE E == Chars(<<>>)
           T == TransportHeader
           nil == <<>>
           no == FALSE
           z == 0
           a == [CSeqHeader(q) EXCEPT !.session = s]
           b == [a EXCEPT !.transport = v]
<1>2. no \in BOOLEAN /\ z \in SInt /\ z \in UInt
  BY ZeroFits
<1>3. E \in Strings /\ HeldTransport(T) /\ nil \in Seq(MethodName) /\ HeldGenerics(nil)
  BY NoHeader
<1>4. CSeqHeader(q) = HeaderOf(q, z, z, E, T, E, no, nil, nil)
  BY CSeqHeaderIs
<1> HIDE DEF E, T, nil, no, z
<1>5. a = HeaderOf(q, z, z, s, T, E, no, nil, nil)
  BY <1>2, <1>4 DEF HeaderOf
<1>9. [CSeqHeader(q) EXCEPT !.session = s, !.transport = v] = b
  BY DEF b
<1> HIDE DEF a
<1>6. b = HeaderOf(q, z, z, s, v, E, no, nil, nil)
  BY <1>5, <1>2 DEF HeaderOf
<1> HIDE DEF b
<1>7. HeldHeader(a) /\ a.generic_headers = nil
  BY <1>2, <1>3, <1>5, HeaderMade
<1>8. HeldHeader(b) /\ b.generic_headers = nil
  BY <1>2, <1>3, <1>6, HeaderMade
<1> QED BY <1>7, <1>8, <1>9 DEF a, nil

(* A header with methods can be held.                                      *)
LEMMA MethodsHeader ==
  ASSUME NEW q \in SInt, NEW ms \in Seq(MethodName), NEW r \in BOOLEAN
  PROVE  /\ HeldHeader([CSeqHeader(q) EXCEPT !.supported_methods = ms])
         /\ [CSeqHeader(q) EXCEPT !.supported_methods = ms].generic_headers = <<>>
         /\ HeldHeader([CSeqHeader(q) EXCEPT !.require_wfd_support = r])
         /\ [CSeqHeader(q) EXCEPT !.require_wfd_support = r].generic_headers = <<>>
<1> DEFINE E == Chars(<<>>)
           T == TransportHeader
           nil == <<>>
           no == FALSE
           z == 0
           a == [CSeqHeader(q) EXCEPT !.supported_methods = ms]
           b == [CSeqHeader(q) EXCEPT !.require_wfd_support = r]
<1>2. no \in BOOLEAN /\ z \in SInt /\ z \in UInt
  BY ZeroFits
<1>3. E \in Strings /\ HeldTransport(T) /\ nil \in Seq(MethodName) /\ HeldGenerics(nil)
  BY NoHeader
<1>4. CSeqHeader(q) = HeaderOf(q, z, z, E, T, E, no, nil, nil)
  BY CSeqHeaderIs
<1> HIDE DEF E, T, nil, no, z
<1>5. a = HeaderOf(q, z, z, E, T, E, no, ms, nil)
  BY <1>2, <1>4 DEF HeaderOf
<1>6. b = HeaderOf(q, z, z, E, T, E, r, nil, nil)
  BY <1>2, <1>4 DEF HeaderOf
<1> HIDE DEF a, b
<1>7. HeldHeader(a) /\ a.generic_headers = nil
  BY <1>2, <1>3, <1>5, HeaderMade
<1>8. HeldHeader(b) /\ b.generic_headers = nil
  BY <1>2, <1>3, <1>6, HeaderMade
<1> QED BY <1>7, <1>8 DEF a, b, nil

(* The methods the programs name are methods of the exchange.              *)
LEMMA MethodsKnown ==
  /\ <<>> \in Seq(MethodName) /\ <<"org.wfa.wfd1.0">> \in Seq(MethodName)
  /\ <<"SETUP", "PLAY", "PAUSE">> \in Seq(MethodName)
  /\ SinkMethods \in Seq(MethodName) /\ SourceMethods \in Seq(MethodName)
<1> DEFINE a == "org.wfa.wfd1.0"
           b == "GET_PARAMETER"
           c == "SET_PARAMETER"
           d == "SETUP"
           e == "PLAY"
           f == "PAUSE"
           g == "TEARDOWN"
           M == MethodName
<1>1. a \in M /\ b \in M /\ c \in M /\ d \in M /\ e \in M /\ f \in M /\ g \in M
  BY DEF MethodName
<1> HIDE DEF a, b, c, d, e, f, g, M
<1>2. <<>> \in Seq(M) /\ <<a>> \in Seq(M) /\ <<d, e, f>> \in Seq(M) /\ <<a, b, c>> \in Seq(M) /\ <<d, g, e, f>> \in Seq(M)
  BY <1>1
<1> DEFINE s == <<a, b, c>>
           t == <<d, g, e, f>>
<1>3. SinkMethods = s /\ SourceMethods = s \o t
  BY DEF SinkMethods, SourceMethods, a, b, c, d, e, f, g
<1> HIDE DEF s, t
<1>4. s \o t \in Seq(M)
  BY <1>2 DEF s, t
<1> QED BY <1>2, <1>3, <1>4 DEF M, a, d, e, f, s

(* The sample headers with a line no production names can be held.         *)
LEMMA VendorHeadersHeld ==
  ASSUME NEW ms \in {<<>>, <<"org.wfa.wfd1.0">>, <<"SETUP", "PLAY", "PAUSE">>}, NEW n \in 1 .. 2
  PROVE  HeldHeader([Header EXCEPT !.content_type = Chars(<<1, 2, 3>>), !.supported_methods = ms,
                                   !.generic_headers = Put(<<>>, "Server", Chars(Repeated(3, n)))])
<1> DEFINE E == Chars(<<>>)
           T == TransportHeader
           nil == <<>>
           no == FALSE
           z == 0
           y == Chars(<<1, 2, 3>>)
           s == Repeated(3, n)
           v == Put(<<>>, "Server", Chars(s))
<1>1. Header = HeaderOf(z, z, z, E, T, E, no, nil, nil)
  BY NoHeader
<1>2. no \in BOOLEAN /\ z \in SInt /\ z \in UInt
  BY ZeroFits
<1>3. y \in Strings
  BY StringsOf
<1>4. E \in Strings /\ HeldTransport(T) /\ nil \in Seq(MethodName) /\ HeldGenerics(nil)
  BY NoHeader
<1>5. s \in Seq(Nat)
  BY StringsOf
<1>6. HeldGenerics(v)
  BY <1>5 DEF HeldGenerics
<1>7. ms \in Seq(MethodName)
  BY MethodsKnown
<1> HIDE DEF E, T, nil, no, z, y, v
<1> DEFINE a == [Header EXCEPT !.content_type = y]
           b == [a EXCEPT !.supported_methods = ms]
           c == [b EXCEPT !.generic_headers = v]
<1>8. a = HeaderOf(z, z, z, E, T, y, no, nil, nil)
  BY <1>1, <1>2 DEF HeaderOf
<1>9. [Header EXCEPT !.content_type = y, !.supported_methods = ms, !.generic_headers = v] = c
  BY DEF a, b, c
<1> HIDE DEF a
<1>10. b = HeaderOf(z, z, z, E, T, y, no, ms, nil)
  BY <1>8, <1>2 DEF HeaderOf
<1> HIDE DEF b
<1>11. c = HeaderOf(z, z, z, E, T, y, no, ms, v)
  BY <1>10, <1>2 DEF HeaderOf
<1> HIDE DEF c
<1>12. HeldHeader(c)
  BY <1>2, <1>3, <1>4, <1>6, <1>7, <1>11, HeaderMade
<1> QED BY <1>9, <1>12 DEF y, v

(* Every sample header can be held.                                        *)
LEMMA SampleHeadersHeld ==
  ASSUME NEW h \in SampleHeaders
  PROVE  HeldHeader(h)
<1> DEFINE A == {SessionSample(s, t, r) : s \in {<<>>, << 1 >>, <<1, 2>>}, t \in {0, UINT_MAX}, r \in BOOLEAN}
           B == {TransportSample(c, cr, s, sr) :
                   c \in {0, 5000, UINT_MAX}, cr \in BOOLEAN, s \in {0, UINT_MAX}, sr \in BOOLEAN}
           C == {VendorSample(ms, n) :
                   ms \in {<<>>, <<"org.wfa.wfd1.0">>, <<"SETUP", "PLAY", "PAUSE">>}, n \in 1 .. 2}
           D == {CSeqHeader(n) : n \in {-1, 0}}
<1>1. h \in A \/ h \in B \/ h \in C \/ h \in D
  BY DEF SampleHeaders
<1>2. ASSUME h \in A PROVE HeldHeader(h)
  <2>1. \A s \in {<<>>, << 1 >>, <<1, 2>>}, t \in {0, UINT_MAX}, r \in BOOLEAN : HeldHeader(SessionSample(s, t, r))
    BY SessionHeadersHeld DEF SessionSample
  <2> QED BY <1>2, <2>1
<1>3. ASSUME h \in B PROVE HeldHeader(h)
  <2>1. \A c \in UInt, cr \in BOOLEAN, s \in UInt, sr \in BOOLEAN : HeldHeader(TransportSample(c, cr, s, sr))
    <3> TAKE c \in UInt, cr \in BOOLEAN, s \in UInt, sr \in BOOLEAN
    <3> DEFINE v == TransportOf(c, cr, s, sr)
    <3>1. HeldTransport(v)
      BY TransportIsHeld
    <3>2. TransportSample(c, cr, s, sr) = [Header EXCEPT !.transport = v]
      BY DEF TransportSample, TransportOf
    <3>3. 0 \in SInt
      BY ZeroFits
    <3> HIDE DEF v
    <3> QED BY <3>1, <3>2, <3>3, TransportHeadersHeld
  <2>2. {0, 5000, UINT_MAX} \subseteq UInt /\ {0, UINT_MAX} \subseteq UInt
    BY ZeroFits
  <2>3. PICK c \in {0, 5000, UINT_MAX}, cr \in BOOLEAN, s \in {0, UINT_MAX}, sr \in BOOLEAN : h = TransportSample(c, cr, s, sr)
    BY <1>3
  <2> QED BY <2>1, <2>2, <2>3
<1>4. ASSUME h \in C PROVE HeldHeader(h)
  <2>1. \A ms \in {<<>>, <<"org.wfa.wfd1.0">>, <<"SETUP", "PLAY", "PAUSE">>}, n \in 1 .. 2 : HeldHeader(VendorSample(ms, n))
    BY VendorHeadersHeld DEF VendorSample
  <2> QED BY <1>4, <2>1
<1>5. ASSUME h \in D PROVE HeldHeader(h)
  <2>1. PICK n \in {-1, 0} : h = CSeqHeader(n)
    BY <1>5
  <2>2. n \in SInt
    BY ZeroFits
  <2> QED BY <2>1, <2>2, CSeqHeaderHeld
<1> QED BY <1>1, <1>2, <1>3, <1>4, <1>5

----------------------------------------------------------------------------
(* What the programs put into a message can be said.                       *)
LEMMA SinkCodecIsSound ==
  ASSUME NEW profile \in 1 .. 15
  PROVE  SoundCodec(H264CodecDigits, SinkCodec(profile))
<1> DEFINE c == SinkCodec(profile)
           D == H264CodecDigits
           m == 9
<1>1. c \in Vectors(H264Codec) /\ \A i \in 1 .. 11 : Len(c[i].num) <= D[i]
  BY SinkCodecHeld
<1>2. /\ D \in Seq(1 .. 16) /\ Len(D) = 11 /\ Len(H264Codec) = 11 /\ D[10] = 4 /\ D[11] = 4
  BY H264CodecTypes DEF CodecTypes, H264CodecDigits
<1>3. c \in Seq(Number(16)) /\ Len(c) = 11
  BY <1>1, <1>2 DEF Vectors
<1>4. m \in {7, 9, 21} /\ m + 2 = 11 /\ m + 1 = 10 /\ 1 .. m \subseteq 1 .. 11 /\ 10 \in 1 .. 11 /\ 11 \in 1 .. 11
  OBVIOUS
<1> HIDE DEF c, D, m
<1>5. SoundCodec(D, c) <=>
           /\ \A i \in 1 .. m : Len(c[i].num) <= D[i]
           /\ c[m + 1] = MinusOne(INT) \/ Len(c[m + 1].num) <= 4
           /\ c[m + 2] = MinusOne(INT) \/ Len(c[m + 2].num) <= 4
  <2>1. Len(D) = m + 2 /\ Len(c) = m + 2
    BY <1>2, <1>3, <1>4
  <2> QED BY <1>2, <1>3, <1>4, <2>1, SoundCodecFields
<1>6. Len(c[10].num) <= 4 /\ Len(c[11].num) <= 4
  BY <1>1, <1>2, <1>4
<1> QED BY <1>1, <1>4, <1>5, <1>6 DEF c, D

(* The text of the sink's video formats says it all.                       *)
LEMMA SinkFormatsSound ==
  SoundProperty(Property("wfd_video_formats", <<Num(<<4, 0>>), Num(<<>>)>>, <<SinkCodec(1), SinkCodec(2)>>))
<1> DEFINE a == SinkCodec(1)
           b == SinkCodec(2)
           cs == <<a, b>>
           ms == <<Num(<<4, 0>>), Num(<<>>)>>
           p == Property("wfd_video_formats", ms, cs)
           D == H264CodecDigits
<1>1. SoundCodec(D, a) /\ SoundCodec(D, b)
  <2>1. 1 \in 1 .. 15 /\ 2 \in 1 .. 15
    OBVIOUS
  <2> QED BY <2>1, SinkCodecIsSound
<1>2. cs # <<>> /\ \A i \in DOMAIN cs : cs[i] = a \/ cs[i] = b
  OBVIOUS
<1>3. Fits(<<2, 2>>, ms)
  <2> DEFINE d == <<2, 2>>
             x == <<4, 0>>
             y == <<>>
             v == <<Num(x), Num(y)>>
  <2>1. Len(x) = 2 /\ Len(y) = 0 /\ DOMAIN d = {1, 2} /\ d[1] = 2 /\ d[2] = 2
    OBVIOUS
  <2> HIDE DEF x, y
  <2>2. v[1].num = x /\ v[2].num = y
    BY DEF Num
  <2> HIDE DEF v, d
  <2>6. Len(v[1].num) = 2 /\ Len(v[2].num) = 0 /\ d[1] = 2 /\ d[2] = 2
    BY <2>1, <2>2, Zenon
  <2>4. Len(v[1].num) <= d[1] /\ Len(v[2].num) <= d[2]
    BY <2>6
  <2>5. \A i \in DOMAIN d : Len(v[i].num) <= d[i]
    BY <2>1, <2>4
  <2>3. Fits(d, v)
    BY <2>5, Zenon DEF Fits
  <2> QED BY <2>3 DEF d, v, x, y
<1> HIDE DEF a, b, cs, ms, D
<1>4. p.type = "wfd_video_formats" /\ p.none \in BOOLEAN /\ p.members = ms /\ p.lists = cs
  BY DEF Property
<1> HIDE DEF p
<1>5. \A i \in DOMAIN cs : SoundCodec(D, cs[i])
  BY <1>1, <1>2
<1>6. SoundFormats(D, p)
  BY <1>2, <1>3, <1>4, <1>5 DEF SoundFormats
<1>7. SoundProperty(p)
  BY <1>4, <1>6, SoundnessByName DEF D
<1> QED BY <1>7 DEF p, a, b, cs, ms

(* The text of the sink's audio codecs says it all.                        *)
LEMMA SinkCodecsSound ==
  SoundProperty(Property("wfd_audio_codecs", <<>>, << <<Word("LPCM"), Num(<<3>>), Num(<<>>)>>,
                                                      <<Word("AAC"), Num(<<15>>), Num(<<>>)>>,
                                                      <<Word("AC3"), Num(<<7>>), Num(<<>>)>> >>))
<1> DEFINE z == Num(<<>>)
           a == <<Word("LPCM"), Num(<<3>>), z>>
           b == <<Word("AAC"), Num(<<15>>), z>>
           c == <<Word("AC3"), Num(<<7>>), z>>
           cs == <<a, b, c>>
           ms == <<>>
           p == Property("wfd_audio_codecs", ms, cs)
<1>1. Len(z.num) <= 2
  BY DEF Num
<1> HIDE DEF z
<1>2. a[3] = z /\ b[3] = z /\ c[3] = z
  OBVIOUS
<1> HIDE DEF a, b, c
<1>3. cs # <<>> /\ \A i \in DOMAIN cs : cs[i] = a \/ cs[i] = b \/ cs[i] = c
  OBVIOUS
<1> HIDE DEF cs, ms
<1>4. p.type = "wfd_audio_codecs" /\ p.none = FALSE /\ p.lists = cs
  BY DEF Property
<1> HIDE DEF p
<1>5. \A i \in DOMAIN cs : Len(cs[i][3].num) <= 2
  BY <1>1, <1>2, <1>3
<1>6. SoundProperty(p)
  BY <1>3, <1>4, <1>5 DEF SoundProperty
<1> QED BY <1>6 DEF p, cs, ms, a, b, c, z

(* So does the text of what the sink has not.                              *)
LEMMA NoneIsSound ==
  ASSUME NEW name \in SinkNone
  PROVE  SoundProperty(NoneProperty(name))
<1> DEFINE p == NoneProperty(name)
<1>1. p.type = name /\ p.none = TRUE
  BY PropertyFields
<1>2. p.none \in BOOLEAN
  BY <1>1
<1> HIDE DEF p
<1>3. \/ name = "wfd_3d_video_formats" \/ name = "wfd_content_protection" \/ name = "wfd_display_edid"
      \/ name = "wfd_coupled_sink" \/ name = "wfd_uibc_capability" \/ name = "wfd_connector_type"
  BY DEF SinkNone
<1>4. name = "wfd_3d_video_formats" => SoundProperty(p)
  BY <1>1, <1>2, SoundnessByName DEF SoundFormats
<1>5. name = "wfd_content_protection" => SoundProperty(p)
  BY <1>1, <1>2, SoundnessByName
<1>6. name = "wfd_display_edid" => SoundProperty(p)
  BY <1>1, <1>2, SoundnessByName
<1>7. name = "wfd_coupled_sink" => SoundProperty(p)
  BY <1>1, <1>2, SoundnessByName
<1>8. name = "wfd_uibc_capability" => SoundProperty(p)
  BY <1>1, <1>2, SoundnessByName
<1>9. name = "wfd_connector_type" => SoundProperty(p)
  BY <1>1, <1>2, SoundnessByName
<1>10. SoundProperty(p)
  BY <1>3, <1>4, <1>5, <1>6, <1>7, <1>8, <1>9
<1> QED BY <1>10 DEF p

(* So do those of the other properties the programs send.                  *)
LEMMA OthersAreSound ==
  /\ SoundProperty(StandbyResumeCapability(FALSE))
  /\ \A a, b : SoundProperty(ClientRtpPorts(a, b))
  /\ SoundProperty(PresentationUrl(Url(0, TRUE), NONE))
  /\ \A w : SoundProperty(Property("wfd_trigger_method", <<Word(w)>>, <<>>))
<1>1. SoundProperty(StandbyResumeCapability(FALSE))
  <2> DEFINE p == StandbyResumeCapability(FALSE)
  <2>1. p.type = "wfd_standby_resume_capability" /\ p.none \in BOOLEAN
    BY DEF StandbyResumeCapability, NoneProperty
  <2> HIDE DEF p
  <2>2. SoundProperty(p)
    BY <2>1, SoundnessByName
  <2> QED BY <2>2 DEF p
<1>2. ASSUME NEW a, NEW b PROVE SoundProperty(ClientRtpPorts(a, b))
  <2> DEFINE p == ClientRtpPorts(a, b)
  <2>1. p.type = "wfd_client_rtp_ports" /\ p.none \in BOOLEAN
    BY DEF ClientRtpPorts, Property
  <2> HIDE DEF p
  <2>2. SoundProperty(p)
    BY <2>1, SoundnessByName
  <2> QED BY <2>2 DEF p
<1>3. SoundProperty(PresentationUrl(Url(0, TRUE), NONE))
  <2> DEFINE u == Url(0, TRUE)
             ms == <<u, NONE>>
             p == PresentationUrl(u, NONE)
  <2>1. p.type = "wfd_presentation_url" /\ p.none \in BOOLEAN /\ p.members = ms
    BY DEF PresentationUrl, Property
  <2>2. u.address
    BY DEF Url
  <2> HIDE DEF u
  <2>3. ms[1] = u /\ ms[2] = NONE /\ \A i \in 1 .. 2 : i = 1 \/ i = 2
    OBVIOUS
  <2> HIDE DEF p, ms
  <2>4. \A i \in 1 .. 2 : p.members[i] = NONE \/ p.members[i].address
    BY <2>1, <2>2, <2>3
  <2>5. SoundProperty(p)
    BY <2>1, <2>4, SoundnessByName
  <2> QED BY <2>5 DEF p, u
<1>4. ASSUME NEW w PROVE SoundProperty(Property("wfd_trigger_method", <<Word(w)>>, <<>>))
  <2> DEFINE p == Property("wfd_trigger_method", <<Word(w)>>, <<>>)
  <2>1. p.type = "wfd_trigger_method" /\ p.none \in BOOLEAN
    BY DEF Property
  <2> HIDE DEF p
  <2>2. SoundProperty(p)
    BY <2>1, SoundnessByName
  <2> QED BY <2>2 DEF p
<1> QED BY <1>1, <1>2, <1>3, <1>4

(* What the sink answers can be said.                                      *)
LEMMA SinkPropertySayable ==
  ASSUME NEW name \in Names, NEW p \in SinkProperty(name)
  PROVE  Sayable(p)
<1>1. CASE name = "wfd_audio_codecs"
  <2>1. SoundProperty(p)
    BY <1>1, SinkPropertyIs, SinkCodecsSound
  <2> QED BY <2>1 DEF Sayable
<1>2. CASE name = "wfd_video_formats"
  <2>1. SoundProperty(p)
    BY <1>2, SinkPropertyIs, SinkFormatsSound
  <2> QED BY <2>1 DEF Sayable
<1>3. CASE name = "wfd_client_rtp_ports"
  <2>1. SinkProperty(name) = {ClientRtpPorts(SinkUdpPort, 0)}
    BY <1>3, SinkPropertyIs, Zenon
  <2>2. p = ClientRtpPorts(SinkUdpPort, 0)
    BY <2>1
  <2>3. SoundProperty(p)
    BY <2>2, OthersAreSound
  <2> QED BY <2>3 DEF Sayable
<1>4. CASE name = "wfd_I2C"
  <2>1. SinkProperty(name) = {I2C(Dec(0))}
    BY <1>4, SinkPropertyIs, Zenon
  <2>3. p = NoPort
    BY <2>1 DEF NoPort
  <2> QED BY <2>3 DEF Sayable
<1>5. CASE name = "wfd_standby_resume_capability"
  <2>1. SinkProperty(name) = {StandbyResumeCapability(FALSE)}
    BY <1>5, SinkPropertyIs, Zenon
  <2>2. p = StandbyResumeCapability(FALSE)
    BY <2>1
  <2>3. SoundProperty(p)
    BY <2>2, OthersAreSound
  <2> QED BY <2>3 DEF Sayable
<1>6. CASE name \in SinkNone
  <2>1. p = NoneProperty(name)
    BY <1>6, SinkPropertyIs
  <2> QED BY <1>6, <2>1, NoneIsSound DEF Sayable
<1>7. ASSUME name \notin SinkNone, name # "wfd_audio_codecs", name # "wfd_video_formats", name # "wfd_client_rtp_ports",
             name # "wfd_I2C", name # "wfd_standby_resume_capability"
      PROVE  SinkProperty(name) = {}
  BY <1>7 DEF SinkProperty
<1> QED BY <1>1, <1>2, <1>3, <1>4, <1>5, <1>6, <1>7

----------------------------------------------------------------------------
(* Whole messages, and those that can be said.                             *)
LEMMA RequestWhole ==
  ASSUME NEW kind \in Request, NEW uri, NEW h, HeldHeader(h), NEW p,
         HeldMessage(NewRequest(kind, uri, h, p))
  PROVE  Whole(NewRequest(kind, uri, h, p))
<1> DEFINE m == NewRequest(kind, uri, h, p)
<1>1. m = Message(kind, uri, 0, h, p)
  BY DEF NewRequest
<1> HIDE DEF m
<1>2. m.kind = kind /\ m.header = h
  BY <1>1, MessageFields
<1>3. Whole(m)
  BY <1>2 DEF Whole, Kinds, m
<1> QED BY <1>3 DEF m

(* A reply with a header that can be held is whole.                        *)
LEMMA ReplyWhole ==
  ASSUME NEW code, NEW h, HeldHeader(h), NEW p, HeldMessage(NewReply(code, h, p))
  PROVE  Whole(NewReply(code, h, p))
<1> DEFINE m == NewReply(code, h, p)
<1>1. m = Message("REPLY", Chars(<<>>), code, h, p)
  BY DEF NewReply
<1> HIDE DEF m
<1>2. m.kind = "REPLY" /\ m.header = h
  BY <1>1, MessageFields
<1>3. Whole(m)
  BY <1>2 DEF Whole, Kinds, m
<1> QED BY <1>3 DEF m

(* The sample messages are whole.                                          *)
LEMMA SampleMessagesWhole ==
  ASSUME NEW m \in SampleMessages
  PROVE  Whole(m)
<1>0. HeldMessage(m) /\ HeldHeader(Header)
  BY SampleMessagesHeld, HeaderItselfHeld
<1> DEFINE Asked(ns) == [Payload EXCEPT !.parameters = ns]
           N == {<<n>> : n \in PropertyName} \cup {<<n, "vendor_key">> : n \in PropertyName}
           S1 == {NewRequest("SET_PARAMETER", URI, Header, p) : p \in SamplePayloads}
           S2 == {NewReply(200, Header, p) : p \in SamplePayloads}
           S3 == {NewReply(303, Header, p) : p \in SampleErrors}
           S4 == {NewRequest("GET_PARAMETER", URI, Header, [Payload EXCEPT !.parameters = ns]) : ns \in N}
           S5 == {NewRequest(k, u, Header, Payload) : k \in Request, u \in {Star, URI, Chars(<<>>)}}
           S6 == {NewReply(200, h, Payload) : h \in SampleHeaders}
<1>7. SampleMessages = S1 \cup S2 \cup S3 \cup S4 \cup S5 \cup S6
  BY DEF SampleMessages
<1>8. "SET_PARAMETER" \in Request /\ "GET_PARAMETER" \in Request
  BY DEF Request
<1>1. m \in S1 => Whole(m)
  BY <1>0, <1>8, RequestWhole
<1>2. m \in S2 => Whole(m)
  BY <1>0, ReplyWhole
<1>3. m \in S3 => Whole(m)
  BY <1>0, ReplyWhole
<1>4. m \in S4 => Whole(m)
  <2> HIDE DEF N
  <2> SUFFICES ASSUME m \in S4 PROVE Whole(m)
    OBVIOUS
  <2>1. PICK ns \in N : m = NewRequest("GET_PARAMETER", URI, Header, [Payload EXCEPT !.parameters = ns])
    OBVIOUS
  <2> QED BY <1>0, <1>8, <2>1, RequestWhole
<1>5. m \in S5 => Whole(m)
  <2> SUFFICES ASSUME m \in S5 PROVE Whole(m)
    OBVIOUS
  <2>1. PICK k \in Request, u \in {Star, URI, Chars(<<>>)} : m = NewRequest(k, u, Header, Payload)
    OBVIOUS
  <2> QED BY <1>0, <2>1, RequestWhole
<1>6. m \in S6 => Whole(m)
  BY <1>0, SampleHeadersHeld, ReplyWhole
<1> HIDE DEF S1, S2, S3, S4, S5, S6
<1> QED BY <1>1, <1>2, <1>3, <1>4, <1>5, <1>6, <1>7

Says(m) == Whole(m) /\ SayableMessage(m)

(* A header without other lines says all of them.                          *)
LEMMA PlainGenerics ==
  ASSUME NEW h, h.generic_headers = <<>>
  PROVE  SoundGenerics(h.generic_headers)
BY NoGenericLines

(* A request made of what can be said can be said.                         *)
LEMMA RequestSays ==
  ASSUME NEW kind \in Request, NEW uri, ReadsURI(kind, uri), NEW h, HeldHeader(h), h.generic_headers = <<>>,
         NEW p, HeldMessage(NewRequest(kind, uri, h, p)), SayablePayload(kind, p)
  PROVE  Says(NewRequest(kind, uri, h, p))
<1> DEFINE m == NewRequest(kind, uri, h, p)
<1>1. m = Message(kind, uri, 0, h, p)
  BY DEF NewRequest
<1>2. Whole(m)
  BY RequestWhole
<1> HIDE DEF m
<1>3. m.kind = kind /\ m.uri = uri /\ m.header = h /\ m.payload = p
  BY <1>1, MessageFields
<1>4. SoundGenerics(m.header.generic_headers)
  BY <1>3, PlainGenerics
<1>5. SayableMessage(m)
  BY <1>3, <1>4 DEF SayableMessage
<1> QED BY <1>2, <1>5 DEF Says, m

(* A reply made of what can be said can be said.                           *)
LEMMA ReplySays ==
  ASSUME NEW code, NEW h, HeldHeader(h), h.generic_headers = <<>>,
         NEW p, HeldMessage(NewReply(code, h, p)), SayablePayload("REPLY", p)
  PROVE  Says(NewReply(code, h, p))
<1> DEFINE m == NewReply(code, h, p)
           kind == "REPLY"
<1>1. m = Message(kind, Chars(<<>>), code, h, p)
  BY DEF NewReply
<1>2. Whole(m)
  BY ReplyWhole
<1>6. kind \notin Request /\ SayablePayload(kind, p)
  BY DEF Request
<1> HIDE DEF m, kind
<1>3. m.kind = kind /\ m.header = h /\ m.payload = p
  BY <1>1, MessageFields
<1>4. SoundGenerics(m.header.generic_headers)
  BY <1>3, PlainGenerics
<1>5. SayableMessage(m)
  BY <1>3, <1>4, <1>6 DEF SayableMessage
<1> QED BY <1>2, <1>5 DEF Says, m

(* The URIs of the programs' requests can be read.                         *)
LEMMA URIsOf ==
  /\ \A kind : ReadsURI(kind, URI)
  /\ ReadsURI("OPTIONS", Star)
<1>1. URI # Star /\ ~Empty(URI)
  <2> DEFINE s == <<1>>
  <2>1. s # <<>>
    OBVIOUS
  <2>3. URI = Chars(s)
    BY DEF URI
  <2> HIDE DEF s
  <2>2. "word" \in DOMAIN Star /\ "word" \notin DOMAIN URI /\ URI.chars = s
    BY <2>3, Tokens DEF Star
  <2>4. URI # Star
    BY <2>2
  <2> QED BY <2>1, <2>2, <2>4 DEF Empty
<1> QED BY <1>1 DEF ReadsURI

(* Payloads that can be said.                                              *)
LEMMA PropertiesSayable ==
  ASSUME NEW ps, \A p \in ps : IsHeld(p) /\ Sayable(p), NEW kind, kind \in Request => \A p \in ps : p.type \notin Bare
  PROVE  OnlyProperties(WithProperties(ps)) /\ SayablePayload(kind, WithProperties(ps))
<1> DEFINE q == WithProperties(ps)
<1>1. WithAll(ps, q)
  BY WithPropertiesHeld
<1> HIDE DEF q
<1>2. /\ OnlyProperties(q) /\ DOMAIN q.properties = {p.type : p \in ps}
      /\ \A n \in DOMAIN q.properties : q.properties[n] \in ps /\ q.properties[n].type = n
  BY <1>1 DEF WithAll
<1>3. q.parameters = <<>> /\ q.errors = <<>>
  BY <1>2 DEF OnlyProperties
<1>4. DOMAIN q.parameters = {} /\ DOMAIN q.errors = {}
  BY <1>3
<1>5. kind \in Request => DOMAIN q.properties \cap Bare = {}
  BY <1>2
<1>6. \A n \in DOMAIN q.properties : Sayable(q.properties[n])
  BY <1>2
<1>7. SayablePayload(kind, q)
  BY <1>4, <1>5, <1>6 DEF SayablePayload
<1> QED BY <1>2, <1>7 DEF q

(* Names can be said in a request.                                         *)
LEMMA NamesSayable ==
  ASSUME NEW p, p.properties = <<>>, p.errors = <<>>, NEW kind \in Request
  PROVE  SayablePayload(kind, p)
<1>1. DOMAIN p.properties = {} /\ DOMAIN p.errors = {}
  OBVIOUS
<1>2. kind # "REPLY"
  BY DEF Request
<1> QED BY <1>1, <1>2 DEF SayablePayload

(* Nothing can be said anywhere.                                           *)
LEMMA NothingSayable ==
  ASSUME NEW kind
  PROVE SayablePayload(kind, Payload)
BY NothingIsSound DEF SoundPayload, SayablePayload, Sayable

(* Errors can be said, but those of wfd_standby.                           *)
LEMMA ErrorsSayable ==
  ASSUME NEW p, p.properties = <<>>, p.parameters = <<>>, "wfd_standby" \notin DOMAIN p.errors, NEW kind
  PROVE  SayablePayload(kind, p)
<1>1. DOMAIN p.properties = {} /\ DOMAIN p.parameters = {}
  OBVIOUS
<1> QED BY <1>1 DEF SayablePayload

----------------------------------------------------------------------------
(* What the programs say can be said.                                      *)
LEMMA RequestKinds ==
  "OPTIONS" \in Request /\ "SET_PARAMETER" \in Request /\ "GET_PARAMETER" \in Request /\ "SETUP" \in Request /\ "PLAY" \in Request
BY DEF Request

(* The numbers of the programs' headers.                                   *)
LEMMA SmallNumbers ==
  /\ 0 \in SInt /\ 1 \in SInt /\ 2 \in SInt /\ 3 \in SInt
  /\ 0 \in UInt /\ 40000 \in UInt /\ SinkUdpPort \in UInt
<1>1. SinkUdpPort \in UShort
  BY ExchangeAssumption
<1> QED BY <1>1, Ranges

(* M1 and M2 can be said.                                                  *)
LEMMA OptionsSay == Says(ProgramOptions)
<1> DEFINE yes == TRUE
           z == 0
           h == [CSeqHeader(z) EXCEPT !.require_wfd_support = yes]
<1>1. yes \in BOOLEAN /\ z \in SInt
  BY SmallNumbers
<1>2. ProgramOptions = NewRequest("OPTIONS", Star, h, Payload)
  BY DEF ProgramOptions
<1>6. <<>> \in Seq(MethodName)
  OBVIOUS
<1> HIDE DEF yes, z
<1>3. HeldHeader(h) /\ h.generic_headers = <<>>
  BY <1>1, <1>6, MethodsHeader
<1> HIDE DEF h
<1>4. HeldMessage(NewRequest("OPTIONS", Star, h, Payload))
  BY StartPayloads, RequestHeld
<1>5. SayablePayload("OPTIONS", Payload)
  BY NothingSayable
<1> QED BY <1>2, <1>3, <1>4, <1>5, RequestKinds, URIsOf, RequestSays

(* Their replies can be said.                                              *)
LEMMA OptionsReplySays ==
  ASSUME NEW methods \in Seq(MethodName)
  PROVE  Says(OptionsReply(methods))
<1> DEFINE yes == TRUE
           z == 0
           h == [CSeqHeader(z) EXCEPT !.supported_methods = methods]
<1>1. yes \in BOOLEAN /\ z \in SInt
  BY SmallNumbers
<1>2. OptionsReply(methods) = NewReply(200, h, Payload)
  BY DEF OptionsReply
<1> HIDE DEF yes, z
<1>3. HeldHeader(h) /\ h.generic_headers = <<>>
  BY <1>1, MethodsHeader
<1> HIDE DEF h
<1>4. HeldMessage(NewReply(200, h, Payload))
  BY StartPayloads, ReplyHeld
<1>5. SayablePayload("REPLY", Payload)
  BY NothingSayable
<1> QED BY <1>2, <1>3, <1>4, <1>5, ReplySays

(* M3 can be said.                                                         *)
LEMMA M3Says == Says(SourceM3)
<1> DEFINE ns == <<"wfd_audio_codecs", "wfd_video_formats", "wfd_client_rtp_ports">>
           h == CSeqHeader(1)
           p == [Payload EXCEPT !.parameters = ns]
<1>1. SourceM3 = NewRequest("GET_PARAMETER", URI, h, p)
  BY DEF SourceM3
<1>2. HeldHeader(h) /\ h.generic_headers = <<>>
  BY SmallNumbers, CSeqHeaderHeld
<1>3. p.properties = <<>> /\ p.errors = <<>>
  BY DEF Payload
<1> HIDE DEF h, p
<1>4. HeldMessage(NewRequest("GET_PARAMETER", URI, h, p))
  <2>1. SourceM3 \in ProgramMessages
    BY DEF ProgramMessages
  <2> QED BY <1>1, <2>1, ProgramMessagesHeld
<1>5. SayablePayload("GET_PARAMETER", p)
  BY <1>3, RequestKinds, NamesSayable
<1> QED BY <1>1, <1>2, <1>4, <1>5, RequestKinds, URIsOf, RequestSays

(* M5 can be said.                                                         *)
LEMMA M5Says ==
  ASSUME NEW trigger \in TriggerMethod
  PROVE  Says(SourceM5(trigger))
<1> DEFINE q == Property("wfd_trigger_method", <<Word(trigger)>>, <<>>)
           h == CSeqHeader(3)
           ps == {q}
           p == WithProperties(ps)
<1>1. SourceM5(trigger) = NewRequest("SET_PARAMETER", URI, h, p)
  BY DEF SourceM5
<1>2. HeldHeader(h) /\ h.generic_headers = <<>>
  BY SmallNumbers, CSeqHeaderHeld
<1>3. q.type \notin Bare
  <2>1. q.type = "wfd_trigger_method"
    BY DEF Property
  <2> QED BY <2>1 DEF Bare
<1>4. IsHeld(q)
  BY TriggerSamplesHeld
<1>5. Sayable(q)
  BY OthersAreSound DEF Sayable
<1> HIDE DEF q, h
<1>6. \A x \in ps : IsHeld(x) /\ Sayable(x) /\ x.type \notin Bare
  BY <1>3, <1>4, <1>5
<1> HIDE DEF ps
<1>7. OnlyProperties(p) /\ SayablePayload("SET_PARAMETER", p)
  BY <1>6, PropertiesSayable
<1> HIDE DEF p
<1>8. "SET_PARAMETER" # "REPLY"
  OBVIOUS
<1>9. HeldMessage(NewRequest("SET_PARAMETER", URI, h, p))
  BY <1>7, <1>8, RequestHeld
<1> QED BY <1>1, <1>2, <1>7, <1>9, RequestKinds, URIsOf, RequestSays

PortsIn(no, z, T, a, b) ==
  /\ [T EXCEPT !.client_port = a] = TransportOf(a, no, z, no)
  /\ [T EXCEPT !.client_port = a, !.server_port = b] = TransportOf(a, no, b, no)

(* The ports a program stores in a header.                                 *)
LEMMA PortsGiven ==
  ASSUME NEW no \in BOOLEAN, NEW z, NEW T, T = TransportOf(z, no, z, no), NEW a, NEW b
  PROVE  PortsIn(no, z, T, a, b)
<1> DEFINE u == [T EXCEPT !.client_port = a]
           w == [u EXCEPT !.server_port = b]
<1>1. u = TransportOf(a, no, z, no)
  BY DEF TransportOf
<1>2. [T EXCEPT !.client_port = a, !.server_port = b] = w
  BY DEF u, w
<1> HIDE DEF u
<1>3. w = TransportOf(a, no, b, no)
  BY <1>1 DEF TransportOf
<1> QED BY <1>1, <1>2, <1>3, Zenon DEF u, PortsIn

(* The ports of a header that has none.                                    *)
LEMMA NoPortsGiven == TransportHeader = TransportOf(0, FALSE, 0, FALSE)
BY DEF TransportHeader, TransportOf

(* M6 can be said.                                                         *)
LEMMA M6Says == Says(SinkM6)
<1> DEFINE no == FALSE
           z == 0
           q == 1
           t == [TransportHeader EXCEPT !.client_port = SinkUdpPort]
           v == TransportOf(SinkUdpPort, no, z, no)
           h == [CSeqHeader(q) EXCEPT !.transport = v]
<1>1. t = v
  <2>1. TransportHeader = TransportOf(z, no, z, no) /\ no \in BOOLEAN
    BY NoPortsGiven
  <2> HIDE DEF z, no
  <2>2. PortsIn(no, z, TransportHeader, SinkUdpPort, z)
    BY <2>1, PortsGiven
  <2> QED BY <2>2, Zenon DEF PortsIn
<1>2. SinkM6 = NewRequest("SETUP", URI, [CSeqHeader(q) EXCEPT !.transport = t], Payload)
  BY DEF SinkM6
<1>3. no \in BOOLEAN /\ z \in UInt /\ q \in SInt /\ SinkUdpPort \in UInt
  BY SmallNumbers
<1> HIDE DEF no, z, q, t
<1>4. HeldTransport(v)
  BY <1>3, TransportIsHeld
<1> HIDE DEF v
<1>5. HeldHeader(h) /\ h.generic_headers = <<>>
  BY <1>3, <1>4, TransportHeadersHeld
<1>6. SinkM6 = NewRequest("SETUP", URI, h, Payload)
  BY <1>1, <1>2
<1> HIDE DEF h
<1>7. HeldMessage(NewRequest("SETUP", URI, h, Payload))
  <2>1. SinkM6 \in ProgramMessages
    BY DEF ProgramMessages
  <2> QED BY <1>6, <2>1, ProgramMessagesHeld
<1>8. SayablePayload("SETUP", Payload)
  BY NothingSayable
<1> QED BY <1>5, <1>6, <1>7, <1>8, RequestKinds, URIsOf, RequestSays

(* M7 can be said.                                                         *)
LEMMA M7Says == Says(SinkM7)
<1> DEFINE s == Chars(Repeated(1, 8))
           q == 2
           h == [CSeqHeader(q) EXCEPT !.session = s]
<1>1. SinkM7 = NewRequest("PLAY", URI, h, Payload)
  BY DEF SinkM7
<1>2. q \in SInt /\ s \in Strings /\ HeldTransport(TransportHeader)
  BY SmallNumbers, StringsOf, NoTransport
<1> HIDE DEF s, q
<1>5. HeldHeader(h) /\ h.generic_headers = <<>>
  BY <1>2, SessionHeader
<1> HIDE DEF h
<1>7. HeldMessage(NewRequest("PLAY", URI, h, Payload))
  <2>1. SinkM7 \in ProgramMessages
    BY DEF ProgramMessages
  <2> QED BY <1>1, <2>1, ProgramMessagesHeld
<1>8. SayablePayload("PLAY", Payload)
  BY NothingSayable
<1> QED BY <1>1, <1>5, <1>7, <1>8, RequestKinds, URIsOf, RequestSays

(* Every message a program begins with can be said.                        *)
LEMMA ProgramMessagesSay ==
  ASSUME NEW m \in ProgramMessages
  PROVE  Says(m)
<1>1. \/ m \in {ProgramOptions, OptionsReply(SinkMethods), OptionsReply(SourceMethods), SourceM3, SinkM6, SinkM7}
      \/ \E t \in TriggerMethod : m = SourceM5(t)
  BY DEF ProgramMessages
<1> QED BY <1>1, OptionsSay, OptionsReplySays, MethodsKnown, M3Says, M5Says, M6Says, M7Says

(* ... and so can what they answer.                                        *)
LEMMA SinkM3ReplySays ==
  ASSUME NEW m, Whole(m)
  PROVE  Says(SinkM3Reply(m))
<1> DEFINE asked == {m.payload.parameters[i] : i \in DOMAIN m.payload.parameters}
           ps == UNION {SinkProperty(n) : n \in asked}
           h == CSeqHeader(m.header.cseq)
           p == WithProperties(ps)
<1>0. HeldMessage(m) /\ m.header.cseq \in SInt
  BY DEF Whole, HeldHeader
<1>1. m.payload.parameters \in Seq(Names)
  BY <1>0 DEF HeldMessage, HeldIn, HeldPayload
<1>2. asked \subseteq Names
  BY <1>1
<1>3. SinkM3Reply(m) = NewReply(200, h, p)
  BY DEF SinkM3Reply
<1> HIDE DEF asked
<1>4. \A x \in ps : \E n \in Names : x \in SinkProperty(n)
  BY <1>2
<1> HIDE DEF ps
<1>5. \A x \in ps : IsHeld(x)
  BY <1>4, SinkPropertyHeld DEF IsHeld
<1>6. \A x \in ps : Sayable(x)
  BY <1>4, SinkPropertySayable
<1>7. "REPLY" \notin Request
  BY DEF Request
<1>8. SayablePayload("REPLY", p)
  BY <1>5, <1>6, <1>7, PropertiesSayable
<1>9. HeldHeader(h) /\ h.generic_headers = <<>>
  BY <1>0, CSeqHeaderHeld
<1>10. HeldMessage(NewReply(200, h, p))
  BY <1>0, <1>3, SinkM3ReplyHeld
<1> HIDE DEF h, p
<1> QED BY <1>3, <1>8, <1>9, <1>10, ReplySays

(* The sink's reply to M4 can be said.                                     *)
LEMMA SinkM4ReplySays ==
  ASSUME NEW m, Whole(m)
  PROVE  Says(SinkM4Reply(m))
<1> DEFINE h == CSeqHeader(m.header.cseq)
           name == "wfd_presentation_url"
           nil == <<>>
           map == Put(nil, name, <<404>>)
           p == WithErrors(map)
<1>0. m.header.cseq \in SInt
  BY DEF Whole, HeldHeader
<1>1. SinkM4Reply(m) = NewReply(200, h, Payload) \/ SinkM4Reply(m) = NewReply(303, h, p)
  BY DEF SinkM4Reply
<1>2. HeldHeader(h) /\ h.generic_headers = <<>>
  BY <1>0, CSeqHeaderHeld
<1>3. SayablePayload("REPLY", Payload)
  BY NothingSayable
<1>4. SayablePayload("REPLY", p)
  <2>1. DOMAIN nil = {} /\ name # "wfd_standby"
    OBVIOUS
  <2>2. p.properties = <<>> /\ p.parameters = <<>> /\ p.errors = map
    BY DEF WithErrors, Payload
  <2> HIDE DEF nil, name, p
  <2>3. DOMAIN map = {name}
    BY <2>1 DEF Put
  <2> HIDE DEF map
  <2> QED BY <2>1, <2>2, <2>3, ErrorsSayable
<1>5. HeldMessage(SinkM4Reply(m))
  BY SinkM4ReplyHeld
<1> HIDE DEF h, p
<1>6. ASSUME SinkM4Reply(m) = NewReply(200, h, Payload) PROVE Says(SinkM4Reply(m))
  <2>1. HeldMessage(NewReply(200, h, Payload))
    BY <1>5, <1>6
  <2> QED BY <1>2, <1>3, <1>6, <2>1, ReplySays
<1>7. ASSUME SinkM4Reply(m) = NewReply(303, h, p) PROVE Says(SinkM4Reply(m))
  <2>1. HeldMessage(NewReply(303, h, p))
    BY <1>5, <1>7
  <2> QED BY <1>2, <1>4, <1>7, <2>1, ReplySays
<1> QED BY <1>1, <1>6, <1>7

(* The source's reply to M6 can be said.                                   *)
LEMMA SourceM6ReplySays ==
  ASSUME NEW m, Whole(m)
  PROVE  Says(SourceM6Reply(m))
<1> DEFINE no == FALSE
           a == m.header.transport.client_port
           b == 40000
           q == m.header.cseq
           s == Chars(Repeated(1, 8))
           t == [TransportHeader EXCEPT !.client_port = a, !.server_port = b]
           v == TransportOf(a, no, b, no)
           h == [CSeqHeader(q) EXCEPT !.session = s, !.transport = v]
<1>1. t = v
  <2> DEFINE z == 0
  <2>1. TransportHeader = TransportOf(z, no, z, no) /\ no \in BOOLEAN
    BY NoPortsGiven
  <2> HIDE DEF z, no, a, b
  <2>2. PortsIn(no, z, TransportHeader, a, b)
    BY <2>1, PortsGiven
  <2> QED BY <2>2, Zenon DEF PortsIn
<1>2. SourceM6Reply(m) = NewReply(200, [CSeqHeader(q) EXCEPT !.session = s, !.transport = t], Payload)
  BY DEF SourceM6Reply
<1>3. no \in BOOLEAN /\ b \in UInt
  BY SmallNumbers
<1>4. q \in SInt /\ a \in UInt
  BY DEF Whole, HeldHeader, HeldTransport
<1>5. s \in Strings
  BY StringsOf
<1> HIDE DEF no, a, b, q, s, t
<1>6. HeldTransport(v)
  BY <1>3, <1>4, TransportIsHeld
<1> HIDE DEF v
<1>7. HeldHeader(h) /\ h.generic_headers = <<>>
  BY <1>4, <1>5, <1>6, SessionHeader
<1>8. SourceM6Reply(m) = NewReply(200, h, Payload)
  BY <1>1, <1>2
<1> HIDE DEF h
<1>9. HeldMessage(NewReply(200, h, Payload))
  BY <1>8, SourceM6ReplyHeld
<1>10. SayablePayload("REPLY", Payload)
  BY NothingSayable
<1> QED BY <1>7, <1>8, <1>9, <1>10, ReplySays

(* The M4 the source sends can be said.                                    *)
LEMMA SourceM4Says ==
  ASSUME NEW m, Whole(m), "wfd_client_rtp_ports" \in DOMAIN m.payload.properties
  PROVE  Says(SourceM4(m))
<1> DEFINE p == m.payload.properties["wfd_client_rtp_ports"]
           q == PresentationUrl(Url(0, TRUE), NONE)
           ps == {p, q}
           h == CSeqHeader(2)
           y == WithProperties(ps)
<1>0. HeldMessage(m)
  BY DEF Whole
<1>1. IsHeld(p) /\ IsHeld(q) /\ p \in HeldClientRtpPorts
  BY <1>0, SourceM4Parts
<1>2. SourceM4(m) = NewRequest("SET_PARAMETER", URI, h, y)
  BY DEF SourceM4
<1>3. HeldHeader(h) /\ h.generic_headers = <<>>
  BY SmallNumbers, CSeqHeaderHeld
<1>4. HeldMessage(NewRequest("SET_PARAMETER", URI, h, y))
  BY <1>0, <1>2, SourceM4Held
<1>5. Sayable(q)
  BY OthersAreSound DEF Sayable
<1>6. q.type = "wfd_presentation_url"
  BY DEF PresentationUrl, Property
<1> HIDE DEF p, q, h
<1>7. Sayable(p) /\ p.type = "wfd_client_rtp_ports"
  <2>1. PICK a \in UShort, b \in UShort : p = ClientRtpPorts(a, b)
    BY <1>1 DEF HeldClientRtpPorts
  <2>2. SoundProperty(p)
    BY <2>1, OthersAreSound
  <2>3. p.type = "wfd_client_rtp_ports"
    BY <2>1 DEF ClientRtpPorts, Property
  <2> QED BY <2>2, <2>3 DEF Sayable
<1>8. p.type \notin Bare /\ q.type \notin Bare
  BY <1>6, <1>7 DEF Bare
<1>9. \A x \in ps : IsHeld(x) /\ Sayable(x) /\ x.type \notin Bare
  BY <1>1, <1>5, <1>7, <1>8
<1> HIDE DEF ps
<1>10. SayablePayload("SET_PARAMETER", y)
  BY <1>9, PropertiesSayable
<1> HIDE DEF y
<1> QED BY <1>2, <1>3, <1>4, <1>10, RequestKinds, URIsOf, RequestSays

----------------------------------------------------------------------------
(* What a program says keeps its meaning: only "no port" is read as another *)
(* value of the same meaning.                                              *)
MeaningAs(n, q) == IF n = "wfd_I2C" /\ q.members[1].dec <= 0 THEN I2C(Dec(0)) ELSE q
MeaningsOf(map) == [n \in DOMAIN map |-> MeaningAs(n, map[n])]

(* The meaning of a message is that of its properties.                     *)
LEMMA MeaningIs ==
  ASSUME NEW m, NEW a, NEW b, NEW c, NEW h, NEW map, NEW ns, NEW es,
         m = Message(a, b, c, h, PayloadOf(map, ns, es))
  PROVE  Meaning(m) = Message(a, b, c, h, PayloadOf(MeaningsOf(map), ns, es))
<1> DEFINE p == PayloadOf(map, ns, es)
           new == [n \in DOMAIN map |-> IF n = "wfd_I2C" /\ map[n].members[1].dec <= 0 THEN I2C(Dec(0)) ELSE map[n]]
<1>1. m.payload = p /\ p.properties = map
  BY MessageFields, PayloadFields
<1>2. Meaning(m) = [m EXCEPT !.payload = [m.payload EXCEPT !.properties = new]]
  <2> DEFINE f == m.payload.properties
             n1 == [n \in DOMAIN f |-> IF n = "wfd_I2C" /\ f[n].members[1].dec <= 0 THEN I2C(Dec(0)) ELSE f[n]]
  <2>1. Meaning(m) = [m EXCEPT !.payload = [m.payload EXCEPT !.properties = n1]]
    BY DEF Meaning
  <2>2. n1 = new
    BY <1>1, Zenon
  <2> QED BY <2>1, <2>2
<1>3. new = MeaningsOf(map)
  BY Zenon DEF MeaningsOf, MeaningAs
<1> HIDE DEF new
<1>4. [p EXCEPT !.properties = new] = PayloadOf(new, ns, es)
  BY DEF PayloadOf
<1> DEFINE q == [p EXCEPT !.properties = new]
<1>5. Meaning(m) = [m EXCEPT !.payload = q]
  BY <1>1, <1>2
<1> HIDE DEF p, q
<1>6. [m EXCEPT !.payload = q] = Message(a, b, c, h, q)
  BY DEF Message, p
<1> QED BY <1>3, <1>4, <1>5, <1>6 DEF q

(* Properties that are read have the meaning of those that were printed.   *)
LEMMA SameMeaning ==
  ASSUME NEW map, HeldProperties(map)
  PROVE  MeaningsOf(PropertiesReadAs(map)) = MeaningsOf(map)
<1>1. ASSUME NEW n \in DOMAIN map PROVE MeaningAs(n, PropertyReadAs(map[n])) = MeaningAs(n, map[n])
  <2>1. CASE map[n] = NoPort
    <3> DEFINE i == "wfd_I2C"
               a == 0
               b == -1
    <3>1. map[n].type = n
      <4>1. n \in Names /\ map[n] \in HeldAs(n)
        BY DEF HeldProperties
      <4>2. TypedAs(n, map[n])
        BY <4>1, HeldIsTyped
      <4> QED BY <4>2 DEF TypedAs
    <3>2. n = i
      BY <2>1, <3>1, NoPortIsRead
    <3>3. a <= 0 /\ b <= 0
      OBVIOUS
    <3>4. map[n] = I2C(Dec(a)) /\ PropertyReadAs(map[n]) = I2C(Dec(b))
      BY <2>1, Zenon DEF NoPort, PropertyReadAs
    <3> HIDE DEF a, b
    <3>5. I2C(Dec(a)).members[1].dec = a /\ I2C(Dec(b)).members[1].dec = b
      BY DEF I2C, Property, Dec
    <3>6. MeaningAs(i, I2C(Dec(a))) = I2C(Dec(0)) /\ MeaningAs(i, I2C(Dec(b))) = I2C(Dec(0))
      BY <3>3, <3>5 DEF MeaningAs
    <3> HIDE DEF i
    <3> QED BY <3>2, <3>4, <3>6
  <2>2. CASE map[n] # NoPort
    BY <2>2 DEF PropertyReadAs
  <2> QED BY <2>1, <2>2
<1> DEFINE f == PropertiesReadAs(map)
<1>2. DOMAIN f = DOMAIN map /\ \A n \in DOMAIN map : f[n] = PropertyReadAs(map[n])
  BY DEF PropertiesReadAs
<1> HIDE DEF f
<1>3. MeaningsOf(f) = [n \in DOMAIN f |-> MeaningAs(n, f[n])] /\ MeaningsOf(map) = [n \in DOMAIN map |-> MeaningAs(n, map[n])]
  BY Zenon DEF MeaningsOf
<1>4. \A n \in DOMAIN map : MeaningAs(n, f[n]) = MeaningAs(n, map[n])
  BY <1>1, <1>2
<1>5. MeaningsOf(f) = [n \in DOMAIN map |-> MeaningAs(n, f[n])]
  BY <1>2, <1>3
<1> DEFINE g == MeaningsOf(f)
           k == MeaningsOf(map)
<1>6. g = [n \in DOMAIN map |-> g[n]] /\ k = [n \in DOMAIN map |-> k[n]]
  BY <1>3, <1>5
<1>7. \A n \in DOMAIN map : g[n] = k[n]
  BY <1>3, <1>4, <1>5
<1> HIDE DEF g, k
<1>8. g = k
  BY <1>6, <1>7
<1> QED BY <1>8 DEF g, k, f

(* A message is read with its meaning.                                     *)
THEOREM MeaningIsKept ==
  ASSUME NEW m, Whole(m), SoundHeader(m.header)
  PROVE  Meaning(MessageReadAs(m)) = Meaning(m)
<1> DEFINE p == m.payload
           h == m.header
           map == p.properties
           ns == p.parameters
           es == p.errors
           r == MessageReadAs(m)
<1>1. m = Message(m.kind, m.uri, m.code, h, p) /\ HeldHeader(h) /\ HeldPayload(p)
  BY DEF Whole, HeldMessage, HeldIn
<1>2. p = PayloadOf(map, ns, es) /\ HeldProperties(map)
  BY <1>1 DEF HeldPayload
<1>3. HeaderReadAs(h) = h
  BY <1>1, SoundHeaderIsRead
<1>4. r = Message(m.kind, m.uri, m.code, HeaderReadAs(h), PayloadReadAs(p))
  BY Zenon DEF MessageReadAs
<1>5. PayloadReadAs(p) = PayloadOf(PropertiesReadAs(map), ns, es)
  BY Zenon DEF PayloadReadAs
<1>6. r = Message(m.kind, m.uri, m.code, h, PayloadOf(PropertiesReadAs(map), ns, es))
  BY <1>3, <1>4, <1>5
<1>7. m = Message(m.kind, m.uri, m.code, h, PayloadOf(map, ns, es))
  BY <1>1, <1>2
<1>8. MeaningsOf(PropertiesReadAs(map)) = MeaningsOf(map)
  BY <1>2, SameMeaning
<1> DEFINE read == PropertiesReadAs(map)
           k == m.kind
           u == m.uri
           c == m.code
<1> HIDE DEF p, h, map, ns, es, r, read, k, u, c
<1>9. Meaning(m) = Message(k, u, c, h, PayloadOf(MeaningsOf(map), ns, es))
  BY <1>7, MeaningIs DEF k, u, c
<1>10. Meaning(r) = Message(k, u, c, h, PayloadOf(MeaningsOf(read), ns, es))
  BY <1>6, MeaningIs DEF k, u, c, read
<1> QED BY <1>8, <1>9, <1>10 DEF read, r

----------------------------------------------------------------------------
(* The headers of other makers.  A text of one token after two.            *)
LEMMA JoinTwoOne ==
  ASSUME NEW x, NEW y, NEW a
  PROVE  <<x, y>> \o <<a>> = <<x, y, a>>
<1> DEFINE S == {x, y, a}
           s == <<x, y>> \o <<a>>
<1>1. <<x, y>> \in Seq(S) /\ <<a>> \in Seq(S) /\ Len(<<x, y>>) = 2 /\ Len(<<a>>) = 1
  OBVIOUS
<1>2. s \in Seq(S) /\ Len(s) = 3 /\ s[1] = x /\ s[2] = y /\ s[3] = a
  BY <1>1, ConcatProperties
<1> HIDE DEF s
<1>3. s = <<x, y, a>>
  BY <1>2
<1> QED BY <1>3 DEF s

(* A text of one token after three.                                        *)
LEMMA JoinThreeOne ==
  ASSUME NEW x, NEW y, NEW z, NEW a
  PROVE  <<x, y, z>> \o <<a>> = <<x, y, z, a>>
<1> DEFINE S == {x, y, z, a}
           s == <<x, y, z>> \o <<a>>
<1>1. <<x, y, z>> \in Seq(S) /\ <<a>> \in Seq(S) /\ Len(<<x, y, z>>) = 3 /\ Len(<<a>>) = 1
  OBVIOUS
<1>2. s \in Seq(S) /\ Len(s) = 4 /\ s[1] = x /\ s[2] = y /\ s[3] = z /\ s[4] = a
  BY <1>1, ConcatProperties
<1> HIDE DEF s
<1>3. s = <<x, y, z, a>>
  BY <1>2
<1> QED BY <1>3 DEF s

(* What is read of the header of another maker's SETUP: its numbers are    *)
(* cut to the types of the members.                                        *)
SetupPorts(n) == TransportOf(AsUInt(Dec(n)), FALSE, AsUInt(Dec(n)), FALSE)
SetupHeader(n) ==
  HeaderOf(AsInt(Dec(n)), AsInt(Dec(UINT_MAX + 1)), AsUInt(Dec(n)), Chars(<<1>>), SetupPorts(n),
           Chars(<<>>), FALSE, <<>>, <<>>)

(* Its ports are read.                                                     *)
LEMMA SetupPortsAreRead ==
  ASSUME NEW n
  PROVE  ReadTransport(<<Dec(n), Word("server_port="), Dec(n)>>) = {SetupPorts(n)}
<1> DEFINE no == FALSE
           yes == TRUE
           t == <<Dec(n), Word("server_port="), Dec(n)>>
<1>1. no \in BOOLEAN /\ yes \in BOOLEAN /\ (no => yes)
  OBVIOUS
<1>2. t = TransportTokens(n, no, n, yes, no)
  BY TransportTexts
<1>3. t[1] = Dec(n) /\ t[3] = Dec(n)
  OBVIOUS
<1>4. (IF yes THEN AsUInt(t[IF no THEN 5 ELSE 3]) ELSE 0) = AsUInt(Dec(n))
  BY <1>3
<1> HIDE DEF no, yes, t
<1>5. TransportDerives(no, yes, no, t)
  BY <1>1, <1>2, TransportDerived
<1>6. ReadTransport(t) = {TransportOf(AsUInt(t[1]), no, IF yes THEN AsUInt(t[IF no THEN 5 ELSE 3]) ELSE 0, no)}
  BY <1>1, <1>5, TransportReadBy
<1>7. ReadTransport(t) = {TransportOf(AsUInt(Dec(n)), no, AsUInt(Dec(n)), no)}
  BY <1>3, <1>4, <1>6
<1> QED BY <1>7 DEF t, no, SetupPorts

(* So is the header.                                                       *)
LEMMA SetupHeaderIsRead ==
  ASSUME NEW n
  PROVE  ReadHeader(ForeignSetup(n).header) = {SetupHeader(n)}
<1> DEFINE E == Chars(<<>>)
           T == TransportHeader
           no == FALSE
           nil == <<>>
           z == 0
           none == <<>>
           x == Chars(<<1>>)
           l == UINT_MAX + 1
           i == AsInt(Dec(n))
           j == AsInt(Dec(l))
           k == AsUInt(Dec(n))
           v == SetupPorts(n)
           a == Line("CSeq", <<Dec(n)>>)
           b == Line("Session", <<x, Word("timeout="), Dec(n)>>)
           c == Line("Transport", <<Dec(n), Word("server_port="), Dec(n)>>)
           d == Line("Content-Length", <<Dec(l)>>)
           r0 == HeaderOf(z, z, z, E, T, E, no, nil, nil)
           r1 == HeaderOf(i, z, z, E, T, E, no, nil, nil)
           r2 == HeaderOf(i, z, k, x, T, E, no, nil, nil)
           r3 == HeaderOf(i, z, k, x, v, E, no, nil, nil)
           r4 == HeaderOf(i, j, k, x, v, E, no, nil, nil)
<1>1. Header = r0
  BY DEF Header, HeaderOf
<1>2. Reads(none, {r0})
  BY <1>1, ReadsNothing
<1>3. ForeignSetup(n).header = <<a, b, c, d>>
  BY DEF ForeignSetup
<1>4. SetupHeader(n) = r4
  BY Zenon DEF SetupHeader
<1> HIDE DEF E, T, no, nil, z, l
<1>5. ReadHeaderLine(r0, a) = {r1}
  BY CSeqLine
<1>6. ReadHeaderLine(r1, b) = {r2}
  <2> DEFINE s == <<1>>
  <2>1. x = Chars(s)
    OBVIOUS
  <2> HIDE DEF s, x
  <2>2. TimeoutLineReads(r1, x, n, r2)
    BY <2>1, StringLines
  <2> QED BY <2>2 DEF TimeoutLineReads
<1>7. ReadHeaderLine(r2, c) = {r3}
  <2>1. ReadTransport(<<Dec(n), Word("server_port="), Dec(n)>>) = {v}
    BY SetupPortsAreRead
  <2> HIDE DEF v, i, k, x
  <2> QED BY <2>1, TransportLine
<1>8. ReadHeaderLine(r3, d) = {r4}
  <2> HIDE DEF v, i, k, x
  <2> QED BY LengthLine
<1> HIDE DEF a, b, c, d, r0, r1, r2, r3, r4, none
<1>9. none \o <<a>> = <<a>>
  BY JoinOneOne DEF none
<1>10. Reads(none \o <<a>>, {r1})
  BY <1>2, <1>5, ReadsLine
<1>11. Reads(<<a>>, {r1})
  BY <1>9, <1>10
<1>12. Reads(<<a>> \o <<b>>, {r2})
  BY <1>6, <1>11, ReadsLine
<1>13. Reads(<<a, b>>, {r2})
  BY <1>12, JoinOneOne
<1>14. Reads(<<a, b>> \o <<c>>, {r3})
  BY <1>7, <1>13, ReadsLine
<1>15. Reads(<<a, b, c>>, {r3})
  BY <1>14, JoinTwoOne
<1>16. Reads(<<a, b, c>> \o <<d>>, {r4})
  BY <1>8, <1>15, ReadsLine
<1>17. Reads(<<a, b, c, d>>, {r4})
  BY <1>16, JoinThreeOne
<1>18. ReadHeader(<<a, b, c, d>>) = {r4}
  BY <1>17 DEF Reads
<1> QED BY <1>3, <1>4, <1>18

(* It can be held.                                                         *)
LEMMA SetupHeaderHeld ==
  ASSUME NEW n \in Nat
  PROVE  HeldHeader(SetupHeader(n))
<1> DEFINE E == Chars(<<>>)
           no == FALSE
           nil == <<>>
           x == Chars(<<1>>)
           l == UINT_MAX + 1
           i == AsInt(Dec(n))
           j == AsInt(Dec(l))
           k == AsUInt(Dec(n))
           v == SetupPorts(n)
           h == SetupHeader(n)
<1>1. l \in Nat
  BY Ranges
<1>2. i \in SInt /\ k \in UInt
  BY Converted
<1> HIDE DEF l
<1>3. j \in SInt
  BY <1>1, Converted
<1>4. no \in BOOLEAN
  OBVIOUS
<1> HIDE DEF no, k
<1>5. HeldTransport(TransportOf(k, no, k, no))
  BY <1>2, <1>4, TransportIsHeld
<1>6. HeldTransport(v)
  BY <1>5 DEF SetupPorts, k, no
<1>7. E \in Strings /\ nil \in Seq(MethodName) /\ HeldGenerics(nil)
  BY NoHeader
<1>8. x \in Strings
  BY StringsOf
<1>9. h = HeaderOf(i, j, k, x, v, E, no, nil, nil)
  BY Zenon DEF SetupHeader, no, k, l
<1> HIDE DEF E, nil, x, i, j, v, h
<1>10. HeldHeader(h)
  BY <1>2, <1>3, <1>4, <1>6, <1>7, <1>8, <1>9, HeaderMade
<1> QED BY <1>10 DEF h

(* The header of a text of another maker is read in one way, and can be    *)
(* held.                                                                   *)
LEMMA ForeignTextIs ==
  ASSUME NEW t \in ForeignTexts
  PROVE  t.kind \in Kinds /\ \E g : HeldHeader(g) /\ ReadHeader(t.header) = {g}
<1>1. ASSUME NEW body, Len(body) \in 0 .. 2
      PROVE  \A kind, code : \E g : HeldHeader(g) /\ ReadHeader(ForeignText(kind, code, body).header) = {g}
  <2> TAKE kind, code
  <2>2. ForeignText(kind, code, body).header = <<Line("CSeq", <<Dec(0)>>), Line("Content-Length", <<Dec(Len(body))>>)>>
    <3> DEFINE lines == <<Line("CSeq", <<Dec(0)>>), Line("Content-Length", <<Dec(Len(body))>>)>>
    <3>1. ForeignText(kind, code, body) = [kind |-> kind, uri |-> URI, code |-> code, body |-> body, header |-> lines]
      BY Zenon DEF ForeignText
    <3> HIDE DEF lines
    <3>2. ForeignText(kind, code, body).header = lines
      BY <3>1
    <3> QED BY <3>2 DEF lines
  <2> DEFINE n == Len(body)
             g == ForeignHeader(n)
             no == FALSE
             z == 0
  <2>1. n \in SInt /\ n >= 0
    <3>1. n \in Nat /\ n <= 65535
      BY <1>1
    <3> HIDE DEF n
    <3> QED BY <3>1, SmallFits
  <2>6. ForeignText(kind, code, body).header = <<Line("CSeq", <<Dec(0)>>), Line("Content-Length", <<Dec(n)>>)>>
    BY <2>2
  <2>3. no \in BOOLEAN /\ z \in SInt /\ z >= 0 /\ g = HeaderOf(z, n, 0, Chars(<<>>), TransportHeader, Chars(<<>>), no, <<>>, <<>>)
    BY ZeroFits DEF ForeignHeader
  <2> HIDE DEF n, no, z
  <2>4. ReadHeader(<<Line("CSeq", <<Dec(0)>>), Line("Content-Length", <<Dec(n)>>)>>) = {g}
    BY <2>1, ForeignHeaderIsRead
  <2> HIDE DEF g
  <2>5. HeldHeader(g)
    BY <2>1, <2>3, PlainHeader
  <2> QED BY <2>4, <2>5, <2>6
<1>2. \A body \in ForeignBodies : Len(body) \in 0 .. 2
  <2> TAKE body \in ForeignBodies
  <2>1. \E x, y : body = <<x>> \/ body = <<x, y>>
    BY Zenon DEF ForeignBodies
  <2> QED BY <2>1
<1>3. \A x : Len(<<x>>) \in 0 .. 2
  OBVIOUS
<1>4. \/ \E kind \in {"SET_PARAMETER", "REPLY"} : \E code, body : Len(body) \in 0 .. 2 /\ t = ForeignText(kind, code, body)
      \/ \E n \in LongDecimals : t = ForeignSetup(n)
  <2> DEFINE Bad(n) == <<Line(n, <<Dec(70000), Word("comma"), Dec(404)>>)>>
             A == {ForeignText("SET_PARAMETER", 0, body) : body \in ForeignBodies}
             B == {ForeignText("REPLY", 200, body) : body \in ForeignBodies}
             C == {ForeignText("REPLY", 303, Bad(n)) : n \in {"wfd_standby", "wfd_route", "vendor_key"}}
             D == {ForeignSetup(n) : n \in LongDecimals}
  <2>1. ForeignTexts = A \cup B \cup C \cup D
    BY DEF ForeignTexts
  <2>2. t \in A => \E kind \in {"SET_PARAMETER", "REPLY"} : \E code, body : Len(body) \in 0 .. 2 /\ t = ForeignText(kind, code, body)
    BY <1>2
  <2>3. t \in B => \E kind \in {"SET_PARAMETER", "REPLY"} : \E code, body : Len(body) \in 0 .. 2 /\ t = ForeignText(kind, code, body)
    BY <1>2
  <2>4. t \in C => \E kind \in {"SET_PARAMETER", "REPLY"} : \E code, body : Len(body) \in 0 .. 2 /\ t = ForeignText(kind, code, body)
    <3>1. \A n : Len(Bad(n)) \in 0 .. 2
      BY <1>3
    <3> HIDE DEF Bad
    <3> QED BY <3>1
  <2> HIDE DEF A, B, C
  <2> QED BY <2>1, <2>2, <2>3, <2>4
<1>5. CASE \E kind \in {"SET_PARAMETER", "REPLY"} : \E code, body : Len(body) \in 0 .. 2 /\ t = ForeignText(kind, code, body)
  <2>1. PICK kind \in {"SET_PARAMETER", "REPLY"} : \E code, body : Len(body) \in 0 .. 2 /\ t = ForeignText(kind, code, body)
    BY <1>5
  <2>2. PICK code, body : Len(body) \in 0 .. 2 /\ t = ForeignText(kind, code, body)
    BY <2>1
  <2>3. t.kind = kind /\ kind \in Kinds
    BY <2>1, <2>2 DEF ForeignText, Kinds, Request
  <2> QED BY <1>1, <2>2, <2>3
<1>6. CASE \E n \in LongDecimals : t = ForeignSetup(n)
  <2>1. PICK n \in LongDecimals : t = ForeignSetup(n)
    BY <1>6
  <2>2. n \in Nat
    BY SampleDecimals
  <2>3. t.kind = "SETUP"
    BY <2>1 DEF ForeignSetup
  <2>4. t.kind \in Kinds
    BY <2>3 DEF Kinds, Request
  <2> QED BY <2>1, <2>2, <2>4, SetupHeaderIsRead, SetupHeaderHeld
<1> QED BY <1>4, <1>5, <1>6

(* A text that some maker of the model may have made.                      *)
MadeText(t) == t \in ForeignTexts \/ \E m : Printable(m) /\ t = MessageToString(m)

(* What is read of the header of a text that was made is whole.            *)
LEMMA HeaderReadIsWhole ==
  ASSUME NEW t, MadeText(t), NEW h \in ParseHeader(t)
  PROVE  /\ Whole(h) /\ h # NoMessage
         /\ HeldText(t) /\ h = Message(t.kind, t.uri, t.code, h.header, Payload)
<1>1. h = Message(t.kind, t.uri, t.code, h.header, Payload) /\ HeldMessage(h) /\ h # NoMessage
  BY HeaderHeld
<1>2. CASE t \in ForeignTexts
  <2> DEFINE S == IF t.kind = "REPLY" \/ ReadsURI(t.kind, t.uri) THEN ReadHeader(t.header) ELSE {}
  <2>1. t.kind \in Kinds /\ HeldText(t)
    BY <1>2, ForeignTextIs, ForeignTextsHeld
  <2>2. PICK g : HeldHeader(g) /\ ReadHeader(t.header) = {g}
    BY <1>2, ForeignTextIs
  <2>3. ParseHeader(t) = {Message(t.kind, t.uri, t.code, x, Payload) : x \in S}
    BY Zenon DEF ParseHeader
  <2>4. S \subseteq {g}
    BY <2>2
  <2> HIDE DEF S
  <2>5. h = Message(t.kind, t.uri, t.code, g, Payload)
    BY <2>3, <2>4
  <2>6. h.header = g /\ h.kind = t.kind
    BY <2>5, MessageFields
  <2> QED BY <1>1, <2>1, <2>2, <2>6 DEF Whole
<1>3. CASE \E m : Printable(m) /\ t = MessageToString(m)
  <2>1. PICK m : Printable(m) /\ t = MessageToString(m)
    BY <1>3
  <2>2. h = HeaderOnly(m)
    BY <2>1, MessageHeaderRead
  <2>3. h.kind = m.kind /\ HeldHeader(h.header)
    BY <2>1, <2>2, HeaderOnlyIs
  <2>4. m.kind \in Kinds /\ HeldMessage(m)
    BY <2>1 DEF Printable, Whole
  <2>5. HeldText(t)
    BY <2>1, <2>4, TextHeld
  <2> QED BY <1>1, <2>3, <2>4, <2>5 DEF Whole
<1> QED BY <1>2, <1>3 DEF MadeText

(* So is what is read of its body.                                         *)
LEMMA PayloadReadIsWhole ==
  ASSUME NEW t, MadeText(t), NEW h \in ParseHeader(t), NEW r \in ParsePayload(h, t)
  PROVE  Whole(r) /\ r # NoMessage
<1>1. /\ Whole(h) /\ HeldText(t) /\ h = Message(t.kind, t.uri, t.code, h.header, Payload)
  BY HeaderReadIsWhole
<1>2. r = Message(t.kind, t.uri, t.code, h.header, r.payload) /\ HeldMessage(r) /\ r # NoMessage
  BY <1>1, PayloadReadIsHeld
<1>3. r.kind = t.kind /\ r.header = h.header
  BY <1>2, MessageFields
<1>4. h.kind = t.kind
  BY <1>1, MessageFields
<1> QED BY <1>1, <1>2, <1>3, <1>4 DEF Whole

(* A whole message is one.                                                 *)
LEMMA WholeIsMessage ==
  ASSUME NEW m, Whole(m)
  PROVE  m # NoMessage
<1>1. m = Message(m.kind, m.uri, m.code, m.header, m.payload)
  BY DEF Whole, HeldMessage
<1> QED BY <1>1, MessageFields

----------------------------------------------------------------------------
(* The inductive invariant of the exchange: the text is the one that was   *)
(* printed of the message sent, what was read was read from it, what the   *)
(* programs send can be said, and what was read and passed on is sound.    *)
Followed ==
  /\ sent # NoMessage => Whole(sent)
  /\ message_ # NoMessage => Whole(message_)
  /\ IF maker = "foreign" THEN hop = 0 /\ sent = NoMessage /\ stage # "composed" /\ text \in ForeignTexts
     ELSE /\ sent # NoMessage
          /\ stage # "composed" => Printable(sent) /\ text = MessageToString(sent)
  /\ stage = "header" => message_ \in ParseHeader(text) /\ message_.header.content_length # 0
  /\ stage = "read" => message_ # NoMessage /\ ReadFrom(text, message_)
  /\ stage = "refused" => RefusedText(text)
  /\ maker = "program" => SayableMessage(sent)
  /\ maker = "forward" /\ hop >= (IF stage = "composed" THEN 1 ELSE 2) => Sound(sent)

(* At the start nothing has been said.                                     *)
LEMMA FollowedInit == Init => Followed
<1> SUFFICES ASSUME Init PROVE Followed
  OBVIOUS
<1>1. hop = 0 /\ message_ = NoMessage
  BY DEF Init
<1>2. CASE Compose("user", SampleMessages)
  <2>1. Whole(sent) /\ sent # NoMessage
    BY <1>2, SampleMessagesWhole, WholeIsMessage DEF Compose
  <2> QED BY <1>1, <1>2, <2>1 DEF Followed, Compose
<1>3. CASE Compose("program", ProgramMessages)
  <2>1. Whole(sent) /\ SayableMessage(sent)
    BY <1>3, ProgramMessagesSay DEF Compose, Says
  <2>2. sent # NoMessage
    BY <2>1, WholeIsMessage
  <2> QED BY <1>1, <1>3, <2>1, <2>2 DEF Followed, Compose
<1>4. CASE maker = "foreign" /\ stage = "printed" /\ sent = NoMessage /\ text \in ForeignTexts
  BY <1>1, <1>4 DEF Followed
<1> QED BY <1>2, <1>3, <1>4 DEF Init

(* The text on its way is one that was made.                               *)
LEMMA TextIsMade ==
  ASSUME Followed, stage # "composed"
  PROVE  MadeText(text)
BY DEF Followed, MadeText

(* Sending a text keeps the invariant.                                     *)
LEMMA SendFollowed ==
  ASSUME HeldInv, Followed, Send
  PROVE  Followed'
<1>1. /\ stage = "composed" /\ text' = MessageToString(sent) /\ sent' = WithLength(sent)
      /\ hop' = hop + 1 /\ stage' = "printed" /\ maker' = maker /\ message_' = message_
      /\ Len(PayloadToString(sent.payload)) <= INT_MAX
  BY DEF Send
<1>2. maker # "foreign" /\ sent # NoMessage /\ Whole(sent)
  BY <1>1 DEF Followed
<1> DEFINE w == WithLength(sent)
<1>3. Printable(w) /\ (Sound(sent) <=> Sound(w))
  BY <1>1, <1>2, LengthIsStored
<1>4. Whole(w)
  BY <1>3 DEF Printable
<1>5. w # NoMessage
  BY <1>4, WholeIsMessage
<1>6. WithLength(w) = w /\ w.kind = sent.kind /\ w.uri = sent.uri /\ w.code = sent.code /\ w.payload = sent.payload
  BY <1>1, <1>2, <1>3, <1>4, LengthIsStored
<1>7. MessageToString(sent) = MessageToString(w)
  <2>1. MessageToString(sent) =
          [kind |-> sent.kind, uri |-> sent.uri, code |-> sent.code,
           header |-> HeaderToString(w.header), body |-> PayloadToString(sent.payload)]
    BY Zenon DEF MessageToString
  <2>2. MessageToString(w) =
          [kind |-> w.kind, uri |-> w.uri, code |-> w.code,
           header |-> HeaderToString(WithLength(w).header), body |-> PayloadToString(w.payload)]
    BY Zenon DEF MessageToString
  <2> HIDE DEF w
  <2> QED BY <1>6, <2>1, <2>2
<1>8. maker = "program" => SayableMessage(w)
  BY <1>1, <1>2, LengthIsNotSaid DEF Followed
<1>9. maker = "forward" /\ hop + 1 >= 2 => Sound(w)
  <2>1. hop \in Nat
    BY ExchangeAssumption DEF HeldInv
  <2>2. hop + 1 >= 2 => hop >= 1
    BY <2>1
  <2> QED BY <1>1, <1>3, <2>2 DEF Followed
<1>10. message_ # NoMessage => Whole(message_)
  BY DEF Followed
<1> HIDE DEF w
<1>11. sent' = w /\ text' = MessageToString(w)
  BY <1>1, <1>7 DEF w
<1> QED BY <1>1, <1>2, <1>3, <1>4, <1>5, <1>8, <1>9, <1>10, <1>11 DEF Followed

(* Reading the header keeps it.                                            *)
LEMMA HeaderFollowed ==
  ASSUME HeldInv, Followed, ReadTheHeader
  PROVE  Followed'
<1>1. stage = "printed" /\ maker' = maker /\ hop' = hop /\ sent' = sent /\ text' = text
  BY DEF ReadTheHeader
<1>2. MadeText(text)
  BY <1>1, TextIsMade
<1>3. CASE ParseHeader(text) = {} /\ message_' = NoMessage /\ stage' = "refused"
  <2>1. RefusedText(text)
    BY <1>3 DEF RefusedText
  <2> QED BY <1>1, <1>3, <2>1 DEF Followed
<1>4. CASE /\ message_' \in ParseHeader(text)
           /\ stage' = IF message_'.header.content_length = 0 THEN "read" ELSE "header"
  <2> DEFINE h == message_'
  <2>1. Whole(h) /\ h # NoMessage
    BY <1>2, <1>4, HeaderReadIsWhole
  <2>2. CASE h.header.content_length = 0
    <3>1. ReadFrom(text, h) /\ stage' = "read"
      BY <1>4, <2>2 DEF ReadFrom
    <3> HIDE DEF h
    <3>2. message_' = h
      BY DEF h
    <3> QED BY <1>1, <2>1, <3>1, <3>2 DEF Followed
  <2>3. CASE h.header.content_length # 0
    <3>1. stage' = "header" /\ h \in ParseHeader(text)
      BY <1>4, <2>3
    <3> QED BY <1>1, <2>1, <2>3, <3>1 DEF Followed
  <2> QED BY <2>2, <2>3
<1> QED BY <1>3, <1>4 DEF ReadTheHeader, Refuse

(* Reading the body keeps it.                                              *)
LEMMA PayloadFollowed ==
  ASSUME HeldInv, Followed, ReadThePayload
  PROVE  Followed'
<1>1. stage = "header" /\ maker' = maker /\ hop' = hop /\ sent' = sent /\ text' = text
  BY DEF ReadThePayload
<1>2. MadeText(text)
  BY <1>1, TextIsMade
<1>3. message_ \in ParseHeader(text) /\ message_.header.content_length # 0
  BY <1>1 DEF Followed
<1>4. CASE ParsePayload(message_, text) = {} /\ message_' = message_ /\ stage' = "refused"
  <2>1. RefusedText(text)
    BY <1>3, <1>4 DEF RefusedText
  <2> QED BY <1>1, <1>4, <2>1 DEF Followed
<1>5. CASE message_' \in ParsePayload(message_, text) /\ stage' = "read"
  <2> DEFINE r == message_'
  <2>1. Whole(r) /\ r # NoMessage
    BY <1>2, <1>3, <1>5, PayloadReadIsWhole
  <2>2. ReadFrom(text, r)
    BY <1>3, <1>5 DEF ReadFrom
  <2> HIDE DEF r
  <2>3. message_' = r
    BY DEF r
  <2> QED BY <1>1, <1>5, <2>1, <2>2, <2>3 DEF Followed
<1> QED BY <1>4, <1>5 DEF ReadThePayload, Refuse

(* A message that was read is passed on, or answered.                      *)
LEMMA AgainFollowed ==
  ASSUME HeldInv, Followed, stage = "read", NEW by \in {"program", "forward"}, NEW m, Whole(m), Again(by, m),
         by = "program" => SayableMessage(m),
         by = "forward" => (hop >= 1 => Sound(m))
  PROVE  Followed'
<1>1. /\ stage' = "composed" /\ maker' = by /\ sent' = m
      /\ hop' = hop /\ text' = text /\ message_' = message_
  BY DEF Again
<1>2. m # NoMessage
  BY WholeIsMessage
<1> QED BY <1>1, <1>2 DEF Followed

(* Printing again what was read keeps it.                                  *)
LEMMA PassOnFollowed ==
  ASSUME HeldInv, Followed, PassOn
  PROVE  Followed'
<1>1. stage = "read" /\ Again("forward", message_)
  BY DEF PassOn
<1>2. Whole(message_)
  BY <1>1 DEF Followed
<1>3. hop >= 1 => Sound(message_)
  <2> SUFFICES ASSUME hop >= 1 PROVE Sound(message_)
    OBVIOUS
  <2>1. maker # "foreign"
    BY DEF Followed
  <2>2. Printable(sent) /\ text = MessageToString(sent) /\ ReadFrom(text, message_)
    BY <1>1, <2>1 DEF Followed
  <2> QED BY <2>2, ReadMessageIsSound
<1> QED BY <1>1, <1>2, <1>3, AgainFollowed

(* Printing an answer keeps it.                                            *)
LEMMA AnswerFollowed ==
  ASSUME HeldInv, Followed, stage = "read", NEW m, Says(m), Again("program", m)
  PROVE  Followed'
BY AgainFollowed DEF Says

(* Every step of the exchange keeps it.                                    *)
LEMMA FollowedNext == HeldInv /\ Followed /\ [Next]_vars => Followed'
<1> SUFFICES ASSUME HeldInv, Followed, [Next]_vars PROVE Followed'
  OBVIOUS
<1>0. stage = "read" => Whole(message_)
  BY DEF Followed
<1>1. ASSUME Send PROVE Followed'
  BY <1>1, SendFollowed
<1>2. ASSUME ReadTheHeader PROVE Followed'
  BY <1>2, HeaderFollowed
<1>3. ASSUME ReadThePayload PROVE Followed'
  BY <1>3, PayloadFollowed
<1>4. ASSUME PassOn PROVE Followed'
  BY <1>4, PassOnFollowed
<1>5. ASSUME SinkAnswersM3 PROVE Followed'
  <2>1. stage = "read" /\ Again("program", SinkM3Reply(message_))
    BY <1>5 DEF SinkAnswersM3
  <2> QED BY <1>0, <2>1, SinkM3ReplySays, AnswerFollowed
<1>6. ASSUME SinkAnswersM4 PROVE Followed'
  <2>1. stage = "read" /\ Again("program", SinkM4Reply(message_))
    BY <1>6 DEF SinkAnswersM4
  <2> QED BY <1>0, <2>1, SinkM4ReplySays, AnswerFollowed
<1>7. ASSUME SourceAnswersM6 PROVE Followed'
  <2>1. stage = "read" /\ Again("program", SourceM6Reply(message_))
    BY <1>7 DEF SourceAnswersM6
  <2> QED BY <1>0, <2>1, SourceM6ReplySays, AnswerFollowed
<1>8. ASSUME SourceSendsM4 PROVE Followed'
  <2>1. stage = "read" /\ Again("program", SourceM4(message_))
        /\ "wfd_client_rtp_ports" \in DOMAIN message_.payload.properties
    BY <1>8 DEF SourceSendsM4
  <2> QED BY <1>0, <2>1, SourceM4Says, AnswerFollowed
<1>9. ASSUME UNCHANGED vars PROVE Followed'
  BY <1>9 DEF vars, Followed
<1> QED BY <1>1, <1>2, <1>3, <1>4, <1>5, <1>6, <1>7, <1>8, <1>9 DEF Next

----------------------------------------------------------------------------
(* What the invariant says of the properties.                              *)
LEMMA ReadAsSentFollows == Followed => ReadAsSent
<1> SUFFICES ASSUME Followed, maker = "user", stage \in {"read", "refused"}
             PROVE  Sound(sent) <=> stage = "read" /\ message_ = sent
  BY DEF ReadAsSent
<1>1. Printable(sent) /\ text = MessageToString(sent)
  BY DEF Followed
<1>2. Whole(sent)
  BY <1>1 DEF Printable
<1>3. stage = "read" => ReadFrom(text, message_)
  BY DEF Followed
<1>4. stage = "refused" => RefusedText(text)
  BY DEF Followed
<1>5. ASSUME Sound(sent) PROVE stage = "read" /\ message_ = sent
  <2>1. SayableMessage(sent) /\ MessageReadAs(sent) = sent /\ sent.header.cseq >= 0
    BY <1>2, <1>5, SoundIsRead
  <2>2. Understood(text, MessageReadAs(sent))
    BY <1>1, <2>1, MessageIsUnderstood
  <2>3. Understood(text, sent)
    BY <2>1, <2>2
  <2> QED BY <1>3, <1>4, <2>3, UnderstoodOnly
<1>6. ASSUME stage = "read", message_ = sent PROVE Sound(sent)
  BY <1>1, <1>3, <1>6, ReadMessageIsSound
<1> QED BY <1>5, <1>6

(* It implies that nothing is lost when a message is passed on.            *)
LEMMA PassedOnFollows == Followed => PassedOnUnchanged
<1> SUFFICES ASSUME Followed, maker = "forward", hop >= 2, stage \in {"read", "refused"}
             PROVE  stage = "read" /\ message_ = sent
  BY DEF PassedOnUnchanged
<1>1. Printable(sent) /\ text = MessageToString(sent) /\ Sound(sent)
  BY DEF Followed
<1>2. Whole(sent)
  BY <1>1 DEF Printable
<1>3. stage = "read" => ReadFrom(text, message_)
  BY DEF Followed
<1>4. stage = "refused" => RefusedText(text)
  BY DEF Followed
<1>5. SayableMessage(sent) /\ MessageReadAs(sent) = sent /\ sent.header.cseq >= 0
  BY <1>1, <1>2, SoundIsRead
<1>6. Understood(text, MessageReadAs(sent))
  BY <1>1, <1>5, MessageIsUnderstood
<1>7. Understood(text, sent)
  BY <1>5, <1>6
<1> QED BY <1>3, <1>4, <1>7, UnderstoodOnly

(* It implies that the programs understand each other.                     *)
LEMMA UnderstoodFollows == Followed => ProgramsAreUnderstood
<1> SUFFICES ASSUME Followed, maker = "program"
             PROVE  /\ sent.header.cseq >= 0 => stage # "refused"
                    /\ stage = "read" /\ SoundHeader(sent.header) => Meaning(message_) = Meaning(sent)
  BY DEF ProgramsAreUnderstood
<1>1. CASE stage = "composed"
  BY <1>1
<1>2. CASE ~(sent.header.cseq >= 0)
  BY <1>2 DEF SoundHeader
<1>3. CASE stage # "composed" /\ sent.header.cseq >= 0
  <2>1. Printable(sent) /\ text = MessageToString(sent) /\ SayableMessage(sent)
    BY <1>3 DEF Followed
  <2>2. Whole(sent)
    BY <2>1 DEF Printable
  <2>3. stage = "read" => ReadFrom(text, message_)
    BY DEF Followed
  <2>4. stage = "refused" => RefusedText(text)
    BY DEF Followed
  <2>5. Understood(text, MessageReadAs(sent))
    BY <1>3, <2>1, MessageIsUnderstood
  <2>6. stage # "refused" /\ (stage = "read" => message_ = MessageReadAs(sent))
    BY <2>3, <2>4, <2>5, UnderstoodOnly
  <2>7. SoundHeader(sent.header) => Meaning(MessageReadAs(sent)) = Meaning(sent)
    BY <2>2, MeaningIsKept
  <2> QED BY <2>6, <2>7
<1> QED BY <1>1, <1>2, <1>3

(* What was read was read from the text, of the message sent.              *)
THEOREM AlwaysFollowed == Spec => [](HeldInv /\ Followed)
<1>1. Init => HeldInv /\ Followed
  BY InvInit, FollowedInit
<1>2. HeldInv /\ Followed /\ [Next]_vars => (HeldInv /\ Followed)'
  BY InvNext, FollowedNext
<1> QED BY <1>1, <1>2, PTL DEF Spec

(* A message is read as it was made if its text says all of it, and only   *)
(* then (every to_string() and the grammar's rule for it agree).           *)
THEOREM ReadBack == Spec => []ReadAsSent
BY AlwaysFollowed, ReadAsSentFollows, PTL

(* A message that was read can be passed on again and again and is read as *)
(* the same each time.                                                     *)
THEOREM NothingLostTwice == Spec => []PassedOnUnchanged
BY AlwaysFollowed, PassedOnFollows, PTL

(* What the sink and the source say, and what they answer, is accepted by  *)
(* the other's parser and read with its meaning.                           *)
THEOREM ProgramsUnderstand == Spec => []ProgramsAreUnderstood
BY AlwaysFollowed, UnderstoodFollows, PTL

(* Every number of a message that was read, in its header, in each of its  *)
(* properties and in its errors, has a value of the C type of its member,  *)
(* whatever the text said: the parser's 64-bit numbers are cut to it.      *)
THEOREM TypeCorrect == Spec => []MembersFitTheirTypes
<1>1. HeldInv /\ Followed => MembersFitTheirTypes
  <2> SUFFICES ASSUME HeldInv, Followed PROVE MembersFitTheirTypes
    OBVIOUS
  <2>1. /\ stage \in {"composed", "printed", "header", "read", "refused"}
        /\ maker \in {"user", "program", "foreign", "forward"} /\ hop \in 0 .. MaxHops
    BY DEF HeldInv
  <2>2. ASSUME message_ # NoMessage
        PROVE  /\ TypedHeader(message_.header)
               /\ \A n \in DOMAIN message_.payload.properties : TypedProperty(message_.payload.properties[n])
               /\ \A n \in DOMAIN message_.payload.errors : \A i \in DOMAIN message_.payload.errors[n] :
                    message_.payload.errors[n][i] \in UShort
    <3>1. Whole(message_)
      BY <2>2 DEF Followed
    <3>2. HeldHeader(message_.header) /\ HeldPayload(message_.payload)
      BY <3>1 DEF Whole, HeldMessage, HeldIn
    <3>3. TypedHeader(message_.header)
      BY <3>2 DEF HeldHeader, HeldTransport, TypedHeader
    <3>4. TypedPayload(message_.payload)
      BY <3>2, HeldPayloadTyped
    <3> QED BY <3>3, <3>4 DEF TypedPayload
  <2> QED BY <2>1, <2>2, Zenon DEF MembersFitTheirTypes
<1> QED BY <1>1, AlwaysFollowed, PTL
====
