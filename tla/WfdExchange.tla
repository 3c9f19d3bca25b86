---------------------------- MODULE WfdExchange ----------------------------
(***************************************************************************)
(* A message is made, printed, read by the Driver of a peer and passed on, *)
(* or answered as the programs answer it.  The messages are those the      *)
(* classes of src/wfd_parser can hold, one property at a time and mixed;   *)
(* those the programs make; and texts of other makers, whose numbers are   *)
(* as long as the lexer takes them.                                        *)
(***************************************************************************)
EXTENDS WfdMessage

CONSTANTS
  MaxHops,        \* how often a message is printed and read
  SinkUdpPort     \* the port of the sink's pipeline

ASSUME ExchangeAssumption == /\ MaxHops \in Nat \ {0}
                             /\ SinkUdpPort \in UShort \ {0}

VARIABLES
  stage,          \* where the message is: composed, printed, header, read, refused
  maker,          \* who made it: a user of the classes, a program, a peer that
                  \* passes on what it read, or a maker of other software
  hop,            \* how many times a message has been printed
  sent,           \* the message made
  text,           \* its text
  message_        \* Driver::message_ of the reader

vars == <<stage, maker, hop, sent, text, message_>>

----------------------------------------------------------------------------
(* Sample numbers for a type of w digits: zero, one, all ones, and a digit *)
(* in front of zeros.                                                      *)
Sample(w) ==
  {Num(<<>>), Num(<<1>>), Num(Repeated(15, w)), Num(<<7>> \o Repeated(0, w - 1)),
   Num(<<9, 1, 2>> \o Repeated(0, IF w > 3 THEN w - 3 ELSE 0))}

Fitting(w) == {n \in Sample(w) : Len(n.num) <= w}

(* Members that are all one but for one, which is any sample of its type.  *)
Ones(members) == [i \in DOMAIN members |-> Num(<<1>>)]
Members(members) ==
  {[Ones(members) EXCEPT ![i] = n] : i \in DOMAIN members, n \in UNION {Fitting(members[j]) : j \in DOMAIN members}}

WellTyped(members, values) ==
  \A i \in DOMAIN members :
    members[i] # AsRead => "num" \in DOMAIN values[i] /\ Len(values[i].num) <= members[i]

Instances(members) == {v \in Members(members) : WellTyped(members, v)}

AudioCodecs ==
  {<<Word(f), modes, latency>> : f \in {"AAC", "AC3"}, modes \in Fitting(UINT), latency \in Fitting(USHORT)}

Bytes(n) == Chars(Repeated(10, n))
SampleBytes == {NONE, Bytes(2), Bytes(16), Bytes(17)}

FirstSampleUrls == {NONE, Url(0, TRUE), Url(0, FALSE)}
SecondSampleUrls == {NONE, Url(1, TRUE)}

SampleProperties ==
  {Property("wfd_audio_codecs", <<>>, <<c>>) : c \in AudioCodecs} \cup
  {Property("wfd_audio_codecs", <<>>, <<c, c>>) : c \in AudioCodecs} \cup
  {Property("wfd_audio_codecs", <<>>, <<>>), NoneProperty("wfd_audio_codecs"),
   NoneProperty("wfd_video_formats"), NoneProperty("wfd_3d_video_formats"),
   NoneProperty("wfd_content_protection"), NoneProperty("wfd_display_edid"),
   NoneProperty("wfd_coupled_sink"), NoneProperty("wfd_uibc_capability"),
   NoneProperty("wfd_connector_type")} \cup
  {Property("wfd_video_formats", Ones(VideoFormats), cs) :
     cs \in {<<>>} \cup {<<c>> : c \in Instances(H264Codec)} \cup {<<c, c>> : c \in Instances(H264Codec)}} \cup
  {Property("wfd_video_formats", v, <<Ones(H264Codec)>>) : v \in Instances(VideoFormats)} \cup
  {Property("wfd_3d_video_formats", Ones(Formats3d), cs) :
     cs \in {<<>>} \cup {<<c>> : c \in Instances(H264Codec3d)} \cup {<<c, c>> : c \in Instances(H264Codec3d)}} \cup
  {Property("wfd_3d_video_formats", v, <<Ones(H264Codec3d)>>) : v \in Instances(Formats3d)} \cup
  {Property("wfd_preferred_display_mode", v, <<>>) : v \in Instances(PreferredDisplayMode)} \cup
  {Property("wfd_coupled_sink", v, <<>>) : v \in Instances(CoupledSink)} \cup
  {Property("wfd_av_format_change_timing", v, <<>>) : v \in Instances(AVFormatChangeTiming)} \cup
  {Property("wfd_connector_type", v, <<>>) : v \in Instances(ConnectorType)} \cup
  {Property("wfd_display_edid", <<n, bytes>>, <<>>) :
     n \in Fitting(USHORT), bytes \in SampleBytes} \cup
  {Property("wfd_content_protection", <<Word(s), Dec(p)>>, <<>>) : s \in ContentProtection, p \in {0, UINT_MAX}} \cup
  {Property("wfd_trigger_method", <<Word(w)>>, <<>>) : w \in TriggerMethod} \cup
  {Property("wfd_route", <<Word(w)>>, <<>>) : w \in Route} \cup
  {Property("wfd_uibc_setting", <<Word(w)>>, <<>>) : w \in UIBCSetting} \cup
  {StandbyResumeCapability(s) : s \in BOOLEAN} \cup
  {PresentationUrl(u, v) : u \in FirstSampleUrls, v \in SecondSampleUrls} \cup
  {ClientRtpPorts(SinkUdpPort, p) : p \in {0, 65535}} \cup
  {I2C(Dec(p)) : p \in {-2, -1, 0, 1, INT_MAX}} \cup
  {Standby, IDRRequest} \cup
  {GenericProperty("vendor_key", Chars(Repeated(1, n))) : n \in 1 .. 2} \cup
  {UIBCCapability(<<cats, gens, hidcs>>, Dec(p)) :
     cats \in {<<>>, << <<Word("GENERIC")>> >>, << <<Word("GENERIC")>>, <<Word("HIDC")>> >>},
     gens \in {<<>>, << <<Word("Mouse")>>, <<Word("Camera")>> >>},
     hidcs \in {<<>>, << <<Word("Gesture"), Word("/"), Word("Wi-Fi")>> >>},
     p \in {-1, INT_MAX}}

WithProperties(ps) ==
  [Payload EXCEPT !.properties = [n \in {p.type : p \in ps} |-> CHOOSE p \in ps : p.type = n]]

(* Pairs that are read together or refuse each other.                      *)
SamplePayloads ==
  {WithProperties({p}) : p \in SampleProperties} \cup
  {WithProperties({p, q}) : p \in {Standby, I2C(Dec(1)), NoneProperty("wfd_coupled_sink")},
                            q \in {IDRRequest, Property("wfd_route", <<Word("primary")>>, <<>>)}}

WithErrors(errors) == [Payload EXCEPT !.errors = errors]
SampleErrors ==
  {WithErrors(Put(Put(<<>>, "vendor_key", <<415, 457>>), n, <<404>>)) : n \in PropertyName \cup {"vendor_key"}}

CSeqHeader(n) == [Header EXCEPT !.cseq = n]

SessionSample(s, t, r) ==
  [CSeqHeader(INT_MAX) EXCEPT !.session = Chars(s), !.timeout = t, !.require_wfd_support = r]

TransportSample(c, cr, s, sr) ==
  [Header EXCEPT !.transport = [client_port |-> c, client_rtcp |-> cr, server_port |-> s, server_rtcp |-> sr]]

VendorSample(ms, n) ==
  [Header EXCEPT !.content_type = Chars(<<1, 2, 3>>), !.supported_methods = ms,
                 !.generic_headers = Put(<<>>, "Server", Chars(Repeated(3, n)))]

SampleHeaders ==
  {CSeqHeader(n) : n \in {-1, 0}} \cup
  {SessionSample(s, t, r) : s \in {<<>>, << 1 >>, <<1, 2>>}, t \in {0, UINT_MAX}, r \in BOOLEAN} \cup
  {TransportSample(c, cr, s, sr) :
     c \in {0, 5000, UINT_MAX}, cr \in BOOLEAN, s \in {0, UINT_MAX}, sr \in BOOLEAN} \cup
  {VendorSample(ms, n) :
     ms \in {<<>>, <<"org.wfa.wfd1.0">>, <<"SETUP", "PLAY", "PAUSE">>}, n \in 1 .. 2}

URI == Chars(<<1>>)

SampleMessages ==
  {NewRequest("SET_PARAMETER", URI, Header, p) : p \in SamplePayloads} \cup
  {NewReply(200, Header, p) : p \in SamplePayloads} \cup
  {NewReply(303, Header, p) : p \in SampleErrors} \cup
  {NewRequest("GET_PARAMETER", URI, Header, [Payload EXCEPT !.parameters = ns]) :
     ns \in {<<n>> : n \in PropertyName} \cup {<<n, "vendor_key">> : n \in PropertyName}} \cup
  {NewRequest(k, u, Header, Payload) : k \in Request, u \in {Star, URI, Chars(<<>>)}} \cup
  {NewReply(200, h, Payload) : h \in SampleHeaders}

----------------------------------------------------------------------------
(* What the programs say.                                                  *)

(* The source's M1 and M2 reply, the sink's M2 and M1 reply.               *)
ProgramOptions == NewRequest("OPTIONS", Star, [CSeqHeader(0) EXCEPT !.require_wfd_support = TRUE], Payload)

SinkMethods == <<"org.wfa.wfd1.0", "GET_PARAMETER", "SET_PARAMETER">>
SourceMethods == SinkMethods \o <<"SETUP", "TEARDOWN", "PLAY", "PAUSE">>
OptionsReply(methods) == NewReply(200, [CSeqHeader(0) EXCEPT !.supported_methods = methods], Payload)

SourceM3 ==
  NewRequest("GET_PARAMETER", URI, CSeqHeader(1),
             [Payload EXCEPT !.parameters =
                <<"wfd_audio_codecs", "wfd_video_formats", "wfd_client_rtp_ports">>])

SourceM5(trigger) ==
  NewRequest("SET_PARAMETER", URI, CSeqHeader(3),
             WithProperties({Property("wfd_trigger_method", <<Word(trigger)>>, <<>>)}))

(* The sink's M6 and what the source answers.                              *)
SinkM6 ==
  NewRequest("SETUP", URI,
             [CSeqHeader(1) EXCEPT !.transport = [TransportHeader EXCEPT !.client_port = SinkUdpPort]],
             Payload)

SourceM6Reply(m) ==
  NewReply(200, [CSeqHeader(m.header.cseq) EXCEPT
                   !.session = Chars(Repeated(1, 8)),
                   !.transport = [TransportHeader EXCEPT !.client_port = m.header.transport.client_port,
                                                         !.server_port = 40000]],
           Payload)

SinkM7 == NewRequest("PLAY", URI, [CSeqHeader(2) EXCEPT !.session = Chars(Repeated(1, 8))], Payload)

ProgramMessages ==
  {ProgramOptions, OptionsReply(SinkMethods), OptionsReply(SourceMethods), SourceM3, SinkM6, SinkM7}
    \cup {SourceM5(t) : t \in TriggerMethod}

(* The sink's answer for a name it is asked for: "none" for most.          *)
SinkCodec(profile) ==
  <<Num(<<profile>>), Num(<<1, 0>>), Num(<<1, 15, 15, 15, 15>>), Num(<<1>> \o Repeated(15, 7)),
    Num(<<15, 15, 15>>), Num(<<>>), Num(<<>>), Num(<<>>), Num(<<1, 1>>), Num(<<>>), Num(<<>>)>>

SinkNone == {"wfd_3d_video_formats", "wfd_content_protection", "wfd_display_edid",
             "wfd_coupled_sink", "wfd_uibc_capability", "wfd_connector_type"}

SinkProperty(name) ==
  CASE name = "wfd_audio_codecs" ->
         {Property(name, <<>>, << <<Word("LPCM"), Num(<<3>>), Num(<<>>)>>,
                                  <<Word("AAC"), Num(<<15>>), Num(<<>>)>>,
                                  <<Word("AC3"), Num(<<7>>), Num(<<>>)>> >>)}
    [] name = "wfd_video_formats" ->
         {Property(name, <<Num(<<4, 0>>), Num(<<>>)>>, <<SinkCodec(1), SinkCodec(2)>>)}
    [] name = "wfd_client_rtp_ports" -> {ClientRtpPorts(SinkUdpPort, 0)}
    [] name = "wfd_I2C" -> {I2C(Dec(0))}
    [] name = "wfd_standby_resume_capability" -> {StandbyResumeCapability(FALSE)}
    [] name \in SinkNone -> {NoneProperty(name)}
    [] OTHER -> {}

SinkM3Reply(m) ==
  LET asked == {m.payload.parameters[i] : i \in DOMAIN m.payload.parameters}
  IN NewReply(200, CSeqHeader(m.header.cseq), WithProperties(UNION {SinkProperty(n) : n \in asked}))

(* The source's M4 hands the ports of the reply back.                      *)
SourceM4(m) ==
  NewRequest("SET_PARAMETER", URI, CSeqHeader(2),
             WithProperties({m.payload.properties["wfd_client_rtp_ports"],
                             PresentationUrl(Url(0, TRUE), NONE)}))

SinkM4Reply(m) ==
  IF "wfd_presentation_url" \in DOMAIN m.payload.properties
  THEN NewReply(200, CSeqHeader(m.header.cseq), Payload)
  ELSE NewReply(303, CSeqHeader(m.header.cseq), WithErrors(Put(<<>>, "wfd_presentation_url", <<404>>)))

----------------------------------------------------------------------------
(* Texts of other makers: numbers of sixteen digits wherever one may       *)
(* stand, decimals too long for every type, empty lists with their ";", a  *)
(* value of one character, names and properties mixed, a property twice.   *)
LongNumbers == {Chars(<<0, 1, 2, 3, 4, 5, 6, 7, 8, 9, 10, 11, 12, 13, 14, 15>>),
                Chars(<<15, 14, 13, 12, 11, 10, 9, 8, 7, 6, 5, 4, 3, 2, 1, 0>>)}

NoInput ==
  [i \in 1 .. 11 |-> Word(<<"input_category_list=", "none", "semicolon",
                            "generic_cap_list=", "none", "semicolon",
                            "hidc_cap_list=", "none", "semicolon", "port=", "none">>[i])]

LongNumberLines(n) ==
  {Line("wfd_audio_codecs", <<Word("AC3"), n, n>>),
   Line("wfd_video_formats", Repeated(n, 13)),
   Line("wfd_3d_video_formats", Repeated(n, 11)),
   Line("wfd_preferred_display_mode", Repeated(n, 23)),
   Line("wfd_coupled_sink", <<n, n>>),
   Line("wfd_display_edid", <<n, NONE>>),
   Line("wfd_av_format_change_timing", <<n, n>>),
   Line("wfd_connector_type", <<n>>)}

(* Decimals that an int, an unsigned int, the parser's number cannot hold. *)
LongDecimals == {INT_MAX + 1, UINT_MAX + 2, ULLONG_MAX + 1}

LongDecimalLines(n) ==
  {Line("wfd_content_protection", <<Word("HDCP2.1"), Word("port="), Dec(n)>>),
   Line("wfd_client_rtp_ports", <<Word("RTP/AVP/UDP"), Dec(n), Dec(0), Word("mode=play")>>),
   Line("wfd_I2C", <<Dec(n)>>),
   Line("wfd_uibc_capability", [NoInput EXCEPT ![11] = Dec(n)])}

ForeignLines ==
  (UNION {LongNumberLines(n) : n \in LongNumbers}) \cup
  (UNION {LongDecimalLines(n) : n \in LongDecimals}) \cup
  {Line("wfd_uibc_capability", NoInput), Line("vendor_key", <<Chars(<< 1 >>)>>),
   BareLine("wfd_standby"), BareLine("vendor_key")}

ForeignBodies ==
  {<<line>> : line \in ForeignLines} \cup
  {<<Line("wfd_I2C", <<Dec(1)>>), line>> : line \in ForeignLines} \cup
  {<<Line("wfd_I2C", <<Dec(1)>>), Line("wfd_I2C", <<NONE>>)>>}

ForeignText(kind, code, body) ==
  [kind |-> kind, uri |-> URI, code |-> code, body |-> body,
   header |-> <<Line("CSeq", <<Dec(0)>>), Line("Content-Length", <<Dec(Len(body))>>)>>]

(* A length that is no int: the body that is not there has it.             *)
ForeignSetup(n) ==
  [kind |-> "SETUP", uri |-> URI, code |-> 0, body |-> <<>>,
   header |-> <<Line("CSeq", <<Dec(n)>>),
                Line("Session", <<Chars(<< 1 >>), Word("timeout="), Dec(n)>>),
                Line("Transport", <<Dec(n), Word("server_port="), Dec(n)>>),
                Line("Content-Length", <<Dec(UINT_MAX + 1)>>)>>]

ForeignTexts ==
  {ForeignText("SET_PARAMETER", 0, body) : body \in ForeignBodies} \cup
  {ForeignText("REPLY", 200, body) : body \in ForeignBodies} \cup
  {ForeignText("REPLY", 303, <<Line(n, <<Dec(70000), Word("comma"), Dec(404)>>)>>) :
     n \in {"wfd_standby", "wfd_route", "vendor_key"}} \cup
  {ForeignSetup(n) : n \in LongDecimals}

----------------------------------------------------------------------------
Compose(by, messages) ==
  /\ maker = by
  /\ stage = "composed"
  /\ sent \in messages
  /\ text = NoMessage

Init ==
  /\ hop = 0
  /\ message_ = NoMessage
  /\ \/ Compose("user", SampleMessages)
     \/ Compose("program", ProgramMessages)
     \/ /\ maker = "foreign"
        /\ stage = "printed"
        /\ sent = NoMessage
        /\ text \in ForeignTexts

(* MiracBroker::send prints the message; the length is stored in it.       *)
(* Bodies too long for their length's int are left out.                    *)
Send ==
  /\ stage = "composed"
  /\ Len(PayloadToString(sent.payload)) <= INT_MAX
  /\ text' = MessageToString(sent)
  /\ sent' = WithLength(sent)
  /\ hop' = hop + 1
  /\ stage' = "printed"
  /\ UNCHANGED <<maker, message_>>

Refuse == stage' = "refused"

(* Driver::parse_header; without a body the message is complete.           *)
ReadTheHeader ==
  /\ stage = "printed"
  /\ LET read == ParseHeader(text)
     IN \/ /\ read = {}
           /\ message_' = NoMessage
           /\ Refuse
        \/ /\ message_' \in read
           /\ stage' = IF message_'.header.content_length = 0 THEN "read" ELSE "header"
  /\ UNCHANGED <<maker, hop, sent, text>>

(* Driver::parse_payload; on an error Driver keeps the header it read.     *)
ReadThePayload ==
  /\ stage = "header"
  /\ LET read == ParsePayload(message_, text)
     IN \/ /\ read = {}
           /\ UNCHANGED message_
           /\ Refuse
        \/ /\ message_' \in read
           /\ stage' = "read"
  /\ UNCHANGED <<maker, hop, sent, text>>

Again(by, m) ==
  /\ hop < MaxHops
  /\ stage' = "composed"
  /\ maker' = by
  /\ sent' = m
  /\ UNCHANGED <<hop, text, message_>>

PassOn == stage = "read" /\ Again("forward", message_)

(* The handlers of the programs that answer with more than 200.            *)
SinkAnswersM3 ==
  /\ stage = "read"
  /\ message_.kind = "GET_PARAMETER"
  /\ Again("program", SinkM3Reply(message_))

SinkAnswersM4 ==
  /\ stage = "read"
  /\ message_.kind = "SET_PARAMETER"
  /\ Again("program", SinkM4Reply(message_))

SourceAnswersM6 ==
  /\ stage = "read"
  /\ message_.kind = "SETUP"
  /\ Again("program", SourceM6Reply(message_))

SourceSendsM4 ==
  /\ stage = "read"
  /\ message_.kind = "REPLY" /\ message_.code = 200
  /\ {"wfd_video_formats", "wfd_audio_codecs", "wfd_client_rtp_ports"}
       \subseteq DOMAIN message_.payload.properties
  /\ Again("program", SourceM4(message_))

Next ==
  \/ Send \/ ReadTheHeader \/ ReadThePayload \/ PassOn
  \/ SinkAnswersM3 \/ SinkAnswersM4 \/ SourceAnswersM6 \/ SourceSendsM4

Spec == Init /\ [][Next]_vars

----------------------------------------------------------------------------
(* What a text can say: the values that to_string() prints whole.          *)
Fits(digits, numbers) == \A i \in DOMAIN digits : Len(numbers[i].num) <= digits[i]

SoundCodec(digits, c) ==
  LET n == Len(digits) - 2
  IN /\ Fits(SubSeq(digits, 1, n), SubSeq(c, 1, n))
     /\ \A i \in {n + 1, n + 2} : c[i] = MinusOne(INT) \/ Len(c[i].num) <= 4

SoundFormats(digits, p) ==
  p.none \/ (p.lists # <<>> /\ Fits(<<2, 2>>, p.members)
                /\ \A i \in DOMAIN p.lists : SoundCodec(digits, p.lists[i]))

SoundProperty(p) ==
  CASE p.type = "wfd_audio_codecs" ->
         p.none \/ (p.lists # <<>> /\ \A i \in DOMAIN p.lists : Len(p.lists[i][3].num) <= 2)
    [] p.type = "wfd_video_formats" -> SoundFormats(H264CodecDigits, p)
    [] p.type = "wfd_3d_video_formats" -> SoundFormats(H264Codec3dDigits, p)
    [] p.type = "wfd_preferred_display_mode" -> SoundCodec(PreferredDisplayModeDigits, p.members)
    [] p.type = "wfd_coupled_sink" ->
         p.none \/ (Len(p.members[2].num) <= 12 \/ p.members[2] = MinusOne(ULL))
    [] p.type = "wfd_display_edid" ->
         p.none \/ (/\ Len(p.members[1].num) <= 2
                    /\ p.members[2] = NONE \/ Len(p.members[2].chars) > 16)
    [] p.type = "wfd_av_format_change_timing" -> Fits(<<10, 10>>, p.members)
    [] p.type = "wfd_connector_type" -> p.none \/ Fits(<<2>>, p.members)
    [] p.type = "wfd_presentation_url" ->
         \A i \in 1 .. 2 : p.members[i] = NONE \/ p.members[i].address
    [] p.type = "wfd_I2C" -> p.members[1].dec > 0 \/ p.members[1].dec = -1
    [] p.type = "wfd_uibc_capability" ->
         p.none \/ (/\ \A i \in 1 .. 3 : p.lists[i] # <<>>
                    /\ p.members[1].dec > 0)
    [] p.type = "vendor_key" -> Len(p.members[1].chars) >= 2
    [] OTHER -> TRUE

SoundHeader(h) ==
  /\ h.cseq >= 0
  /\ Empty(h.session) => h.timeout = 0
  /\ h.transport.client_port = 0 => h.transport = TransportHeader
  /\ h.transport.server_port = 0 => ~h.transport.server_rtcp
  /\ \A k \in DOMAIN h.generic_headers : Len(h.generic_headers[k].chars) >= 2

(* A request asks with the names a reply says "standby" and "IDR request"  *)
(* with, so neither can be set, nor asked in a reply.                      *)
Sound(m) ==
  /\ SoundHeader(m.header)
  /\ m.kind \in Request => ReadsURI(m.kind, m.uri) /\ DOMAIN m.payload.properties \cap Bare = {}
  /\ m.kind = "REPLY" => \A i \in DOMAIN m.payload.parameters : m.payload.parameters[i] \notin Bare
  /\ \A n \in DOMAIN m.payload.properties : SoundProperty(m.payload.properties[n])
  /\ "wfd_standby" \notin DOMAIN m.payload.errors

----------------------------------------------------------------------------
(* Every number of a message that was read, in its header, its properties  *)
(* and its errors, has a value of its member's C type, whatever the text   *)
(* said: the parser's 64-bit numbers are cut to it.                        *)
TypedProperty(p) ==
  p.none \/
  CASE p.type = "wfd_audio_codecs" -> \A i \in DOMAIN p.lists : WellTyped(AudioCodec, p.lists[i])
    [] p.type = "wfd_video_formats" ->
         WellTyped(VideoFormats, p.members) /\ \A i \in DOMAIN p.lists : WellTyped(H264Codec, p.lists[i])
    [] p.type = "wfd_3d_video_formats" ->
         WellTyped(Formats3d, p.members) /\ \A i \in DOMAIN p.lists : WellTyped(H264Codec3d, p.lists[i])
    [] p.type = "wfd_preferred_display_mode" -> WellTyped(PreferredDisplayMode, p.members)
    [] p.type = "wfd_coupled_sink" -> WellTyped(CoupledSink, p.members)
    [] p.type = "wfd_display_edid" -> WellTyped(DisplayEdid, p.members)
    [] p.type = "wfd_av_format_change_timing" -> WellTyped(AVFormatChangeTiming, p.members)
    [] p.type = "wfd_connector_type" -> WellTyped(ConnectorType, p.members)
    [] p.type = "wfd_client_rtp_ports" -> \A i \in 1 .. 2 : p.members[i].dec \in UShort
    [] p.type = "wfd_content_protection" -> p.members[2].dec \in UInt
    [] p.type \in {"wfd_I2C", "wfd_uibc_capability"} -> p.members[1].dec \in SInt
    [] OTHER -> TRUE

TypedHeader(h) ==
  /\ h.cseq \in SInt /\ h.content_length \in SInt /\ h.timeout \in UInt
  /\ h.transport.client_port \in UInt /\ h.transport.server_port \in UInt

MembersFitTheirTypes ==
  /\ stage \in {"composed", "printed", "header", "read", "refused"}
  /\ maker \in {"user", "program", "foreign", "forward"}
  /\ hop \in 0 .. MaxHops
  /\ message_ # NoMessage =>
       LET payload == message_.payload
       IN /\ TypedHeader(message_.header)
          /\ \A n \in DOMAIN payload.properties : TypedProperty(payload.properties[n])
          /\ \A n \in DOMAIN payload.errors : \A i \in DOMAIN payload.errors[n] :
               payload.errors[n][i] \in UShort

(* A message is read exactly as it was made if its values are those a text *)
(* can say, and only then: to_string() of every class and the grammar's    *)
(* rule for it agree, and no line of one property disturbs another.        *)
ReadAsSent ==
  maker = "user" /\ stage \in {"read", "refused"} =>
    (Sound(sent) <=> stage = "read" /\ message_ = sent)

(* Whatever is lost is lost the first time: a message that was read from   *)
(* a text these classes printed can be passed on, and on, unchanged.       *)
PassedOnUnchanged ==
  maker = "forward" /\ hop >= 2 /\ stage \in {"read", "refused"} =>
    stage = "read" /\ message_ = sent

(* No I2C port is read as port -1: the same to whoever asks is_supported().*)
Meaning(m) ==
  [m EXCEPT !.payload.properties =
     [n \in DOMAIN @ |-> IF n = "wfd_I2C" /\ @[n].members[1].dec <= 0 THEN I2C(Dec(0)) ELSE @[n]]]

(* What one program says to another in the negotiation, in answer to       *)
(* whatever it was asked, is accepted and understood.  Not so the server's *)
(* port in the reply to a SETUP that names no client port: a transport     *)
(* header without client port is not written.  Nor the reply to a CSeq     *)
(* that is no int: what is read of it may be negative, and is not read     *)
(* when it is written.                                                     *)
ProgramsAreUnderstood ==
  maker = "program" =>
    /\ sent.header.cseq >= 0 => stage # "refused"
    /\ stage = "read" /\ SoundHeader(sent.header) => Meaning(message_) = Meaning(sent)
=============================================================================
