---------------------------- MODULE WfdProperty ----------------------------
(***************************************************************************)
(* The WFD properties: for every class the types of its members (its       *)
(* header), the text to_string() writes (its .cpp file) and what the       *)
(* grammar builds from that text (parser.ypp).                             *)
(*                                                                         *)
(* A property is a record: its name, is_none_, its members and its lists.  *)
(* Its text is the sequence of tokens behind "name: ".                     *)
(***************************************************************************)
EXTENDS WfdText, FiniteSets

Property(type, members, lists) ==
  [type |-> type, none |-> FALSE, members |-> members, lists |-> lists]

NoneProperty(type) == [type |-> type, none |-> TRUE, members |-> <<>>, lists |-> <<>>]

(* Most classes have a constructor for "none"; most texts may say it.      *)
NoneIf(tokens, type) == When(tokens = <<NONE>>, NoneProperty(type))

----------------------------------------------------------------------------
(* AudioCodecs: a format, its modes and its latency for each codec.        *)
AudioFormat == {"LPCM", "AAC", "AC3"}
AudioCodec == <<AsRead, UINT, USHORT>>
AudioCodecDigits == <<16, 8, 2>>

AudioCodecToString(c) == <<c[1]>> \o Hex(<<8, 2>>, <<c[2], c[3]>>)

(* to_string() looks at the list, not at is_none_.                         *)
AudioCodecsToString(p) ==
  IF p.lists = <<>> THEN <<NONE>>
  ELSE Listed(3, [i \in DOMAIN p.lists |-> AudioCodecToString(p.lists[i])])

AudioCodecList == <<AudioFormat, {"NUM"}, {"NUM"}>>

ReadAudioCodecs(tokens) ==
  NoneIf(tokens, "wfd_audio_codecs") \cup
  When(IsList(AudioCodecList, tokens),
       Property("wfd_audio_codecs", <<>>, AssignItems(AudioCodec, 3, tokens)))

----------------------------------------------------------------------------
(* VideoFormats: native resolution, preferred display mode, H.264 codecs.  *)
H264Codec == <<UCHAR, UCHAR, UINT, UINT, UINT, UCHAR, USHORT, USHORT, UCHAR, INT, INT>>
H264CodecDigits == <<2, 2, 8, 8, 8, 2, 4, 4, 2, 4, 4>>

H264CodecToString(c) ==
  Hex(SubSeq(H264CodecDigits, 1, 9), SubSeq(c, 1, 9))
    \o <<IntToString(4, c[10]), IntToString(4, c[11])>>

VideoFormats == <<UCHAR, UCHAR>>

VideoFormatsToString(p) ==
  IF p.none THEN <<NONE>>
  ELSE Hex(<<2, 2>>, p.members) \o Listed(11, [i \in DOMAIN p.lists |-> H264CodecToString(p.lists[i])])

MaxRes == {"NUM", "none"}
ReadH264Codec == Nums(9) \o <<MaxRes, MaxRes>>

(* Two numbers and a list of codecs, as both kinds of formats are read.    *)
ReadFormats(type, members, codec, production, tokens) ==
  LET n == Len(production)
      list == SubSeq(tokens, 3, Len(tokens))
  IN NoneIf(tokens, type) \cup
     When(Len(tokens) > 2 /\ Derives(Nums(2), SubSeq(tokens, 1, 2)) /\ IsList(production, list),
          Property(type, Assign(members, SubSeq(tokens, 1, 2)), AssignItems(codec, n, list)))

ReadVideoFormats(tokens) ==
  ReadFormats("wfd_video_formats", VideoFormats, H264Codec, ReadH264Codec, tokens)

----------------------------------------------------------------------------
(* Formats3d: the same with one 64-bit capability word per codec.          *)
H264Codec3d == <<UCHAR, UCHAR, ULL, UCHAR, USHORT, USHORT, UCHAR, INT, INT>>
H264Codec3dDigits == <<2, 2, 16, 2, 4, 4, 2, 4, 4>>

H264Codec3dToString(c) ==
  Hex(SubSeq(H264Codec3dDigits, 1, 7), SubSeq(c, 1, 7))
    \o <<IntToString(4, c[8]), IntToString(4, c[9])>>

Formats3d == <<UCHAR, UCHAR>>

Formats3dToString(p) ==
  IF p.none THEN <<NONE>>
  ELSE Hex(<<2, 2>>, p.members) \o Listed(9, [i \in DOMAIN p.lists |-> H264Codec3dToString(p.lists[i])])

ReadH264Codec3d == Nums(7) \o <<MaxRes, MaxRes>>

ReadFormats3d(tokens) ==
  ReadFormats("wfd_3d_video_formats", Formats3d, H264Codec3d, ReadH264Codec3d, tokens)

----------------------------------------------------------------------------
(* PreferredDisplayMode: twelve numbers and one codec of VideoFormats.     *)
PreferredDisplayMode ==
  <<UINT, USHORT, USHORT, USHORT, USHORT, USHORT, USHORT, USHORT, USHORT, UCHAR, UCHAR, UCHAR>>
    \o H264Codec

PreferredDisplayModeDigits == <<6, 4, 4, 4, 4, 4, 4, 4, 4, 2, 2, 2>> \o H264CodecDigits

PreferredDisplayModeToString(p) ==
  Hex(SubSeq(PreferredDisplayModeDigits, 1, 12), SubSeq(p.members, 1, 12))
    \o H264CodecToString(SubSeq(p.members, 13, 23))

ReadPreferredDisplayMode(tokens) ==
  When(Derives(Nums(12) \o ReadH264Codec, tokens),
       Property("wfd_preferred_display_mode", Assign(PreferredDisplayMode, tokens), <<>>))

----------------------------------------------------------------------------
(* The other properties with hexadecimal numbers.                          *)

(* CoupledSink: an address of all ones is an unknown address.  status_ is  *)
(* an unsigned short behind a constructor that takes an unsigned char.     *)
CoupledSink == <<UCHAR, ULL>>
CoupledSinkDigits == <<2, 12>>

CoupledSinkToString(p) ==
  IF p.none THEN <<NONE>>
  ELSE <<MAKE_HEX_STRING(2, p.members[1]),
         IF p.members[2] = MinusOne(ULL) THEN NONE ELSE MAKE_HEX_STRING(12, p.members[2])>>

ReadCoupledSink(tokens) ==
  NoneIf(tokens, "wfd_coupled_sink") \cup
  When(Derives(<<{"NUM"}, {"NUM", "none"}>>, tokens),
       Property("wfd_coupled_sink", Assign(CoupledSink, tokens), <<>>))

(* DisplayEdid: a number of blocks and their bytes, "none" without bytes.  *)
DisplayEdid == <<USHORT, AsRead>>

DisplayEdidToString(p) ==
  IF p.none THEN <<NONE>> ELSE <<MAKE_HEX_STRING(2, p.members[1]), p.members[2]>>

ReadDisplayEdid(tokens) ==
  NoneIf(tokens, "wfd_display_edid") \cup
  When(Derives(<<{"NUM"}, {"STRING", "none"}>>, tokens),
       Property("wfd_display_edid", Assign(DisplayEdid, tokens), <<>>))

AVFormatChangeTiming == <<ULL, ULL>>
AVFormatChangeTimingToString(p) == Hex(<<10, 10>>, p.members)

ReadAVFormatChangeTiming(tokens) ==
  When(Derives(Nums(2), tokens),
       Property("wfd_av_format_change_timing", Assign(AVFormatChangeTiming, tokens), <<>>))

ConnectorType == <<USHORT>>
ConnectorTypeToString(p) == IF p.none THEN <<NONE>> ELSE Hex(<<2>>, p.members)

ReadConnectorType(tokens) ==
  NoneIf(tokens, "wfd_connector_type") \cup
  When(Derives(Nums(1), tokens),
       Property("wfd_connector_type", Assign(ConnectorType, tokens), <<>>))

----------------------------------------------------------------------------
(* The properties with decimal numbers and words.  Their text names their  *)
(* members one by one, so reading keeps the tokens that carry a value.     *)

ContentProtection == {"HDCP2.0", "HDCP2.1"}
ContentProtectionToString(p) ==
  IF p.none THEN <<NONE>> ELSE <<p.members[1], Word("port="), p.members[2]>>

ReadContentProtection(tokens) ==
  NoneIf(tokens, "wfd_content_protection") \cup
  When(Derives(<<ContentProtection, {"port="}, {"NUM"}>>, tokens),
       Property("wfd_content_protection", <<tokens[1], Dec(AsUInt(tokens[3]))>>, <<>>))

ClientRtpPorts(port0, port1) == Property("wfd_client_rtp_ports", <<Dec(port0), Dec(port1)>>, <<>>)
ClientRtpPortsToString(p) ==
  <<Word("RTP/AVP/UDP"), p.members[1], p.members[2], Word("mode=play")>>

ReadClientRtpPorts(tokens) ==
  When(Derives(<<{"RTP/AVP/UDP"}, {"NUM"}, {"NUM"}, {"mode=play"}>>, tokens),
       ClientRtpPorts(AsUShort(tokens[2]), AsUShort(tokens[3])))

(* An int: not positive, it is no port; "none" is read as port -1.         *)
PortOf(token) == Dec(IF token = NONE THEN -1 ELSE AsInt(token))
I2C(port) == Property("wfd_I2C", <<port>>, <<>>)
I2CToString(p) == IF p.members[1].dec > 0 THEN p.members ELSE <<NONE>>

(* A slip: the grammar's rule without "none".                              *)
ReadI2CPort(tokens) == When(Derives(<<{"NUM"}>>, tokens), I2C(PortOf(tokens[1])))

ReadI2C(tokens) == When(Derives(<<{"NUM", "none"}>>, tokens), I2C(PortOf(tokens[1])))

(* A property that is one word of a set.                                   *)
ReadWord(type, words, tokens) ==
  When(Derives(<<words>>, tokens), Property(type, tokens, <<>>))

TriggerMethod == {"SETUP", "PAUSE", "TEARDOWN", "PLAY"}
TriggerMethodToString(p) == <<p.members[1]>>
ReadTriggerMethod(tokens) == ReadWord("wfd_trigger_method", TriggerMethod, tokens)

Route == {"primary", "secondary"}
RouteToString(p) == <<p.members[1]>>
ReadRoute(tokens) == ReadWord("wfd_route", Route, tokens)

UIBCSetting == {"enable", "disable"}
UIBCSettingToString(p) == <<p.members[1]>>
ReadUIBCSetting(tokens) == ReadWord("wfd_uibc_setting", UIBCSetting, tokens)

(* The support is kept as is_none_.                                        *)
StandbyResumeCapability(supported) ==
  [NoneProperty("wfd_standby_resume_capability") EXCEPT !.none = ~supported]

StandbyResumeCapabilityToString(p) == <<IF p.none THEN NONE ELSE Word("supported")>>

ReadStandbyResumeCapability(tokens) ==
  When(Derives(<<{"none", "supported"}>>, tokens), StandbyResumeCapability(tokens[1] # NONE))

(* A missing URL is an empty string, written and read as "none".           *)
PresentationUrl(url1, url2) == Property("wfd_presentation_url", <<url1, url2>>, <<>>)
PresentationUrlToString(p) == p.members

(* A slip: the constructor's arguments in the wrong order.                 *)
ReadPresentationUrlSwapped(tokens) ==
  When(Derives(<<{"URL_0", "none"}, {"URL_1", "none"}>>, tokens),
       PresentationUrl(tokens[2], tokens[1]))

ReadPresentationUrl(tokens) ==
  When(Derives(<<{"URL_0", "none"}, {"URL_1", "none"}>>, tokens),
       PresentationUrl(tokens[1], tokens[2]))

(* Standby and IDRRequest are their names alone.                           *)
Standby == Property("wfd_standby", <<>>, <<>>)
IDRRequest == Property("wfd_idr_request", <<>>, <<>>)

(* A property the parser does not know, with the characters of its value:  *)
(* two of them at least are a string to the lexer, which skips one alone.  *)
GenericProperty(key, value) == Property(key, <<value>>, <<>>)
GenericPropertyToString(p) == p.members
HasString(tokens) ==
  \E i \in DOMAIN tokens : Terminal(tokens[i]) = "STRING" /\ Len(tokens[i].chars) >= 2

ReadGenericProperty(key, tokens) ==
  When(Derives(<<{"STRING"}>>, tokens) /\ HasString(tokens), GenericProperty(key, tokens[1]))

----------------------------------------------------------------------------
(* UIBCCapability: three lists and a port, each behind its own word.       *)
InputCategory == {"GENERIC", "HIDC"}
InputType == {"Keyboard", "Mouse", "SingleTouch", "MultiTouch", "Joystick",
              "Camera", "Gesture", "RemoteControl"}
InputPath == {"Infrared", "USB", "BT", "Zigbee", "Wi-Fi", "No-SP"}

UIBCCapability(lists, port) == Property("wfd_uibc_capability", <<port>>, lists)

UIBCLists ==
  << <<InputCategory>>, <<InputType>>, <<InputType, {"/"}, InputPath>> >>
UIBCWords == <<"input_category_list=", "generic_cap_list=", "hidc_cap_list=">>

(* The ";" belongs to the last item: an empty list has none.               *)
UIBCListToString(i, items) ==
  IF items = <<>> THEN <<NONE>> ELSE Listed(Len(UIBCLists[i]), items) \o <<Word("semicolon")>>

(* Without a port "port=" is missing too.                                  *)
UIBCCapabilityToString(p) ==
  IF p.none THEN <<NONE>>
  ELSE <<Word("input_category_list=")>> \o UIBCListToString(1, p.lists[1])
         \o <<Word("generic_cap_list=")>> \o UIBCListToString(2, p.lists[2])
         \o <<Word("hidc_cap_list=")>> \o UIBCListToString(3, p.lists[3])
         \o (IF p.members[1].dec > 0 THEN <<Word("port="), p.members[1]>> ELSE <<NONE>>)

UIBCList(i, part) == IF part = <<NONE>> THEN <<>> ELSE Items(Len(UIBCLists[i]), part)

(* Where each list starts and ends, and the port.  (The grammar also takes *)
(* "none" before further items; to_string() never writes that.)            *)
ReadUIBCLists(tokens, cut) ==
  LET part == [i \in 1 .. 3 |-> SubSeq(tokens, cut[i] + 2, cut[i + 1] - 1)]
      last == SubSeq(tokens, cut[4] + 1, Len(tokens))
  IN When(/\ \A i \in 1 .. 3 : /\ tokens[cut[i] + 1] = Word(UIBCWords[i])
                               /\ part[i] = <<NONE>> \/ IsList(UIBCLists[i], part[i])
          /\ Derives(<<{"port="}, {"NUM", "none"}>>, last),
          UIBCCapability([i \in 1 .. 3 |-> UIBCList(i, part[i])], PortOf(last[2])))

(* A set of three positions, in their order.                               *)
Ascending(ends) ==
  {e \in ends \X ends \X ends : e[1] < e[2] /\ e[2] < e[3] /\ ends = {e[1], e[2], e[3]}}

ReadUIBCCapability(tokens) ==
  LET ends == {i \in DOMAIN tokens : tokens[i] = Word("semicolon")}
  IN NoneIf(tokens, "wfd_uibc_capability") \cup
     UNION {ReadUIBCLists(tokens, <<0, e[1], e[2], e[3]>>) : e \in Ascending(ends)}

----------------------------------------------------------------------------
(* Lines: a name, whether ":" follows it, and the rest.                    *)
PropertyName ==
  {"wfd_audio_codecs", "wfd_video_formats", "wfd_3d_video_formats", "wfd_content_protection",
   "wfd_display_edid", "wfd_coupled_sink", "wfd_trigger_method", "wfd_presentation_url",
   "wfd_client_rtp_ports", "wfd_route", "wfd_I2C", "wfd_av_format_change_timing",
   "wfd_preferred_display_mode", "wfd_uibc_capability", "wfd_uibc_setting",
   "wfd_standby_resume_capability", "wfd_standby", "wfd_connector_type", "wfd_idr_request"}

Bare == {"wfd_standby", "wfd_idr_request"}

(* The names behind which the lexer reads numbers as hexadecimal.          *)
HexMode ==
  {"wfd_audio_codecs", "wfd_video_formats", "wfd_3d_video_formats", "wfd_display_edid",
   "wfd_coupled_sink", "wfd_av_format_change_timing", "wfd_preferred_display_mode",
   "wfd_connector_type"}

(* Property::to_string(), virtual.                                         *)
PropertyToString(p) ==
  CASE p.type = "wfd_audio_codecs" -> AudioCodecsToString(p)
    [] p.type = "wfd_video_formats" -> VideoFormatsToString(p)
    [] p.type = "wfd_3d_video_formats" -> Formats3dToString(p)
    [] p.type = "wfd_content_protection" -> ContentProtectionToString(p)
    [] p.type = "wfd_display_edid" -> DisplayEdidToString(p)
    [] p.type = "wfd_coupled_sink" -> CoupledSinkToString(p)
    [] p.type = "wfd_trigger_method" -> TriggerMethodToString(p)
    [] p.type = "wfd_presentation_url" -> PresentationUrlToString(p)
    [] p.type = "wfd_client_rtp_ports" -> ClientRtpPortsToString(p)
    [] p.type = "wfd_route" -> RouteToString(p)
    [] p.type = "wfd_I2C" -> I2CToString(p)
    [] p.type = "wfd_av_format_change_timing" -> AVFormatChangeTimingToString(p)
    [] p.type = "wfd_preferred_display_mode" -> PreferredDisplayModeToString(p)
    [] p.type = "wfd_uibc_capability" -> UIBCCapabilityToString(p)
    [] p.type = "wfd_uibc_setting" -> UIBCSettingToString(p)
    [] p.type = "wfd_standby_resume_capability" -> StandbyResumeCapabilityToString(p)
    [] p.type = "wfd_connector_type" -> ConnectorTypeToString(p)
    [] p.type \in Bare -> <<>>
    [] OTHER -> GenericPropertyToString(p)

(* wfd_property, for a line whose name a ":" follows.                      *)
ReadProperty(name, text) ==
  LET tokens == IF name \in HexMode THEN LexHex(text) ELSE text
  IN CASE name = "wfd_audio_codecs" -> ReadAudioCodecs(tokens)
       [] name = "wfd_video_formats" -> ReadVideoFormats(tokens)
       [] name = "wfd_3d_video_formats" -> ReadFormats3d(tokens)
       [] name = "wfd_content_protection" -> ReadContentProtection(tokens)
       [] name = "wfd_display_edid" -> ReadDisplayEdid(tokens)
       [] name = "wfd_coupled_sink" -> ReadCoupledSink(tokens)
       [] name = "wfd_trigger_method" -> ReadTriggerMethod(tokens)
       [] name = "wfd_presentation_url" -> ReadPresentationUrl(tokens)
       [] name = "wfd_client_rtp_ports" -> ReadClientRtpPorts(tokens)
       [] name = "wfd_route" -> ReadRoute(tokens)
       [] name = "wfd_I2C" -> ReadI2C(tokens)
       [] name = "wfd_av_format_change_timing" -> ReadAVFormatChangeTiming(tokens)
       [] name = "wfd_preferred_display_mode" -> ReadPreferredDisplayMode(tokens)
       [] name = "wfd_uibc_capability" -> ReadUIBCCapability(tokens)
       [] name = "wfd_uibc_setting" -> ReadUIBCSetting(tokens)
       [] name = "wfd_standby_resume_capability" -> ReadStandbyResumeCapability(tokens)
       [] name = "wfd_connector_type" -> ReadConnectorType(tokens)
       [] name \in Bare -> {}
       [] OTHER -> ReadGenericProperty(name, tokens)
=============================================================================
