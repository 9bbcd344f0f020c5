------------------------------ MODULE IeCodecs ------------------------------
(***************************************************************************)
(* The information element codecs on the MCE's wire formats, on bytes.    *)
(*                                                                         *)
(* gtpv2c_ie_formatter.c (src/gtpv2-c/gtpv2c_ie_formatter/src) has, per    *)
(* GTPv2-C IE, a *_set that lays the IE value out in bytes and adds it to  *)
(* the message through nwGtpv2cMsgAddIe, and a *_get the message parser    *)
(* calls back with the IE's length and value bytes.  The two grouped IEs   *)
(* (bearer context to be created, bearer context created) nest TLVs of     *)
(* other IEs.  The TS 24.008 coders of src/src/common (Ies24008) are      *)
(* checked here as well, each with and without its IEI.                    *)
(*                                                                         *)
(* The nw-gtpv2c library is not in the repository: the TLV header it adds  *)
(* (type, 16-bit length, spare/instance byte) and its split of a grouped   *)
(* value are modelled from TS 29.274.  A *_get writes into a zeroed        *)
(* output struct; the fields it does not write stay 0.  Addresses are      *)
(* their network-order bytes (the ntohl/htonl pairs of the code cancel).   *)
(* Bit rates stay below 2^31, TLC's integer bound, so the 40-bit and       *)
(* 32-bit truncations of the rate fields never bite.                       *)
(*   kind     the IE last encoded, value its input;                       *)
(*   wire     the bytes the set produced;                                  *)
(*   decoded  what the get wrote, "none" before it ran.                    *)
(***************************************************************************)
EXTENDS Ies24008

CONSTANTS
    CauseValues, FteidValues, PaaValues, EbiValues, AmbrValues, QosValues,
    SelectionModeValues, TmgiValues,
    ApnValues, PcoValues, Qos24008Values, LlcSapiValues, NetworkNameValues,
    TimeZoneValues, TimeZoneAndTimeValues, DstValues, DrxValues, IdentityType2Values,
    LaiValues, PlmnListValues, Classmark2Values, NetworkFeatureSupportValues

\* IE types of TS 29.274, as the library names them.
NW_GTPV2C_IE_CAUSE == 2
NW_GTPV2C_IE_AMBR == 72
NW_GTPV2C_IE_EBI == 73
NW_GTPV2C_IE_PAA == 79
NW_GTPV2C_IE_BEARER_LEVEL_QOS == 80
NW_GTPV2C_IE_BEARER_TFT == 84
NW_GTPV2C_IE_FTEID == 87
NW_GTPV2C_IE_BEARER_CONTEXT == 93
NW_GTPV2C_IE_BEARER_FLAGS == 97
NW_GTPV2C_IE_SELECTION_MODE == 128

\* The TS 24.008 IEs, sent with or without their IEI.
NasKinds == {"apn", "pco", "qos_24008", "llc_sapi", "network_name", "time_zone",
             "time_zone_and_time", "daylight_saving_time", "drx_parameter",
             "identity_type_2", "lai", "plmn_list", "ms_classmark_2",
             "ms_network_feature_support"}

Kinds == {"cause", "fteid", "paa", "ebi", "ambr", "bearer_qos",
          "bearer_context_to_be_created", "bearer_context_created",
          "selection_mode", "tmgi"} \cup NasKinds

(***************************************************************************)
(* Bytes.                                                                  *)
(***************************************************************************)
ZeroAddr4 == <<0, 0, 0, 0>>
ZeroAddr6 == [i \in 1 .. 16 |-> 0]

\* nwGtpv2cMsgAddIe: a TLV header, then the value.
AddIe(t, inst, v) == <<t, Len(v) \div 256, Len(v) % 256, inst>> \o v

\* The library's walk over consecutive TLVs.
RECURSIVE TlvList(_)
TlvList(v) ==
    IF Len(v) < 4 THEN <<>>
    ELSE LET l == v[2] * 256 + v[3]
         IN <<[t |-> v[1], l |-> l, i |-> v[4], value |-> SubSeq(v, 5, 4 + l)]>>
              \o TlvList(SubSeq(v, 5 + l, Len(v)))

(***************************************************************************)
(* Cause.                                                                  *)
(***************************************************************************)
CauseIeGet(ieLength, ieValue) ==
    [cause_value |-> ieValue[1],
     cs |-> ieValue[2] & 1, bce |-> BitOf(ieValue[2], 1), pce |-> BitOf(ieValue[2], 2),
     offending_ie_type |-> IF ieLength = 6 THEN ieValue[3] ELSE 0,
     offending_ie_length |-> IF ieLength = 6 THEN ieValue[4] * 256 + ieValue[5] ELSE 0,
     offending_ie_instance |-> IF ieLength = 6 THEN ieValue[6] & 15 ELSE 0]

\* The offending IE is sent only when its type is not 0.
CauseIeSet(c) ==
    LET head == <<c.cause_value, (c.pce & 1) * 4 + (c.bce & 1) * 2 + (c.cs & 1)>>
        off == <<c.offending_ie_type, c.offending_ie_length \div 256,
                 c.offending_ie_length % 256, c.offending_ie_instance & 15>>
    IN AddIe(NW_GTPV2C_IE_CAUSE, 0, IF c.offending_ie_type # 0 THEN head \o off ELSE head)

(***************************************************************************)
(* F-TEID: flags and interface type, TEID, then the IPv4 and IPv6         *)
(* addresses present.                                                      *)
(***************************************************************************)
FteidIeSet(f, instance) ==
    AddIe(NW_GTPV2C_IE_FTEID, instance,
          <<f.ipv4 * 128 + f.ipv6 * 64 + (f.interface_type & 63)>>
          \o BigEndianBytes(f.teid, 4)
          \o (IF f.ipv4 = 1 THEN f.ipv4_address ELSE <<>>)
          \o (IF f.ipv6 = 1 THEN f.ipv6_address ELSE <<>>))

\* The interface type is read with the mask 0x1F.
FteidIeGet(ieLength, ieValue) ==
    LET ipv4 == BitOf(ieValue[1], 7)
        ipv6 == BitOf(ieValue[1], 6)
        offset == IF ipv4 = 1 THEN 4 ELSE 0
    IN [ipv4 |-> ipv4, ipv6 |-> ipv6, interface_type |-> ieValue[1] & 31,
        teid |-> BigEndianValue(SubSeq(ieValue, 2, 5)),
        ipv4_address |-> IF ipv4 = 1 THEN SubSeq(ieValue, 6, 9) ELSE ZeroAddr4,
        ipv6_address |-> IF ipv6 = 1 THEN SubSeq(ieValue, 6 + offset, 21 + offset)
                         ELSE ZeroAddr6]

ZeroFteid == [ipv4 |-> 0, ipv6 |-> 0, interface_type |-> 0, teid |-> 0,
              ipv4_address |-> ZeroAddr4, ipv6_address |-> ZeroAddr6]

(***************************************************************************)
(* PAA: the PDN type is 1-based on the wire; IPv6 brings a prefix length   *)
(* and 16 bytes, IPv4 its 4 bytes after them.                              *)
(***************************************************************************)
\* Mutant: the IPv4 address of an IPv4v6 PAA read one byte early.
PaaIeGetOffset16(ieLength, ieValue) ==
    LET t == ieValue[1] & 7
        offset == IF t = 3 THEN 16 ELSE 0
    IN [pdn_type |-> (t + 255) % 256,
        ipv6_prefix_length |-> IF t & 2 # 0 THEN ieValue[2] ELSE 0,
        ipv6_address |-> IF t & 2 # 0 THEN SubSeq(ieValue, 3, 18) ELSE ZeroAddr6,
        ipv4_address |-> IF t & 1 # 0 THEN SubSeq(ieValue, 2 + offset, 5 + offset)
                         ELSE ZeroAddr4]

PaaIeGet(ieLength, ieValue) ==
    LET t == ieValue[1] & 7
        offset == IF t = 3 THEN 17 ELSE 0
    IN [pdn_type |-> (t + 255) % 256,
        ipv6_prefix_length |-> IF t & 2 # 0 THEN ieValue[2] ELSE 0,
        ipv6_address |-> IF t & 2 # 0 THEN SubSeq(ieValue, 3, 18) ELSE ZeroAddr6,
        ipv4_address |-> IF t & 1 # 0 THEN SubSeq(ieValue, 2 + offset, 5 + offset)
                         ELSE ZeroAddr4]

PaaIeSet(p) ==
    LET pdn_type == (p.pdn_type + 1) % 256
    IN AddIe(NW_GTPV2C_IE_PAA, 0,
             <<pdn_type>>
             \o (IF pdn_type & 2 # 0 THEN <<p.ipv6_prefix_length>> \o p.ipv6_address ELSE <<>>)
             \o (IF pdn_type & 1 # 0 THEN p.ipv4_address ELSE <<>>))

(***************************************************************************)
(* EBI, AMBR, selection mode.                                              *)
(***************************************************************************)
EbiIeSet(ebi, instance) == AddIe(NW_GTPV2C_IE_EBI, instance, <<ebi & 15>>)

EbiIeGet(ieLength, ieValue) == ieValue[1] & 15

\* Rates go on the wire in kbit/s, 4 bytes each.
AmbrIeSet(a) ==
    AddIe(NW_GTPV2C_IE_AMBR, 0, BigEndianBytes(a.br_ul \div 1000, 4)
                                \o BigEndianBytes(a.br_dl \div 1000, 4))

AmbrIeGet(ieLength, ieValue) ==
    [br_ul |-> BigEndianValue(SubSeq(ieValue, 1, 4)) * 1000,
     br_dl |-> BigEndianValue(SubSeq(ieValue, 5, 8)) * 1000]

SelectionModeIeSet(sm) == AddIe(NW_GTPV2C_IE_SELECTION_MODE, 0, <<sm>>)

SelectionModeIeGet(ieLength, ieValue) == ieValue[1] & 3
(***************************************************************************)
(* Bearer level QoS: ARP byte, QCI, then MBR and GBR uplink and downlink  *)
(* in kbit/s, 5 bytes each.                                                *)
(***************************************************************************)
QosRates(q) ==
    BigEndianBytes(q.mbr.br_ul \div 1000, 5) \o BigEndianBytes(q.mbr.br_dl \div 1000, 5)
    \o BigEndianBytes(q.gbr.br_ul \div 1000, 5) \o BigEndianBytes(q.gbr.br_dl \div 1000, 5)

BearerQosIeSet(q) ==
    AddIe(NW_GTPV2C_IE_BEARER_LEVEL_QOS, 0,
          <<((q.pci * 64) | (q.pl * 4) | q.pvi) % 256, q.qci>> \o QosRates(q))

RateAt(ieValue, k) == BigEndianValue(SubSeq(ieValue, 3 + 5 * k, 7 + 5 * k)) * 1000

\* Mutant: the priority level read without its mask.
BearerQosIeGetNoPlMask(ieLength, ieValue) ==
    [pci |-> BitOf(ieValue[1], 6), pl |-> ieValue[1] \div 4,
     pvi |-> ieValue[1] & 1, qci |-> ieValue[2],
     mbr |-> [br_ul |-> RateAt(ieValue, 0), br_dl |-> RateAt(ieValue, 1)],
     gbr |-> [br_ul |-> RateAt(ieValue, 2), br_dl |-> RateAt(ieValue, 3)]]

\* The fields, written when the IE has at least 22 bytes.
BearerQosIeGet(ieLength, ieValue) ==
    [pci |-> BitOf(ieValue[1], 6), pl |-> (ieValue[1] \div 4) & 15,
     pvi |-> ieValue[1] & 1, qci |-> ieValue[2],
     mbr |-> [br_ul |-> RateAt(ieValue, 0), br_dl |-> RateAt(ieValue, 1)],
     gbr |-> [br_ul |-> RateAt(ieValue, 2), br_dl |-> RateAt(ieValue, 3)]]

\* Shorter than 22 bytes: nothing written; longer: written, and an error.
BearerQosIeRc(ieLength) == IF ieLength = 22 THEN "NW_OK" ELSE "NW_GTPV2C_IE_INCORRECT"

ZeroQos == [pci |-> 0, pl |-> 0, pvi |-> 0, qci |-> 0,
            mbr |-> [br_ul |-> 0, br_dl |-> 0], gbr |-> [br_ul |-> 0, br_dl |-> 0]]

\* The QoS get inside a grouped IE, whose return code is not checked.
NestedQos(q, ie) == IF ie.l >= 22 THEN BearerQosIeGet(ie.l, ie.value) ELSE q

(***************************************************************************)
(* The grouped bearer context IEs.  Each *_get walks the nested TLVs and   *)
(* fills one bearer context: an EBI, a QoS, F-TEIDs by instance and, for   *)
(* the created one, a cause; a TFT, an F-TEID of an unknown instance or   *)
(* an unknown IE makes it return NW_GTPV2C_IE_INCORRECT.                  *)
(***************************************************************************)
Incorrect(acc) == [acc EXCEPT !.rc = "NW_GTPV2C_IE_INCORRECT"]

BearerContextToBeCreatedIeSet(bc) ==
    AddIe(NW_GTPV2C_IE_BEARER_CONTEXT, 0,
          EbiIeSet(bc.eps_bearer_id, 0) \o BearerQosIeSet(bc.bearer_level_qos))

\* One nested IE of a bearer context to be created; F-TEID instances 0..5
\* are S1-U eNB, S4-U SGSN, S5/S8-U SGW and PGW, S12 RNC, S2b-U ePDG.
ToBeCreatedStep(acc, ie) ==
    CASE acc.rc # "NW_OK" -> acc
      [] ie.t = NW_GTPV2C_IE_EBI -> [acc EXCEPT !.ie.eps_bearer_id = EbiIeGet(ie.l, ie.value)]
      [] ie.t = NW_GTPV2C_IE_BEARER_LEVEL_QOS ->
           [acc EXCEPT !.ie.bearer_level_qos = NestedQos(@, ie)]
      [] ie.t = NW_GTPV2C_IE_FTEID /\ ie.i \in 0 .. 5 ->
           [acc EXCEPT !.ie.fteid[ie.i] = FteidIeGet(ie.l, ie.value)]
      [] OTHER -> Incorrect(acc)

BearerContextToBeCreatedIeGet(ieLength, ieValue) ==
    FoldLeft(ToBeCreatedStep,
             [rc |-> "NW_OK",
              ie |-> [eps_bearer_id |-> 0, bearer_level_qos |-> ZeroQos,
                      fteid |-> [i \in 0 .. 5 |-> ZeroFteid]]],
             TlvList(SubSeq(ieValue, 1, ieLength)))

BearerContextCreatedIeSet(bc) ==
    AddIe(NW_GTPV2C_IE_BEARER_CONTEXT, 0,
          EbiIeSet(bc.eps_bearer_id, 0) \o CauseIeSet(bc.cause))

\* F-TEID instances 0..3 are S1-U SGW, S4-U SGW, S5/S8-U PGW, S12 SGW;
\* bearer flags are skipped.
CreatedStep(acc, ie) ==
    CASE acc.rc # "NW_OK" -> acc
      [] ie.t = NW_GTPV2C_IE_EBI -> [acc EXCEPT !.ie.eps_bearer_id = EbiIeGet(ie.l, ie.value)]
      [] ie.t = NW_GTPV2C_IE_FTEID /\ ie.i \in 0 .. 3 ->
           [acc EXCEPT !.ie.fteid[ie.i] = FteidIeGet(ie.l, ie.value)]
      [] ie.t = NW_GTPV2C_IE_CAUSE -> [acc EXCEPT !.ie.cause = CauseIeGet(ie.l, ie.value)]
      [] ie.t = NW_GTPV2C_IE_BEARER_LEVEL_QOS ->
           [acc EXCEPT !.ie.bearer_level_qos = NestedQos(@, ie)]
      [] ie.t = NW_GTPV2C_IE_BEARER_FLAGS -> acc
      [] OTHER -> Incorrect(acc)

ZeroCause == [cause_value |-> 0, cs |-> 0, bce |-> 0, pce |-> 0, offending_ie_type |-> 0,
              offending_ie_length |-> 0, offending_ie_instance |-> 0]

BearerContextCreatedIeGet(ieLength, ieValue) ==
    FoldLeft(CreatedStep,
             [rc |-> "NW_OK",
              ie |-> [eps_bearer_id |-> 0, cause |-> ZeroCause, bearer_level_qos |-> ZeroQos,
                      fteid |-> [i \in 0 .. 3 |-> ZeroFteid]]],
             TlvList(SubSeq(ieValue, 1, ieLength)))

(***************************************************************************)
(* One IE at a time: a sender encodes it, the receiver's parser hands its  *)
(* value to the matching get.                                              *)
(***************************************************************************)
VARIABLES kind, value, wire, decoded

vars == <<kind, value, wire, decoded>>

NasValues(k) ==
    CASE k = "apn" -> ApnValues
      [] k = "pco" -> PcoValues
      [] k = "qos_24008" -> Qos24008Values
      [] k = "llc_sapi" -> LlcSapiValues
      [] k = "network_name" -> NetworkNameValues
      [] k = "time_zone" -> TimeZoneValues
      [] k = "time_zone_and_time" -> TimeZoneAndTimeValues
      [] k = "daylight_saving_time" -> DstValues
      [] k = "drx_parameter" -> DrxValues
      [] k = "identity_type_2" -> IdentityType2Values
      [] k = "lai" -> LaiValues
      [] k = "plmn_list" -> PlmnListValues
      [] k = "ms_classmark_2" -> Classmark2Values
      [] k = "ms_network_feature_support" -> NetworkFeatureSupportValues

\* Identity type 2 is never sent with an IEI: both its coders AssertFatal.
NasIeiPresent(k) == IF k = "identity_type_2" THEN {FALSE} ELSE BOOLEAN

\* The network name's IEI as the EMM information message passes it.
FULL_NAME_FOR_NETWORK_IEI == 67

NetworkNameIei(present) == IF present THEN FULL_NAME_FOR_NETWORK_IEI ELSE 0

NasEncode(k, x, present) ==
    CASE k = "apn" -> encode_access_point_name_ie(x, present)
      [] k = "pco" -> encode_protocol_configuration_options_ie(x, present)
      [] k = "qos_24008" -> encode_quality_of_service_ie(x, present)
      [] k = "llc_sapi" -> encode_llc_service_access_point_identifier_ie(x, present)
      [] k = "network_name" -> encode_network_name_ie(x, NetworkNameIei(present))
      [] k = "time_zone" -> encode_time_zone(x, present)
      [] k = "time_zone_and_time" -> encode_time_zone_and_time(x, present)
      [] k = "daylight_saving_time" -> encode_daylight_saving_time_ie(x, present)
      [] k = "drx_parameter" -> encode_drx_parameter_ie(x, present)
      [] k = "identity_type_2" -> encode_identity_type_2_ie(x)
      [] k = "lai" -> encode_location_area_identification_ie(x, present)
      [] k = "plmn_list" -> encode_plmn_list_ie(x, present)
      [] k = "ms_classmark_2" -> encode_mobile_station_classmark_2_ie(x, present)
      [] k = "ms_network_feature_support" -> encode_ms_network_feature_support_ie(x, present)

\* The PLMN list is decoded into a zeroed struct (num_plmn 0).
NasDecode(k, present, w) ==
    CASE k = "apn" -> decode_access_point_name_ie(w, present)
      [] k = "pco" -> decode_protocol_configuration_options_ie(w, present)
      [] k = "qos_24008" -> decode_quality_of_service_ie(w, present)
      [] k = "llc_sapi" -> decode_llc_service_access_point_identifier_ie(w, present)
      [] k = "network_name" -> decode_network_name_ie(w, NetworkNameIei(present))
      [] k = "time_zone" -> decode_time_zone(w, present)
      [] k = "time_zone_and_time" -> decode_time_zone_and_time(w, present)
      [] k = "daylight_saving_time" -> decode_daylight_saving_time_ie(w, present)
      [] k = "drx_parameter" -> decode_drx_parameter_ie(w, present)
      [] k = "identity_type_2" -> decode_identity_type_2_ie(w)
      [] k = "lai" -> decode_location_area_identification_ie(w, present)
      [] k = "plmn_list" -> decode_plmn_list_ie(w, present, 0)
      [] k = "ms_classmark_2" -> decode_mobile_station_classmark_2_ie(w, present)
      [] k = "ms_network_feature_support" -> decode_ms_network_feature_support_ie(w, present)

Inputs(k) ==
    CASE k = "cause" -> CauseValues
      [] k = "fteid" -> FteidValues
      [] k = "paa" -> PaaValues
      [] k = "ebi" -> EbiValues
      [] k = "ambr" -> AmbrValues
      [] k = "bearer_qos" -> QosValues
      [] k = "bearer_context_to_be_created" ->
           [eps_bearer_id : EbiValues, bearer_level_qos : QosValues]
      [] k = "bearer_context_created" -> [eps_bearer_id : EbiValues, cause : CauseValues]
      [] k = "selection_mode" -> SelectionModeValues
      [] k = "tmgi" -> TmgiValues
      [] k \in NasKinds -> [ie : NasValues(k), iei_present : NasIeiPresent(k)]

EncodeIe(k, v) ==
    CASE k = "cause" -> CauseIeSet(v)
      [] k = "fteid" -> FteidIeSet(v, 0)
      [] k = "paa" -> PaaIeSet(v)
      [] k = "ebi" -> EbiIeSet(v, 0)
      [] k = "ambr" -> AmbrIeSet(v)
      [] k = "bearer_qos" -> BearerQosIeSet(v)
      [] k = "bearer_context_to_be_created" -> BearerContextToBeCreatedIeSet(v)
      [] k = "bearer_context_created" -> BearerContextCreatedIeSet(v)
      [] k = "selection_mode" -> SelectionModeIeSet(v)
      [] k = "tmgi" -> encode_tmgi_mobile_identity(v)
      [] k \in NasKinds -> NasEncode(k, v.ie, v.iei_present)

Ok(x) == [rc |-> "NW_OK", ie |-> x]

DecodeIe(k, w) ==
    IF k = "tmgi" THEN decode_tmgi_mobile_identity(w)
    ELSE LET l == TlvList(w)[1].l
             v == TlvList(w)[1].value
         IN CASE k = "cause" -> Ok(CauseIeGet(l, v))
              [] k = "fteid" -> Ok(FteidIeGet(l, v))
              [] k = "paa" -> Ok(PaaIeGet(l, v))
              [] k = "ebi" -> Ok(EbiIeGet(l, v))
              [] k = "ambr" -> Ok(AmbrIeGet(l, v))
              [] k = "bearer_qos" ->
                   [rc |-> BearerQosIeRc(l),
                    ie |-> IF l >= 22 THEN BearerQosIeGet(l, v) ELSE ZeroQos]
              [] k = "bearer_context_to_be_created" -> BearerContextToBeCreatedIeGet(l, v)
              [] k = "bearer_context_created" -> BearerContextCreatedIeGet(l, v)
              [] k = "selection_mode" -> Ok(SelectionModeIeGet(l, v))

Init == /\ kind = "none"
        /\ value = "none"
        /\ wire = <<>>
        /\ decoded = [rc |-> "none"]

\* A *_set or encode_* on one input.
Encode(k) ==
    \E v \in Inputs(k) :
        /\ kind' = k
        /\ value' = v
        /\ wire' = EncodeIe(k, v)
        /\ decoded' = [rc |-> "none"]

\* The matching *_get or decode_* on the bytes; a NAS decoder is told, as
\* by the message layout, whether the IE starts with its IEI.
Decode ==
    /\ kind # "none"
    /\ decoded.rc = "none"
    /\ decoded' = IF kind \in NasKinds THEN NasDecode(kind, value.iei_present, wire)
                  ELSE DecodeIe(kind, wire)
    /\ UNCHANGED <<kind, value, wire>>

Next == (\E k \in Kinds : Encode(k)) \/ Decode

Spec == Init /\ [][Next]_vars

(***************************************************************************)
(* Properties.  What a receiver gets is the sender's input with the rates  *)
(* rounded down to kbit/s, the 4-bit fields masked, and the parts the IE   *)
(* does not carry left 0.                                                  *)
(***************************************************************************)
Kbps(r) == (r \div 1000) * 1000

NormRates(q) == [q EXCEPT !.mbr = [br_ul |-> Kbps(@.br_ul), br_dl |-> Kbps(@.br_dl)],
                          !.gbr = [br_ul |-> Kbps(@.br_ul), br_dl |-> Kbps(@.br_dl)]]

NormCause(c) ==
    IF c.offending_ie_type = 0
    THEN [c EXCEPT !.offending_ie_length = 0, !.offending_ie_instance = 0]
    ELSE [c EXCEPT !.offending_ie_instance = @ % 16]

NormFteid(f) ==
    [f EXCEPT !.ipv4_address = IF f.ipv4 = 1 THEN @ ELSE ZeroAddr4,
              !.ipv6_address = IF f.ipv6 = 1 THEN @ ELSE ZeroAddr6]

NormPaa(p) ==
    LET t == p.pdn_type + 1
    IN [p EXCEPT !.ipv6_prefix_length = IF t & 2 # 0 THEN @ ELSE 0,
                 !.ipv6_address = IF t & 2 # 0 THEN @ ELSE ZeroAddr6,
                 !.ipv4_address = IF t & 1 # 0 THEN @ ELSE ZeroAddr4]

Received(k, v) ==
    CASE k = "cause" -> NormCause(v)
      [] k = "fteid" -> NormFteid(v)
      [] k = "paa" -> NormPaa(v)
      [] k = "ebi" -> v % 16
      [] k = "ambr" -> [br_ul |-> Kbps(v.br_ul), br_dl |-> Kbps(v.br_dl)]
      [] k = "bearer_qos" -> NormRates(v)
      [] k = "bearer_context_to_be_created" ->
           [eps_bearer_id |-> v.eps_bearer_id % 16, bearer_level_qos |-> NormRates(v.bearer_level_qos),
            fteid |-> [i \in 0 .. 5 |-> ZeroFteid]]
      [] k = "bearer_context_created" ->
           [eps_bearer_id |-> v.eps_bearer_id % 16, cause |-> NormCause(v.cause),
            bearer_level_qos |-> ZeroQos, fteid |-> [i \in 0 .. 3 |-> ZeroFteid]]
      [] k = "selection_mode" -> v
      [] k = "tmgi" -> v
      [] k = "apn" -> [null |-> FALSE, data |-> v.ie]
      [] k \in NasKinds -> v.ie

\* The NAS decoders that read their value from *buffer, the IEI or the
\* length octet, instead of *(buffer + decoded): the daylight saving time,
\* the LLC SAPI sent with its IEI and the network name, whose decoder also
\* reads its fields at other bits than its encoder writes them (hazards).
ReadsFirstOctet(k, v) ==
    \/ k \in {"daylight_saving_time", "network_name"}
    \/ k = "llc_sapi" /\ v.iei_present

\* MS network feature support sent with its IEI: the encoder leaves the IEI
\* bits 0 and the decoder rejects the octet (hazard).
WritesNoIei(k, v) == k = "ms_network_feature_support" /\ v.iei_present

\* The QoS a decoded IE carries, if any.
DecodedQos ==
    CASE decoded.rc = "none" -> {}
      [] kind = "bearer_qos" -> {decoded.ie}
      [] kind \in {"bearer_context_to_be_created", "bearer_context_created"} ->
           {decoded.ie.bearer_level_qos}
      [] OTHER -> {}

TypeOK ==
    /\ kind \in Kinds \cup {"none"}
    /\ \A i \in DOMAIN wire : wire[i] \in 0 .. 255
    /\ decoded.rc \in {"none", "NW_OK", "NW_GTPV2C_IE_INCORRECT", "TLV_VALUE_DOESNT_MATCH",
                         "TLV_UNEXPECTED_IEI", "TLV_BUFFER_TOO_SHORT", "AssertFatal"}
    /\ \A q \in DecodedQos : q.pci \in 0 .. 1 /\ q.pl \in 0 .. 15 /\ q.pvi \in 0 .. 1

\* Every IE the code encodes decodes, through the peer's get, without an
\* error and to what was sent (up to kbit/s rounding, the masks and the
\* fields the IE omits): the byte layouts of each *_set and its *_get, the
\* nested TLVs of the grouped bearer contexts, the TMGI coder and the
\* TS 24.008 coders (APN labels, PCO containers, QoS bit fields) agree.
\* The F-TEID interface type is left out: its set keeps 6 bits and its get
\* 5 (hazard); so are the coders of ReadsFirstOctet and WritesNoIei.
RoundTrip ==
    decoded.rc # "none"
    /\ ~(kind \in NasKinds /\ (ReadsFirstOctet(kind, value) \/ WritesNoIei(kind, value))) =>
        /\ decoded.rc = "NW_OK"
        /\ IF kind = "fteid"
           THEN [decoded.ie EXCEPT !.interface_type = 0]
                  = [Received(kind, value) EXCEPT !.interface_type = 0]
           ELSE decoded.ie = Received(kind, value)

\* A NAS decoder that succeeds returns the number of bytes its encoder
\* wrote, IEI and length octet included: the message decoder advances by
\* that count, so one byte more or less misreads every following IE.  It
\* covers the APN decoder's label loop (empty labels, the uint8_t ielen),
\* the PCO container loop and every fixed layout, with and without IEI.
LengthsAgree ==
    kind \in NasKinds /\ decoded.rc = "NW_OK" => decoded.decoded = Len(wire)
====
