------------------------------ MODULE Ies24008 ------------------------------
(***************************************************************************)
(* The TS 24.008 information element coders of src/src/common, as         *)
(* operators on byte sequences.                                            *)
(*                                                                         *)
(* Each encode_*_ie writes the IEI when the IE is sent with one, a length *)
(* octet for a TLV/LV IE (lenPtr, filled in last as encoded - 1 - IEI),    *)
(* then the value.  Each decode_*_ie checks the IEI and the length and     *)
(* returns the number of bytes it decoded, by which the NAS message        *)
(* decoder advances to the next IE; here a decoder returns                 *)
(*   [rc |-> return code, ie |-> the struct it filled, decoded |-> count]. *)
(* The TLV macros (CHECK_IEI_DECODER, CHECK_LENGTH_DECODER, ENCODE_U16,    *)
(* encode_bstring, decode_bstring) are not in the repository; they are     *)
(* modelled by what their names and callers say: an IEI mismatch is       *)
(* TLV_UNEXPECTED_IEI, fewer bytes than a length is TLV_BUFFER_TOO_SHORT,  *)
(* a bstring is copied byte for byte, U16 is network order.  The minimum  *)
(* length checks on the buffer are left out: every buffer here is long    *)
(* enough.  A bstring is its bytes; NULL and empty are both <<>>.          *)
(***************************************************************************)
EXTENDS Naturals, Sequences, SequencesExt, Bitwise

(***************************************************************************)
(* Bytes.                                                                  *)
(***************************************************************************)
RECURSIVE ShiftBytes(_, _)
ShiftBytes(x, k) == IF k = 0 THEN x ELSE ShiftBytes(x \div 256, k - 1)

\* x as n bytes, most significant first.
BigEndianBytes(x, n) == [i \in 1 .. n |-> ShiftBytes(x, n - i) % 256]

BigEndianValue(s) == FoldLeft(LAMBDA acc, b : acc * 256 + b, 0, s)

\* Bit j (0 = least significant) of a byte.
BitOf(b, j) == (b \div 2 ^ j) % 2

\* IEIs of the TS 24.008 / 24.301 message tables (the headers defining
\* them are not in the repository).
SM_ACCESS_POINT_NAME_IEI == 40
SM_PROTOCOL_CONFIGURATION_OPTIONS_IEI == 39
SM_QUALITY_OF_SERVICE_IEI == 48
SM_LLC_SERVICE_ACCESS_POINT_IDENTIFIER_IEI == 50
MM_TIME_ZONE_IEI == 70
MM_TIME_ZONE_AND_TIME_IEI == 71
MM_DAYLIGHT_SAVING_TIME_IEI == 73
GMM_DRX_PARAMETER_IEI == 39
C_LOCATION_AREA_IDENTIFICATION_IEI == 19
C_MOBILE_STATION_CLASSMARK_2_IEI == 17
C_PLMN_LIST_IEI == 74
C_MS_NETWORK_FEATURE_SUPPORT_IEI == 192
\* Type of identity of a TMGI, TS 24.008 10.5.1.4.
MOBILE_IDENTITY_TMGI == 5
\* '.' in an APN string.
DOT == 46

(***************************************************************************)
(* The IEI and length octets every coder writes and checks.               *)
(***************************************************************************)
IeiOctet(iei, present) == IF present THEN <<iei>> ELSE <<>>

Off(present) == IF present THEN 1 ELSE 0

\* *lenPtr = encoded - 1 - IEI, an uint8_t, before the value.
LengthOctet(v) == <<Len(v) % 256>>

\* CHECK_IEI_DECODER, then, for an IE with a length octet,
\* CHECK_LENGTH_DECODER(len - decoded, ielen).
HeaderRc(b, iei, present, hasLength) ==
    CASE present /\ b[1] # iei -> "TLV_UNEXPECTED_IEI"
      [] hasLength /\ Len(b) - Off(present) - 1 < b[Off(present) + 1] -> "TLV_BUFFER_TOO_SHORT"
      [] OTHER -> "NW_OK"

Decoded(rc, ie, n) == [rc |-> rc, ie |-> ie, decoded |-> n]

Failed(rc) == [rc |-> rc, ie |-> "none", decoded |-> 0]

(***************************************************************************)
(* TMGI (10.5.1.4): flags and type of identity, the 24-bit MBMS service    *)
(* id, the MCC/MNC digits in nibbles, the MBMS session id.                 *)
(***************************************************************************)
encode_tmgi_mobile_identity(t) ==
    <<(t.mbmssessionidindication & 1) * 32 + (t.mccmncindication & 1) * 16
        + (t.oddeven & 1) * 8 + (t.typeofidentity & 7)>>
    \o BigEndianBytes(t.mbmsserviceid, 3)
    \o <<(t.mccdigit2 & 15) * 16 + (t.mccdigit1 & 15),
         (t.mncdigit3 & 15) * 16 + (t.mccdigit3 & 15),
         (t.mncdigit2 & 15) * 16 + (t.mncdigit1 & 15), t.mbmssessionid>>

\* The spare bits are read as (octet >> 6) & 0x2: only bit 8 is checked.
\* No caller reads the fields after a mismatch.
decode_tmgi_mobile_identity(b) ==
    LET t == [mbmssessionidindication |-> BitOf(b[1], 5), mccmncindication |-> BitOf(b[1], 4),
              oddeven |-> BitOf(b[1], 3), typeofidentity |-> b[1] & 7,
              mbmsserviceid |-> BigEndianValue(SubSeq(b, 2, 4)),
              mccdigit2 |-> b[5] \div 16, mccdigit1 |-> b[5] & 15,
              mncdigit3 |-> b[6] \div 16, mccdigit3 |-> b[6] & 15,
              mncdigit2 |-> b[7] \div 16, mncdigit1 |-> b[7] & 15, mbmssessionid |-> b[8]]
    IN [rc |-> IF (b[1] \div 64) & 2 # 0 \/ b[1] & 7 # MOBILE_IDENTITY_TMGI
               THEN "TLV_VALUE_DOESNT_MATCH" ELSE "NW_OK",
        ie |-> t]

(***************************************************************************)
(* Access point name (10.5.6.1): the dotted string as length-prefixed     *)
(* labels.  The encoder's loop keeps the position of the pending length   *)
(* octet and writes it at each '.' and at the end; the string is its      *)
(* bytes, without NUL.                                                     *)
(***************************************************************************)
ApnEncodeStep(acc, c) ==
    IF c = DOT THEN [out |-> acc.out \o LengthOctet(acc.cur) \o acc.cur, cur |-> <<>>]
    ELSE [acc EXCEPT !.cur = Append(@, c)]

apn_encoded(apn) ==
    LET a == FoldLeft(ApnEncodeStep, [out |-> <<>>, cur |-> <<>>], apn)
    IN a.out \o LengthOctet(a.cur) \o a.cur

encode_access_point_name_ie(apn, present) ==
    IeiOctet(SM_ACCESS_POINT_NAME_IEI, present) \o LengthOctet(apn_encoded(apn))
    \o apn_encoded(apn)

\* The decoder's while (1 <= ielen) loop after the first label: a '.',
\* then the label if its length is not 0; ielen is an uint8_t.
RECURSIVE ApnLabelsNoAdvance(_, _, _, _)
ApnLabelsNoAdvance(b, d, ielen, apn) ==
    IF ielen < 1 THEN Decoded("NW_OK", apn, d)
    ELSE LET l == b[d + 1]
         IN CASE l = 0 -> ApnLabelsNoAdvance(b, d, ielen - 1, Append(apn, DOT))
              [] ielen - 1 < l -> Decoded("AssertFatal", apn, d + 1)
              [] OTHER -> ApnLabelsNoAdvance(b, d + 1 + l, ielen - 1 - l,
                                             Append(apn, DOT) \o SubSeq(b, d + 2, d + 1 + l))

RECURSIVE ApnLabels(_, _, _, _)
ApnLabels(b, d, ielen, apn) ==
    IF ielen < 1 THEN Decoded("NW_OK", apn, d)
    ELSE LET l == b[d + 1]
         IN CASE l = 0 -> ApnLabels(b, d + 1, ielen - 1, Append(apn, DOT))
              [] ielen - 1 < l -> Decoded("AssertFatal", apn, d + 1)
              [] OTHER -> ApnLabels(b, d + 1 + l, ielen - 1 - l,
                                    Append(apn, DOT) \o SubSeq(b, d + 2, d + 1 + l))

\* An ielen of 0 or 1 leaves the APN NULL; the first label is copied with
\* no check against ielen.
decode_access_point_name_ie(b, present) ==
    LET d == Off(present) + 1
        ielen == b[d]
        l1 == b[d + 1]
        r == ApnLabels(b, d + 1 + l1, (ielen - 1 - l1) % 256, SubSeq(b, d + 2, d + 1 + l1))
    IN CASE HeaderRc(b, SM_ACCESS_POINT_NAME_IEI, present, TRUE) # "NW_OK" ->
              Failed(HeaderRc(b, SM_ACCESS_POINT_NAME_IEI, present, TRUE))
         [] ielen <= 1 -> Decoded("NW_OK", [null |-> TRUE, data |-> <<>>], d)
         [] OTHER -> Decoded(r.rc, [null |-> FALSE, data |-> r.ie], r.decoded)

(***************************************************************************)
(* Protocol configuration options (10.5.6.3): a flag octet with the       *)
(* configuration protocol, then per protocol or container its 16-bit id,  *)
(* its length octet and its contents.                                      *)
(***************************************************************************)
PcoContainer(e) == BigEndianBytes(e.id, 2) \o <<e.length>> \o e.contents

\* The flag octet is 1000 0ppp.
encode_protocol_configuration_options(pco) ==
    <<128 + (pco.configuration_protocol & 7)>>
    \o FoldLeft(LAMBDA acc, e : acc \o PcoContainer(e), <<>>, pco.protocol_or_container_ids)

encode_protocol_configuration_options_ie(pco, present) ==
    IeiOctet(SM_PROTOCOL_CONFIGURATION_OPTIONS_IEI, present)
    \o LengthOctet(encode_protocol_configuration_options(pco))
    \o encode_protocol_configuration_options(pco)

\* The while (3 <= len - decoded) loop: one container per turn, with no
\* bound on num_protocol_or_container_id.
RECURSIVE PcoContainers(_, _, _, _)
PcoContainers(b, len, d, ids) ==
    IF 3 <= len - d
    THEN LET l == b[d + 3]
             e == [id |-> BigEndianValue(SubSeq(b, d + 1, d + 2)), length |-> l,
                   contents |-> SubSeq(b, d + 4, d + 3 + l)]
         IN IF 0 < l /\ len - (d + 3) < l THEN Failed("TLV_BUFFER_TOO_SHORT")
            ELSE PcoContainers(b, len, d + 3 + l, Append(ids, e))
    ELSE Decoded("NW_OK", ids, d)

\* Bit 8 must be 1 and bits 7 to 4 0; the protocol is read as (b >> 1) & 7.
decode_protocol_configuration_options(b, len) ==
    LET r == PcoContainers(b, len, 1, <<>>)
    IN CASE BitOf(b[1], 7) # 1 \/ (b[1] & 120) \div 8 # 0 -> Failed("TLV_VALUE_DOESNT_MATCH")
         [] r.rc # "NW_OK" -> r
         [] OTHER -> Decoded("NW_OK", [configuration_protocol |-> (b[1] \div 2) & 7,
                                        protocol_or_container_ids |-> r.ie], r.decoded)

\* The inner decoder is given len - decoded, the rest of the buffer, and
\* not ielen.
decode_protocol_configuration_options_ie(b, present) ==
    LET d == Off(present) + 1
        r == decode_protocol_configuration_options(SubSeq(b, d + 1, Len(b)), Len(b) - d)
    IN CASE HeaderRc(b, SM_PROTOCOL_CONFIGURATION_OPTIONS_IEI, present, TRUE) # "NW_OK" ->
              Failed(HeaderRc(b, SM_PROTOCOL_CONFIGURATION_OPTIONS_IEI, present, TRUE))
         [] r.rc # "NW_OK" -> r
         [] OTHER -> [r EXCEPT !.decoded = d + @]

(***************************************************************************)
(* Quality of service (10.5.6.5): 12 octets of bit fields.                 *)
(***************************************************************************)
QosOctets(q) ==
    << (q.delayclass & 7) * 8 + (q.reliabilityclass & 7),
       (q.peakthroughput & 15) * 16 + (q.precedenceclass & 7),
       q.meanthroughput & 31,
       (q.trafficclass & 7) * 32 + (q.deliveryorder & 3) * 8 + (q.deliveryoferroneoussdu & 7),
       q.maximumsdusize, q.maximumbitrateuplink, q.maximumbitratedownlink,
       (q.residualber & 15) * 16 + (q.sduratioerror & 15),
       (q.transferdelay & 63) * 4 + (q.traffichandlingpriority & 3),
       q.guaranteedbitrateuplink, q.guaranteedbitratedownlink,
       (q.signalingindication & 1) * 16 + (q.sourcestatisticsdescriptor & 15) >>

encode_quality_of_service_ie(q, present) ==
    IeiOctet(SM_QUALITY_OF_SERVICE_IEI, present) \o LengthOctet(QosOctets(q)) \o QosOctets(q)

\* The 12 octets are read whatever ielen says.
decode_quality_of_service_ie(b, present) ==
    LET d == Off(present) + 1
        o(i) == b[d + i]
    IN IF HeaderRc(b, SM_QUALITY_OF_SERVICE_IEI, present, TRUE) # "NW_OK"
       THEN Failed(HeaderRc(b, SM_QUALITY_OF_SERVICE_IEI, present, TRUE))
       ELSE Decoded("NW_OK",
              [delayclass |-> (o(1) \div 8) & 7, reliabilityclass |-> o(1) & 7,
               peakthroughput |-> (o(2) \div 16) & 15, precedenceclass |-> o(2) & 7,
               meanthroughput |-> o(3) & 31,
               trafficclass |-> (o(4) \div 32) & 7, deliveryorder |-> (o(4) \div 8) & 3,
               deliveryoferroneoussdu |-> o(4) & 7,
               maximumsdusize |-> o(5), maximumbitrateuplink |-> o(6),
               maximumbitratedownlink |-> o(7),
               residualber |-> (o(8) \div 16) & 15, sduratioerror |-> o(8) & 15,
               transferdelay |-> (o(9) \div 4) & 63, traffichandlingpriority |-> o(9) & 3,
               guaranteedbitrateuplink |-> o(10), guaranteedbitratedownlink |-> o(11),
               signalingindication |-> BitOf(o(12), 4),
               sourcestatisticsdescriptor |-> o(12) & 15],
              d + 12)

(***************************************************************************)
(* LLC service access point identifier (10.5.6.9): one octet, no length.  *)
(***************************************************************************)
encode_llc_service_access_point_identifier_ie(sapi, present) ==
    IeiOctet(SM_LLC_SERVICE_ACCESS_POINT_IDENTIFIER_IEI, present) \o <<sapi & 15>>

\* The value is read from *buffer, the IEI octet when there is one.
decode_llc_service_access_point_identifier_ie(b, present) ==
    IF HeaderRc(b, SM_LLC_SERVICE_ACCESS_POINT_IDENTIFIER_IEI, present, FALSE) # "NW_OK"
    THEN Failed(HeaderRc(b, SM_LLC_SERVICE_ACCESS_POINT_IDENTIFIER_IEI, present, FALSE))
    ELSE Decoded("NW_OK", b[1] & 15, Off(present) + 1)

(***************************************************************************)
(* Network name (10.5.3.5a): a flag octet with the coding scheme, the     *)
(* add-CI bit and the spare bits of the last octet, then the text.  The   *)
(* caller passes the IEI, 0 for none.                                      *)
(***************************************************************************)
NetworkNameOctet(n) ==
    128 + (n.codingscheme & 7) * 16 + (n.addci & 1) * 8 + (n.numberofsparebitsinlastoctet & 7)

encode_network_name_ie(n, iei) ==
    IeiOctet(iei, iei > 0) \o LengthOctet(<<NetworkNameOctet(n)>> \o n.textstring)
    \o <<NetworkNameOctet(n)>> \o n.textstring

\* Bit 8 is checked on *buffer, the IEI or length octet; the fields are
\* read at bits 6-8, 5 and 2-4; the text is ielen bytes from the flag
\* octet on.
decode_network_name_ie(b, iei) ==
    LET d == Off(iei > 0) + 1
        ielen == b[d]
    IN CASE HeaderRc(b, iei, iei > 0, TRUE) # "NW_OK" -> Failed(HeaderRc(b, iei, iei > 0, TRUE))
         [] BitOf(b[1], 7) # 1 -> Failed("TLV_VALUE_DOESNT_MATCH")
         [] OTHER -> Decoded("NW_OK",
                       [codingscheme |-> (b[d + 1] \div 32) & 7, addci |-> BitOf(b[d + 1], 4),
                        numberofsparebitsinlastoctet |-> (b[d + 1] \div 2) & 7,
                        textstring |-> SubSeq(b, d + 1, d + ielen)],
                       d + ielen)

(***************************************************************************)
(* Time zone (10.5.3.8) and time zone and time (10.5.3.9): one and seven  *)
(* octets, no length.                                                      *)
(***************************************************************************)
encode_time_zone(tz, present) == IeiOctet(MM_TIME_ZONE_IEI, present) \o <<tz>>

decode_time_zone(b, present) ==
    IF HeaderRc(b, MM_TIME_ZONE_IEI, present, FALSE) # "NW_OK"
    THEN Failed(HeaderRc(b, MM_TIME_ZONE_IEI, present, FALSE))
    ELSE Decoded("NW_OK", b[Off(present) + 1], Off(present) + 1)

encode_time_zone_and_time(t, present) ==
    IeiOctet(MM_TIME_ZONE_AND_TIME_IEI, present)
    \o <<t.year, t.month, t.day, t.hour, t.minute, t.second, t.timezone>>

decode_time_zone_and_time(b, present) ==
    LET o(i) == b[Off(present) + i]
    IN IF HeaderRc(b, MM_TIME_ZONE_AND_TIME_IEI, present, FALSE) # "NW_OK"
       THEN Failed(HeaderRc(b, MM_TIME_ZONE_AND_TIME_IEI, present, FALSE))
       ELSE Decoded("NW_OK", [year |-> o(1), month |-> o(2), day |-> o(3), hour |-> o(4),
                              minute |-> o(5), second |-> o(6), timezone |-> o(7)],
                    Off(present) + 7)

(***************************************************************************)
(* Daylight saving time (10.5.3.12): a length octet and one value octet.  *)
(***************************************************************************)
encode_daylight_saving_time_ie(dst, present) ==
    IeiOctet(MM_DAYLIGHT_SAVING_TIME_IEI, present) \o <<1, dst & 3>>

\* The value is read from *buffer, the IEI or length octet.
decode_daylight_saving_time_ie(b, present) ==
    IF HeaderRc(b, MM_DAYLIGHT_SAVING_TIME_IEI, present, TRUE) # "NW_OK"
    THEN Failed(HeaderRc(b, MM_DAYLIGHT_SAVING_TIME_IEI, present, TRUE))
    ELSE Decoded("NW_OK", b[1] & 3, Off(present) + 2)

(***************************************************************************)
(* DRX parameter (10.5.5.6): the split PG cycle code, then the S1 mode    *)
(* coefficient, split on CCCH and non-DRX timer.                           *)
(***************************************************************************)
encode_drx_parameter_ie(x, present) ==
    IeiOctet(GMM_DRX_PARAMETER_IEI, present)
    \o <<x.splitpgcyclecode,
         (x.cnspecificdrxcyclelengthcoefficientanddrxvaluefors1mode & 15) * 16
           + (x.splitonccch & 1) * 8 + (x.nondrxtimer & 7)>>

decode_drx_parameter_ie(b, present) ==
    LET o == b[Off(present) + 2]
    IN IF HeaderRc(b, GMM_DRX_PARAMETER_IEI, present, FALSE) # "NW_OK"
       THEN Failed(HeaderRc(b, GMM_DRX_PARAMETER_IEI, present, FALSE))
       ELSE Decoded("NW_OK",
              [splitpgcyclecode |-> b[Off(present) + 1],
               cnspecificdrxcyclelengthcoefficientanddrxvaluefors1mode |-> (o \div 16) & 15,
               splitonccch |-> BitOf(o, 3), nondrxtimer |-> o & 7],
              Off(present) + 2)

(***************************************************************************)
(* Identity type 2 (10.5.5.9): a half octet.  With an IEI both coders     *)
(* AssertFatal, so it is only ever sent without.                           *)
(***************************************************************************)
encode_identity_type_2_ie(t) == <<t & 7>>

decode_identity_type_2_ie(b) == Decoded("NW_OK", b[1] & 7, 1)

(***************************************************************************)
(* Location area identification (10.5.1.3): the MCC/MNC digits in         *)
(* nibbles, then the 16-bit LAC; PLMN list (10.5.1.13): a length octet    *)
(* and the digits of each PLMN in three octets.                            *)
(***************************************************************************)
PlmnOctets(p) ==
    << (p.mcc_digit2 & 15) * 16 + (p.mcc_digit1 & 15),
       (p.mnc_digit3 & 15) * 16 + (p.mcc_digit3 & 15),
       (p.mnc_digit2 & 15) * 16 + (p.mnc_digit1 & 15) >>

\* The digits of the three octets from position d + 1 on.
PlmnAt(b, d) ==
    [mcc_digit2 |-> b[d + 1] \div 16, mcc_digit1 |-> b[d + 1] & 15,
     mnc_digit3 |-> b[d + 2] \div 16, mcc_digit3 |-> b[d + 2] & 15,
     mnc_digit2 |-> b[d + 3] \div 16, mnc_digit1 |-> b[d + 3] & 15]

encode_location_area_identification_ie(lai, present) ==
    IeiOctet(C_LOCATION_AREA_IDENTIFICATION_IEI, present) \o PlmnOctets(lai.plmn)
    \o BigEndianBytes(lai.lac, 2)

decode_location_area_identification_ie(b, present) ==
    LET d == Off(present)
    IN IF HeaderRc(b, C_LOCATION_AREA_IDENTIFICATION_IEI, present, FALSE) # "NW_OK"
       THEN Failed(HeaderRc(b, C_LOCATION_AREA_IDENTIFICATION_IEI, present, FALSE))
       ELSE Decoded("NW_OK", [plmn |-> PlmnAt(b, d),
                              lac |-> BigEndianValue(SubSeq(b, d + 4, d + 5))], d + 5)

encode_plmn_list_ie(plmns, present) ==
    LET v == FoldLeft(LAMBDA acc, p : acc \o PlmnOctets(p), <<>>, plmns)
    IN IeiOctet(C_PLMN_LIST_IEI, present) \o LengthOctet(v) \o v

\* The while (decoded < len) loop runs to the end of the buffer, not of
\* ielen, three octets a turn, with no bound on the plmn array.
RECURSIVE PlmnEntries(_, _, _)
PlmnEntries(b, d, plmns) ==
    IF d < Len(b) THEN PlmnEntries(b, d + 3, Append(plmns, PlmnAt(b, d)))
    ELSE Decoded("NW_OK", plmns, d)

\* The minimum-length check uses num_plmn of the output struct as it was
\* before the call, 0 for a zeroed struct.
decode_plmn_list_ie(b, present, num_plmn) ==
    CASE Len(b) < num_plmn * 3 + 1 + Off(present) -> Failed("TLV_BUFFER_TOO_SHORT")
      [] HeaderRc(b, C_PLMN_LIST_IEI, present, TRUE) # "NW_OK" ->
           Failed(HeaderRc(b, C_PLMN_LIST_IEI, present, TRUE))
      [] OTHER -> PlmnEntries(b, Off(present) + 1, <<>>)

(***************************************************************************)
(* Mobile station classmark 2 (10.5.1.6): a length octet and three octets *)
(* of capability bits.                                                     *)
(***************************************************************************)
Classmark2Octets(c) ==
    << (c.revisionlevel & 3) * 32 + (c.esind & 1) * 16 + (c.a51 & 1) * 8
         + (c.rfpowercapability & 7),
       (c.pscapability & 1) * 64 + (c.ssscreenindicator & 3) * 16 + (c.smcapability & 1) * 8
         + (c.vbs & 1) * 4 + (c.vgcs & 1) * 2 + (c.fc & 1),
       (c.cm3 & 1) * 128 + (c.lcsvacap & 1) * 32 + (c.ucs2 & 1) * 16 + (c.solsa & 1) * 8
         + (c.cmsp & 1) * 4 + (c.a53 & 1) * 2 + (c.a52 & 1) >>

encode_mobile_station_classmark_2_ie(c, present) ==
    IeiOctet(C_MOBILE_STATION_CLASSMARK_2_IEI, present) \o LengthOctet(Classmark2Octets(c))
    \o Classmark2Octets(c)

\* The three octets are read whatever ielen says.
decode_mobile_station_classmark_2_ie(b, present) ==
    LET d == Off(present) + 1
        o1 == b[d + 1]
        o2 == b[d + 2]
        o3 == b[d + 3]
    IN IF HeaderRc(b, C_MOBILE_STATION_CLASSMARK_2_IEI, present, TRUE) # "NW_OK"
       THEN Failed(HeaderRc(b, C_MOBILE_STATION_CLASSMARK_2_IEI, present, TRUE))
       ELSE Decoded("NW_OK",
              [revisionlevel |-> (o1 \div 32) & 3, esind |-> BitOf(o1, 4), a51 |-> BitOf(o1, 3),
               rfpowercapability |-> o1 & 7,
               pscapability |-> BitOf(o2, 6), ssscreenindicator |-> (o2 \div 16) & 3,
               smcapability |-> BitOf(o2, 3), vbs |-> BitOf(o2, 2), vgcs |-> BitOf(o2, 1),
               fc |-> o2 & 1,
               cm3 |-> BitOf(o3, 7), lcsvacap |-> BitOf(o3, 5), ucs2 |-> BitOf(o3, 4),
               solsa |-> BitOf(o3, 3), cmsp |-> BitOf(o3, 2), a53 |-> BitOf(o3, 1),
               a52 |-> o3 & 1],
              d + 3)

(***************************************************************************)
(* MS network feature support (10.5.1.15): a type 1 IE whose IEI shares   *)
(* the octet with the value.  The encoder never writes the IEI; the       *)
(* decoder checks it (octet & 0xC0) when told it is present.               *)
(***************************************************************************)
encode_ms_network_feature_support_ie(f, present) ==
    <<(f.spare_bits & 7) * 8 + (f.extended_periodic_timers & 1)>>

decode_ms_network_feature_support_ie(b, present) ==
    IF present /\ b[1] & 192 # C_MS_NETWORK_FEATURE_SUPPORT_IEI
    THEN Failed("TLV_UNEXPECTED_IEI")
    ELSE Decoded("NW_OK", [spare_bits |-> (b[1] \div 8) & 7,
                           extended_periodic_timers |-> b[1] & 1], 1)

====
