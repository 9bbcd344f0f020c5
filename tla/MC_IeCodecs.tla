---------------------------- MODULE MC_IeCodecs ----------------------------
EXTENDS IeCodecs

Addr6 == [i \in 1 .. 16 |-> IF i = 1 THEN 32 ELSE IF i = 2 THEN 1 ELSE i * 15]

\* With and without an offending IE; an offending IE of type 0 that still
\* has a length and an instance.
MC_CauseValues ==
    [cause_value : {16, 72}, cs : {0, 1}, bce : {0, 1}, pce : {0, 1},
     offending_ie_type : {0, 73}, offending_ie_length : {300},
     offending_ie_instance : {2}]

\* Every combination of address flags; an interface type that fits 5 bits
\* and one that needs 6; a TEID with all four bytes set.
MC_FteidValues ==
    [ipv4 : {0, 1}, ipv6 : {0, 1}, interface_type : {10, 33},
     teid : {0, 2018915346}, ipv4_address : {<<10, 0, 0, 1>>}, ipv6_address : {Addr6}]

\* IPv4, IPv6 and IPv4v6.
MC_PaaValues ==
    [pdn_type : {0, 1, 2}, ipv6_prefix_length : {64}, ipv6_address : {Addr6},
     ipv4_address : {<<192, 168, 1, 254>>}]

\* A valid EBI and one above 15.
MC_EbiValues == {5, 21}

\* Zero, below one kbit/s, not a whole number of kbit/s, large.
MC_AmbrValues == [br_ul : {0, 999, 2000000999}, br_dl : {1500, 65536000}]

MC_QosValues ==
    {[pci |-> 1, pl |-> 15, pvi |-> 0, qci |-> 9,
      mbr |-> [br_ul |-> 2000000999, br_dl |-> 256000], gbr |-> [br_ul |-> 0, br_dl |-> 1999]],
     [pci |-> 0, pl |-> 1, pvi |-> 1, qci |-> 1,
      mbr |-> [br_ul |-> 64000, br_dl |-> 65536000], gbr |-> [br_ul |-> 64000, br_dl |-> 999]]}

MC_SelectionModeValues == {0, 1, 2}

MC_TmgiValues ==
    [mbmssessionidindication : {0, 1}, mccmncindication : {1}, oddeven : {0, 1},
     typeofidentity : {MOBILE_IDENTITY_TMGI}, mbmsserviceid : {0, 16777215},
     mccdigit1 : {2}, mccdigit2 : {0}, mccdigit3 : {8},
     mncdigit1 : {9}, mncdigit2 : {3}, mncdigit3 : {15}, mbmssessionid : {0, 255}]

\* APNs as their bytes ('a' 97, 'b' 98, 'c' 99, '.' 46): two labels, an
\* empty label inside, a lone dot and a trailing dot.
MC_ApnValues == {<<97, 98, 46, 99>>, <<97, 46, 46, 98>>, <<46>>, <<97, 46>>}

\* No container, and an IPCP container followed by an empty DNS request.
MC_PcoValues ==
    {[configuration_protocol |-> 0, protocol_or_container_ids |-> <<>>],
     [configuration_protocol |-> 0,
      protocol_or_container_ids |->
        <<[id |-> 32801, length |-> 2, contents |-> <<1, 2>>],
          [id |-> 13, length |-> 0, contents |-> <<>>]>>]}

\* Every field at its widest value, and a typical streaming class.
MC_Qos24008Values ==
    {[delayclass |-> 7, reliabilityclass |-> 7, peakthroughput |-> 15, precedenceclass |-> 7,
      meanthroughput |-> 31, trafficclass |-> 7, deliveryorder |-> 3,
      deliveryoferroneoussdu |-> 7, maximumsdusize |-> 255, maximumbitrateuplink |-> 255,
      maximumbitratedownlink |-> 255, residualber |-> 15, sduratioerror |-> 15,
      transferdelay |-> 63, traffichandlingpriority |-> 3, guaranteedbitrateuplink |-> 255,
      guaranteedbitratedownlink |-> 255, signalingindication |-> 1,
      sourcestatisticsdescriptor |-> 15],
     [delayclass |-> 1, reliabilityclass |-> 3, peakthroughput |-> 9, precedenceclass |-> 2,
      meanthroughput |-> 31, trafficclass |-> 2, deliveryorder |-> 2,
      deliveryoferroneoussdu |-> 3, maximumsdusize |-> 150, maximumbitrateuplink |-> 64,
      maximumbitratedownlink |-> 128, residualber |-> 4, sduratioerror |-> 3,
      transferdelay |-> 10, traffichandlingpriority |-> 0, guaranteedbitrateuplink |-> 64,
      guaranteedbitratedownlink |-> 128, signalingindication |-> 0,
      sourcestatisticsdescriptor |-> 1]}

MC_LlcSapiValues == {3, 11}

MC_NetworkNameValues ==
    {[codingscheme |-> 0, addci |-> 1, numberofsparebitsinlastoctet |-> 3,
      textstring |-> <<79, 65, 73>>]}

MC_TimeZoneValues == {0, 105}

MC_TimeZoneAndTimeValues ==
    {[year |-> 38, month |-> 16, day |-> 137, hour |-> 50, minute |-> 0, second |-> 89,
      timezone |-> 105]}

MC_DstValues == {0, 2}

MC_DrxValues ==
    {[splitpgcyclecode |-> 10, cnspecificdrxcyclelengthcoefficientanddrxvaluefors1mode |-> 6,
      splitonccch |-> 1, nondrxtimer |-> 5]}

MC_IdentityType2Values == {1, 3}

\* MCC 208, MNC 93 (two digits, filler 15) and MCC 310, MNC 410.
Plmn1 == [mcc_digit1 |-> 2, mcc_digit2 |-> 0, mcc_digit3 |-> 8,
          mnc_digit1 |-> 9, mnc_digit2 |-> 3, mnc_digit3 |-> 15]
Plmn2 == [mcc_digit1 |-> 3, mcc_digit2 |-> 1, mcc_digit3 |-> 0,
          mnc_digit1 |-> 4, mnc_digit2 |-> 1, mnc_digit3 |-> 0]

MC_LaiValues == {[plmn |-> Plmn1, lac |-> 65534], [plmn |-> Plmn2, lac |-> 1]}

MC_PlmnListValues == {<<Plmn1>>, <<Plmn1, Plmn2>>}

\* All bits set, and a typical handset.
MC_Classmark2Values ==
    [revisionlevel : {3}, esind : {1}, a51 : {1}, rfpowercapability : {7}, pscapability : {1},
     ssscreenindicator : {3}, smcapability : {1}, vbs : {1}, vgcs : {1}, fc : {1},
     cm3 : {1}, lcsvacap : {1}, ucs2 : {1}, solsa : {1}, cmsp : {1}, a53 : {1}, a52 : {1}]
    \cup
    [revisionlevel : {2}, esind : {1}, a51 : {0}, rfpowercapability : {4}, pscapability : {1},
     ssscreenindicator : {1}, smcapability : {1}, vbs : {0}, vgcs : {0}, fc : {0},
     cm3 : {1}, lcsvacap : {0}, ucs2 : {0}, solsa : {0}, cmsp : {1}, a53 : {1}, a52 : {0}]

MC_NetworkFeatureSupportValues == [spare_bits : {0}, extended_periodic_timers : {0, 1}]
============================================================================
