---------------------------- MODULE MCDuoPreAuth ----------------------------
(***************************************************************************)
(* Answers of the Duo pre-auth API for checking DuoPreAuth with TLC.      *)
(***************************************************************************)
EXTENDS DuoPreAuth

\* Capability lists in any order, over two methods Authelia drives and one
\* (mobile_otp) it does not.
Capabilities == UNION {SetToSeqs(s) : s \in SUBSET {"push", "sms", "mobile_otp"}}

\* The methods of internal/duo (not under src/), in preference order.
MCPossibleMethods == <<"auto", "push", "sms", "phone">>

Device(name, caps) == [device |-> name, capabilities |-> caps]

\* Zero, one or two devices; the results auth, allow and enroll.
MCResponses ==
    {[result |-> r, devices |-> ds] :
        r  \in {"auth", "allow", "enroll"},
        ds \in {<<>>} \cup {<<Device("phone", c)>> : c \in Capabilities}
                      \cup {<<Device("phone", c), Device("token", k)>> :
                               c, k \in Capabilities}}
=============================================================================
