----------------------------- MODULE DuoPreAuth -----------------------------
(***************************************************************************)
(* DuoPreAuth of internal/handlers/duo.go: ask the Duo API which devices  *)
(* the user has, and keep those that support a method Authelia can drive. *)
(* The Duo service is an external collaborator: its answer to PreAuthCall *)
(* is a nondeterministic choice among Responses, or a failed call.  The   *)
(* status message, enrollment URL and display names are passed through    *)
(* unchanged and are left out.  A nil slice is <<>>.                      *)
(***************************************************************************)
EXTENDS Sequences, SequencesExt, FiniteSets

CONSTANTS
    PossibleMethods,  \* duo.PossibleMethods, a sequence
    auth,             \* the "auth" result of the pre-auth API
    Responses,        \* the answers PreAuthCall can return
    CallFailed,       \* PreAuthCall returned an error
    NoCall

VARIABLES response, result
vars == <<response, result>>

\* Faulty variant: the device's own capability list, filtered.
SupportedMethodsDeviceOrder(device) ==
    SelectSeq(device.capabilities, LAMBDA m : m \in ToSet(PossibleMethods))

\* The methods of duo.PossibleMethods, in their order, that the device lists.
SupportedMethods(device) ==
    SelectSeq(PossibleMethods, LAMBDA m : m \in ToSet(device.capabilities))

Init == response = NoCall /\ result = NoCall

\* One call of the handler: the API call, then the device filter when the
\* result is auth.  A failed call returns no result and the error.
DuoPreAuth ==
    /\ result = NoCall
    /\ \E resp \in Responses \cup {CallFailed} :
          /\ response' = resp
          /\ result' =
               IF resp = CallFailed THEN [result |-> "", devices |-> <<>>, err |-> TRUE]
               ELSE LET kept == SelectSeq(resp.devices,
                                          LAMBDA d : SupportedMethods(d) # <<>>)
                        supportedDevices ==
                            [i \in DOMAIN kept |->
                                [device |-> kept[i].device,
                                 capabilities |-> SupportedMethods(kept[i])]]
                    IN  [result  |-> resp.result,
                         devices |-> IF resp.result = auth THEN supportedDevices ELSE <<>>,
                         err     |-> FALSE]

Terminated == result # NoCall /\ UNCHANGED vars

Next == DuoPreAuth \/ Terminated

Spec == Init /\ [][Next]_vars

-----------------------------------------------------------------------------
\* The position of a method in duo.PossibleMethods.
Rank(m) == CHOOSE i \in DOMAIN PossibleMethods : PossibleMethods[i] = m

(***************************************************************************)
(* The user is offered exactly the devices of an auth answer that support *)
(* at least one method Authelia can drive, in the order Duo listed them;  *)
(* each offers exactly those methods, in the preference order of         *)
(* duo.PossibleMethods (the order the 2FA page shows them); nothing is    *)
(* offered for any other answer or a failed call.                          *)
(***************************************************************************)
OfferedDevicesAreSupported ==
    result # NoCall =>
      LET offered  == result.devices
          eligible == IF response # CallFailed /\ response.result = auth
                      THEN SelectSeq(response.devices, LAMBDA d :
                               ToSet(d.capabilities) \cap ToSet(PossibleMethods) # {})
                      ELSE <<>>
      IN  /\ Len(offered) = Len(eligible)
          /\ \A i \in DOMAIN offered :
                /\ offered[i].device = eligible[i].device
                /\ ToSet(offered[i].capabilities)
                     = ToSet(eligible[i].capabilities) \cap ToSet(PossibleMethods)
                /\ IsSorted(offered[i].capabilities, LAMBDA a, b : Rank(a) < Rank(b))
=============================================================================
