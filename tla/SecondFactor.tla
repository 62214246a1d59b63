----------------------------- MODULE SecondFactor -----------------------------
(***************************************************************************)
(* The security page of the dashboard and that of the platform console:    *)
(* which card it shows, the enrolment of an authenticator, disabling it,   *)
(* and new recovery codes, shown once.  The library enrols a set of codes  *)
(* with the first code from the authenticator that was set up with it, and *)
(* ends every session when the factor goes on or off.                      *)
(***************************************************************************)
EXTENDS Integers

CONSTANTS
    Total,          \* recovery codes in a set
    MaxSets         \* bound: sets ever issued

STATUS_FETCH_ATTEMPTS == 3

ASSUME SecondFactorAssumption == Total \in Nat \ {0} /\ MaxSets \in Nat

(* The counter's request: not made, on its way, or the number it read.     *)
NotCounting == -2
Counting == -1
Unknown == -1
NoCall == [op |-> "idle", done |-> FALSE, set |-> 0]

VARIABLES
    realm,              \* whose security page it is; "elsewhere" after it was left
    factor, enrolment, issued, alive,   \* the server's: see FactorTypes
    profile, asking4me, \* user.mfaEnabled or me.mfaEnabled; the request that refreshes it
    hasPassword, attempts,      \* whether it is known; status requests left to try
    step, codes, showModal,     \* the card: scanning or not, the set it holds, and shows
    mode, call,         \* its form, and the request of its handler
    status, counting,   \* codes left as shown; the request for them
    foreign, lost,      \* another tab or device changed the factor; an answer was lost
    typed               \* the set of the authenticator whose code was typed last, or 0

server4mfa == <<factor, enrolment, issued, alive>>
card == <<step, codes, showModal, mode, call, status, counting>>
page4mfa == <<profile, asking4me, hasPassword, attempts>>
factorVars == <<realm, server4mfa, page4mfa, card, foreign, lost, typed>>

Card ==
    IF profile = "on" THEN "disable"
    ELSE IF profile = "off" /\ (realm = "platform" \/ hasPassword) THEN "setup"
    ELSE "none"

(* A card that appears, and what the page was on to with the former one.   *)
CardMounts(count) ==
    /\ step' = "idle" /\ codes' = 0 /\ showModal' = FALSE /\ mode' = "idle"
    /\ call' = NoCall
    /\ status' = Unknown /\ counting' = count

PageMounts ==
    /\ profile' = "loading" /\ asking4me' = "asked"
    /\ hasPassword' = FALSE
    /\ attempts' = IF realm' = "dashboard" THEN STATUS_FETCH_ATTEMPTS ELSE 0
    /\ CardMounts(NotCounting)
    /\ foreign' = FALSE /\ lost' = FALSE /\ typed' = 0

FactorInit ==
    /\ realm \in {"dashboard", "platform", "no page"}
    /\ \E on \in BOOLEAN : factor = [on |-> on, set |-> 0, left |-> IF on THEN Total - 1 ELSE 0]
    /\ enrolment = 0 /\ issued = 0 /\ alive = TRUE
    /\ profile = "loading" /\ asking4me = "asked"
    /\ hasPassword = FALSE
    /\ attempts = IF realm = "dashboard" THEN STATUS_FETCH_ATTEMPTS ELSE 0
    /\ step = "idle" /\ codes = 0 /\ showModal = FALSE /\ mode = "idle" /\ call = NoCall
    /\ status = Unknown /\ counting = NotCounting
    /\ foreign = FALSE /\ lost = FALSE /\ typed = 0

(* Signing in again, to either of the two.                                 *)
OpenSecurity(r) ==
    /\ realm = "elsewhere"
    /\ realm' = r
    /\ alive' = TRUE
    /\ PageMounts
    /\ UNCHANGED <<factor, enrolment, issued>>

-----------------------------------------------------------------------------
(* The page.                                                               *)
OnPage == realm \in {"dashboard", "platform"}

ProfileRead ==
    /\ OnPage /\ asking4me = "asked" /\ alive
    /\ asking4me' = IF factor.on THEN "on" ELSE "off"
    /\ UNCHANGED <<realm, server4mfa, profile, hasPassword, attempts, card, foreign, lost, typed>>

(* The page swaps its card when the factor it knows of is another; a new   *)
(* user starts the status requests again.                                  *)
ProfileAnswers ==
    /\ OnPage /\ asking4me \in {"on", "off"}
    /\ profile' = asking4me
    /\ asking4me' = "no"
    /\ attempts' = IF realm = "dashboard" THEN STATUS_FETCH_ATTEMPTS ELSE 0
    /\ IF profile' = profile THEN UNCHANGED <<card, lost>>
       ELSE /\ CardMounts(IF realm = "dashboard" /\ profile' = "on" THEN Counting
                          ELSE NotCounting)
            /\ lost' = (lost \/ call # NoCall)
    /\ UNCHANGED <<realm, server4mfa, hasPassword, foreign, typed>>

(* What was known stays; the first time, the console shows an error card.  *)
ProfileFails ==
    /\ OnPage /\ asking4me # "no"
    /\ profile' = IF profile = "loading" THEN "failed" ELSE profile
    /\ asking4me' = "no"
    /\ lost' = TRUE
    /\ UNCHANGED <<realm, server4mfa, hasPassword, attempts, card, foreign, typed>>

(* onSessionExpired: any request of the dashboard may be the one to find   *)
(* out, whatever is on the screen.  The console has no such handler.       *)
SessionFoundDead ==
    /\ realm = "dashboard" /\ ~alive
    /\ realm' = "elsewhere"
    /\ UNCHANGED <<server4mfa, page4mfa, card, foreign, lost, typed>>

StatusAnswers ==
    /\ realm = "dashboard" /\ attempts > 0 /\ alive
    /\ hasPassword' = TRUE
    /\ attempts' = 0
    /\ UNCHANGED <<realm, server4mfa, profile, asking4me, card, foreign, lost, typed>>

StatusFails ==
    /\ realm = "dashboard" /\ attempts > 0
    /\ attempts' = attempts - 1
    /\ UNCHANGED <<realm, server4mfa, profile, asking4me, hasPassword, card, foreign, lost, typed>>

handleStatusRetry ==
    /\ realm = "dashboard" /\ profile = "off" /\ ~hasPassword
    /\ attempts' = STATUS_FETCH_ATTEMPTS
    /\ UNCHANGED <<realm, server4mfa, profile, asking4me, hasPassword, card, foreign, lost, typed>>

-----------------------------------------------------------------------------
(* The setup card.                                                         *)
Submits(op, set) ==
    /\ OnPage /\ call = NoCall /\ ~showModal
    /\ call' = [op |-> op, done |-> FALSE, set |-> set]

handleSetup ==
    /\ Card = "setup" /\ step = "idle"
    /\ Submits("setup", 0)
    /\ UNCHANGED <<realm, server4mfa, page4mfa, step, codes, showModal, mode, status, counting,
                   foreign, lost, typed>>

(* The request carries the code alone: it may be one of an authenticator   *)
(* that another tab set up.                                                *)
onVerify(n) ==
    /\ Card = "setup" /\ step = "scanning"
    /\ Submits("verify", n)
    /\ typed' = n
    /\ UNCHANGED <<realm, server4mfa, page4mfa, step, codes, showModal, mode, status, counting,
                   foreign, lost>>

CancelScan ==
    /\ OnPage /\ Card = "setup" /\ step = "scanning"
    /\ step' = "idle"
    /\ UNCHANGED <<realm, server4mfa, page4mfa, codes, showModal, mode, call, status, counting,
                   foreign, lost, typed>>

(* Fault: the codes are shown with the QR code.                            *)
ShowWithQrCode ==
    /\ OnPage /\ call.op = "setup" /\ call.done
    /\ codes' = call.set
    /\ step' = "scanning"
    /\ showModal' = TRUE
    /\ call' = NoCall
    /\ UNCHANGED <<realm, server4mfa, page4mfa, mode, status, counting, foreign, lost, typed>>

SetupAnswers ==
    /\ OnPage /\ call.op = "setup" /\ call.done
    /\ codes' = call.set
    /\ step' = "scanning"
    /\ call' = NoCall
    /\ UNCHANGED <<realm, server4mfa, page4mfa, showModal, mode, status, counting, foreign, lost, typed>>

(* Also when the person has cancelled the scan meanwhile.                  *)
VerifyAnswers ==
    /\ OnPage /\ call.op = "verify" /\ call.done
    /\ step' = "idle"
    /\ showModal' = TRUE
    /\ call' = NoCall
    /\ UNCHANGED <<realm, server4mfa, page4mfa, codes, mode, status, counting, foreign, lost, typed>>

(* The dashboard's session is over, so the card leaves for the login page; *)
(* the console asks for its profile again.                                 *)
handleModalClose ==
    /\ OnPage /\ Card = "setup" /\ showModal
    /\ showModal' = FALSE
    /\ codes' = 0
    /\ IF realm = "dashboard" THEN realm' = "elsewhere" /\ UNCHANGED asking4me
       ELSE asking4me' = "asked" /\ UNCHANGED realm
    /\ UNCHANGED <<server4mfa, profile, hasPassword, attempts, step, mode, call, status,
                   counting, foreign, lost, typed>>

-----------------------------------------------------------------------------
(* The disable card.                                                       *)
OpenForm(m) ==
    /\ OnPage /\ Card = "disable" /\ mode = "idle" /\ ~showModal
    /\ mode' = m
    /\ UNCHANGED <<realm, server4mfa, page4mfa, step, codes, showModal, call, status, counting,
                   foreign, lost, typed>>

(* Cancel is enabled while the request is under way.                       *)
returnToIdle ==
    /\ OnPage /\ Card = "disable" /\ mode # "idle"
    /\ mode' = "idle"
    /\ UNCHANGED <<realm, server4mfa, page4mfa, step, codes, showModal, call, status, counting,
                   foreign, lost, typed>>

SubmitForm ==
    /\ Card = "disable" /\ mode # "idle"
    /\ Submits(mode, 0)
    /\ UNCHANGED <<realm, server4mfa, page4mfa, step, codes, showModal, mode, status, counting,
                   foreign, lost, typed>>

(* onDisabled: either page asks for the profile again.                     *)
DisableAnswers ==
    /\ OnPage /\ call.op = "disabling" /\ call.done
    /\ mode' = "idle"
    /\ call' = NoCall
    /\ asking4me' = "asked"
    /\ UNCHANGED <<realm, server4mfa, profile, hasPassword, attempts, step, codes, showModal,
                   status, counting, foreign, lost, typed>>

RegenerateAnswers ==
    /\ OnPage /\ call.op = "regenerating" /\ call.done
    /\ mode' = "idle"
    /\ codes' = call.set
    /\ showModal' = TRUE
    /\ call' = NoCall
    /\ UNCHANGED <<realm, server4mfa, page4mfa, step, status, counting, foreign, lost, typed>>

(* Fault: the modal closes and the count is left as it was.                *)
CloseKeepsCount ==
    /\ OnPage /\ Card = "disable" /\ showModal
    /\ showModal' = FALSE
    /\ codes' = 0
    /\ UNCHANGED <<realm, server4mfa, page4mfa, step, mode, call, status, counting, foreign, lost, typed>>

(* The dashboard's card counts again, and drops an older count under way.  *)
handleCodesModalClose ==
    /\ OnPage /\ Card = "disable" /\ showModal
    /\ showModal' = FALSE
    /\ codes' = 0
    /\ counting' = IF realm = "dashboard" THEN Counting ELSE counting
    /\ UNCHANGED <<realm, server4mfa, page4mfa, step, mode, call, status, foreign, lost, typed>>

CountRead ==
    /\ OnPage /\ counting = Counting /\ alive
    /\ counting' = factor.left
    /\ UNCHANGED <<realm, server4mfa, page4mfa, step, codes, showModal, mode, call, status,
                   foreign, lost, typed>>

CountAnswers ==
    /\ OnPage /\ counting >= 0
    /\ status' = counting
    /\ counting' = NotCounting
    /\ UNCHANGED <<realm, server4mfa, page4mfa, step, codes, showModal, mode, call, foreign, lost, typed>>

(* The effect's catch: no counter at all.                                  *)
CountFails ==
    /\ OnPage /\ counting # NotCounting
    /\ counting' = NotCounting
    /\ status' = Unknown
    /\ UNCHANGED <<realm, server4mfa, page4mfa, step, codes, showModal, mode, call, foreign, lost, typed>>

-----------------------------------------------------------------------------
(* The server, and the requests of the cards.                              *)

(* Turning the factor on or off ends the dashboard's sessions; the         *)
(* console's token lasts or not, according to what its route looks up.     *)
EndSessions4mfa == IF realm = "dashboard" THEN alive' = FALSE ELSE alive' \in BOOLEAN

(* A new set of codes is made with a setup and by regenerating.            *)
FactorServerDoes ==
    /\ OnPage /\ call.op # "idle" /\ ~call.done /\ alive
    /\ \/ /\ call.op = "setup" /\ ~factor.on /\ issued < MaxSets
          /\ issued' = issued + 1
          /\ enrolment' = issued'
          /\ call' = [call EXCEPT !.done = TRUE, !.set = issued']
          /\ UNCHANGED <<factor, alive>>
       \/ /\ call.op = "verify" /\ ~factor.on /\ enrolment = call.set
          /\ factor' = [on |-> TRUE, set |-> call.set, left |-> Total]
          /\ enrolment' = 0
          /\ call' = [call EXCEPT !.done = TRUE]
          /\ EndSessions4mfa
          /\ UNCHANGED issued
       \/ /\ call.op = "disabling" /\ factor.on
          /\ factor' = [on |-> FALSE, set |-> 0, left |-> 0]
          /\ call' = [call EXCEPT !.done = TRUE]
          /\ EndSessions4mfa
          /\ UNCHANGED <<enrolment, issued>>
       \/ /\ call.op = "regenerating" /\ factor.on /\ issued < MaxSets
          /\ issued' = issued + 1
          /\ factor' = [factor EXCEPT !.set = issued', !.left = Total]
          /\ call' = [call EXCEPT !.done = TRUE, !.set = issued']
          /\ UNCHANGED <<enrolment, alive>>
    /\ UNCHANGED <<realm, page4mfa, step, codes, showModal, mode, status, counting, foreign, lost, typed>>

(* A toast; the form stays as it is.  The answer of what was done is gone. *)
FactorCallFails ==
    /\ OnPage /\ call # NoCall
    /\ lost' = (lost \/ call.done)
    /\ call' = NoCall
    /\ UNCHANGED <<realm, server4mfa, page4mfa, step, codes, showModal, mode, status, counting,
                   foreign, typed>>

(* Another tab or device of the same person, or an operator's reset.       *)
OthersChangeFactor ==
    /\ OnPage
    /\ \/ /\ factor.on
          /\ factor' = [on |-> FALSE, set |-> 0, left |-> 0]
          /\ EndSessions4mfa
          /\ UNCHANGED <<issued, enrolment>>
       \/ /\ ~factor.on /\ issued < MaxSets
          /\ issued' = issued + 1
          /\ enrolment' = issued'
          /\ UNCHANGED <<factor, alive>>
       \/ /\ ~factor.on /\ enrolment # 0
          /\ factor' = [on |-> TRUE, set |-> enrolment, left |-> Total]
          /\ enrolment' = 0
          /\ EndSessions4mfa
          /\ UNCHANGED issued
       \/ /\ factor.left > 0
          /\ factor' = [factor EXCEPT !.left = @ - 1]
          /\ UNCHANGED <<enrolment, issued, alive>>
    /\ foreign' = (foreign \/ factor' # factor)
    /\ UNCHANGED <<realm, page4mfa, card, lost, typed>>

-----------------------------------------------------------------------------
FactorNext ==
    \/ \E r \in {"dashboard", "platform"} : OpenSecurity(r)
    \/ ProfileRead \/ ProfileAnswers \/ ProfileFails \/ SessionFoundDead
    \/ StatusAnswers \/ StatusFails \/ handleStatusRetry
    \/ handleSetup \/ SetupAnswers \/ VerifyAnswers \/ CancelScan \/ handleModalClose
    \/ \E n \in 1..issued : onVerify(n)
    \/ \E m \in {"disabling", "regenerating"} : OpenForm(m)
    \/ returnToIdle \/ SubmitForm \/ DisableAnswers \/ RegenerateAnswers
    \/ handleCodesModalClose \/ CountRead \/ CountAnswers \/ CountFails
    \/ FactorServerDoes \/ FactorCallFails \/ OthersChangeFactor

SpecFactor == FactorInit /\ [][FactorNext]_factorVars

-----------------------------------------------------------------------------
(* The recovery codes on the screen open the account: they belong to the   *)
(* factor that is on, even if the person cancelled while the request was   *)
(* under way; unless somebody has changed the factor since, or the code    *)
(* typed was of another authenticator than the one this card showed: then  *)
(* the server turns that one on.                                           *)
ShownCodesAreLive ==
    (OnPage /\ showModal /\ ~foreign /\ (Card = "setup" => typed \in {0, codes}))
        => factor.on /\ codes = factor.set

(* With nothing under way the page offers the card of the factor the       *)
(* account has, and counts the codes that are left.  Not after an answer   *)
(* was lost or somebody else changed it; nor with a session that is over,  *)
(* where every request only finds that out.                                *)
CardShowsFactor ==
    (/\ OnPage /\ alive /\ ~foreign /\ ~lost
     /\ asking4me = "no" /\ profile \in {"on", "off"} /\ call = NoCall /\ ~showModal)
    => /\ profile = "on" <=> factor.on
       /\ (Card = "disable" /\ status # Unknown /\ counting = NotCounting) => status = factor.left

=============================================================================
