----------------------------- MODULE MCServices ------------------------------
(***************************************************************************)
(* Instances for TLC of the services around plans and optimizer.  They     *)
(* share no state: a behaviour is one of the service it starts with, and   *)
(* the variables of the others rest.                                       *)
(***************************************************************************)
EXTENDS ProviderConfigs, Sessions, Memberships, Alerts, Wizard, PlanDraft,
        Learning, Providers, Consents, Saves, TLC

VARIABLE part
servicesVars == <<part, configVars, sessionVars, memberVars, alertVars, settingsVars, wizardVars,
                  draftVars, learningVars, providerVars, consentVars, providerFormVars>>

-----------------------------------------------------------------------------
(* ProviderConfigs: one or two of each kind of request. *)
CONSTANTS s1, s2
SomeRequests ==
  {r \in Requests : \/ r.op \in {"setEnabled", "delete"} /\ r.enabled # TRUE
                    \/ r.op = "upsert" /\ <<r.secret, r.enabled>> \in {<<s1, TRUE>>, <<s2, None>>}}

-----------------------------------------------------------------------------
(* Settings and the wizard *)
TwoFields   == <<"enabled", "defaultMode">>
AllZero     == [f \in {"enabled", "defaultMode"} |-> 0]
ThreeSteps  == <<"basics", "platforms", "review">>

-----------------------------------------------------------------------------
(* PlanDraft *)
Account(status, currency) == [status |-> status, currency |-> currency]
SomeAccounts == {Account("ACTIVE", "USD"), Account("ERROR", None), Account("MISSING", None)}
SomeInputs ==
  [goal : {"SALES", "AWARENESS", "LEADS"},
   platforms : {{"META"}, {"META", "GOOGLE_ADS"}, {"TIKTOK"}, {"META", "GOOGLE_ADS", "TIKTOK"}},
   accounts : {[p \in {"META", "GOOGLE_ADS"} |-> IF p = "META" THEN a ELSE b] : a \in SomeAccounts, b \in SomeAccounts},
   budgetType : {"DAILY", "LIFETIME"}, total : {99, 1501, 100000}, currency : {"SAR"},
   startDay : {4, 5}, endDay : {None, 5, 14}, targetRoas : {3}, targetCpa : {25},
   pixelInstalled : {"yes", "no"}, interestTags : {0, 3}, ageSpan : {40},
   languages : {TRUE}, cities : {FALSE}, assetRefs : {0, 2}, headline : {TRUE}]

-----------------------------------------------------------------------------
(* Providers: where no call is made *)
NoCallRow    == [status |-> "ACTIVE", token |-> "old", due |-> FALSE]
NoCallRemote == [settings |-> None, accepts |-> {}, pages |-> 1]

-----------------------------------------------------------------------------
(* Consents *)
TwoAccounts == <<"acc1", "acc2">>

-----------------------------------------------------------------------------
(* ProviderForm *)
FormRow == [enabled |-> TRUE, appId |-> "a", scopes |-> "s", apiVersion |-> None, extra |-> "x",
            secret |-> "k1", token |-> "t1", other |-> "o"]
RowOrNone   == {None, FormRow}
SomeTypings == {<<>>, [appId |-> "b", secret |-> "k2"], [enabled |-> FALSE, token |-> "t2"],
                [apiVersion |-> None, extra |-> None, scopes |-> None]}

-----------------------------------------------------------------------------
\* A service that rests is in its initial state, or has no input.
ServicesInit ==
  /\ part \in {"configs", "sessions", "members", "alerts", "settings", "wizard",
               "draft", "learning", "providers", "consents", "form"}
  /\ SessionInit /\ MemberInit /\ AlertInit /\ SettingsInit /\ WizardInit /\ LearningInit
  /\ part # "members" => "u1" \in registered
  /\ IF part = "configs" THEN ConfigInit
     ELSE stored = None /\ cache = None /\ reader = <<>> /\ admin = <<>>
  /\ IF part = "providers" THEN ProviderInit
     ELSE adPlatform = "META" /\ adRow = NoCallRow /\ adRemote = NoCallRemote /\ adCall = Idle
  /\ IF part = "consents" THEN ConsentInit
     ELSE /\ consentNet = "META" /\ linkRow = [link \in Links |-> None]
          /\ idp = [grants |-> 0, alive |-> {}, blank |-> {}, revoked |-> FALSE, rotates |-> FALSE]
          /\ setup = [appSecret |-> TRUE, sealKept |-> TRUE, developerToken |-> TRUE]
          /\ flows = {} /\ callback = NoCallback /\ tokenSweep = NoTokenSweep
  /\ IF part = "draft" THEN DraftInit ELSE input = None /\ built = None /\ handed = None
  /\ IF part = "form" THEN ProviderFormInit
     ELSE configRow = None /\ formPage = <<>> /\ writes = 0 /\ lastSave = None

Rest(p, v) == IF part = p THEN TRUE ELSE UNCHANGED v
ServicesNext ==
  /\ UNCHANGED part
  /\ Rest("configs", configVars) /\ Rest("sessions", sessionVars) /\ Rest("members", memberVars)
  /\ Rest("alerts", alertVars) /\ Rest("settings", settingsVars) /\ Rest("wizard", wizardVars)
  /\ Rest("draft", draftVars) /\ Rest("learning", learningVars)
  /\ Rest("providers", providerVars) /\ Rest("consents", consentVars)
  /\ Rest("form", providerFormVars)
  /\ \/ part = "configs" /\ ConfigNext
     \/ part = "sessions" /\ SessionNext
     \/ part = "members" /\ MemberNext
     \/ part = "alerts" /\ AlertNext
     \/ part = "settings" /\ SettingsNext
     \/ part = "wizard" /\ WizardNext
     \/ part = "draft" /\ DraftNext
     \/ part = "learning" /\ LearningNext
     \/ part = "providers" /\ ProviderNext
     \/ part = "consents" /\ ConsentNext
     \/ part = "form" /\ ProviderFormNext
ServicesSpec == ServicesInit /\ [][ServicesNext]_servicesVars
=============================================================================
