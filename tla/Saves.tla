-------------------------------- MODULE Saves --------------------------------
(***************************************************************************)
(* What an administrator saves: the settings of an organization and the    *)
(* credentials of a platform.  The two share nothing but the promise.      *)
(***************************************************************************)
EXTENDS Settings, ProviderForm

\* What an administrator saves is what the system works with: the settings of an
\* organization (Settings, org-settings.controller.ts) and the credentials of a platform
\* (ProviderForm, provider-configs.service.ts 75-250), with others saving too.
SavesAreMeant == SavedIsInForce /\ SaveIsAsMeant
=============================================================================
