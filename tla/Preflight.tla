----------------------------- MODULE Preflight -----------------------------
(***************************************************************************)
(* preflightUITemplates of internal/idp/server.go: start-up renders every  *)
(* page of a theme and gives the text to validateRealmRelativeURLs         *)
(* (ThemeURLs), then, if it is a login page, to validateLoginHTML          *)
(* (LoginForm).  A page of the model has links or a form, as its           *)
(* vocabulary says.                                                        *)
(***************************************************************************)
EXTENDS LoginForm

CONSTANTS Pieces, Bare, MaxPieces, LinkDepth

VARIABLES scopes, open, attribute, code, browser, pieces, rejected, loads

URLs == INSTANCE ThemeURLs WITH MaxDepth <- LinkDepth

linkVars == <<scopes, open, attribute, code, browser, pieces, rejected, loads>>
preflightVars == <<vars, linkVars>>

PreflightInit == Init /\ URLs!Init

\* The first error of either validation ends the start-up.
PreflightNext ==
    \/ Vocabularies[vocabulary].links /\ URLs!Next /\ UNCHANGED vars
    \/ ~Vocabularies[vocabulary].links /\ Next /\ UNCHANGED linkVars

PreflightSpec == PreflightInit /\ [][PreflightNext]_preflightVars

----------------------------------------------------------------------------
(* Properties. *)

\* README.md on login themes: start-up rejects root-relative /login and
\* /assets/ references, and it rejects no page that keeps to its realm.
RealmRelativeOnly == URLs!RootRelativeRejected /\ URLs!RealmRelativeAccepted

============================================================================
