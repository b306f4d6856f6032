---------------------------- MODULE MCPreflight ----------------------------
(***************************************************************************)
(* An instance of Preflight for TLC: pages that each try one part of the   *)
(* validation.                                                             *)
(***************************************************************************)
EXTENDS Preflight

Form(words, maxTags, maxDepth) ==
    [tags |-> words, plain |-> TRUE, hosted |-> TRUE, mode |-> "select", links |-> FALSE,
     maxTags |-> maxTags, maxDepth |-> maxDepth]

MCVocabularies == [
    \* Disabled fieldsets and their legends around the mandatory controls.
    fieldsets |-> Form({"post", "disabledset", "legend", "div", "csrf", "identity"}, 10, 5),
    \* Forms and templates, inert or shadow roots of a div or the body.
    templates |-> Form({"post", "get", "inert", "shadow", "div", "csrf", "identity"}, 9, 4),
    \* What a select submits: options, groups, scripts and templates in it.
    options |-> Form({"post", "csrf", "select", "multiselect", "option", "emptyoption", "textoption",
        "disabledoption", "optgroup", "disabledgroup", "script", "shadow"}, 10, 5),
    \* Buttons and associations by id that redirect a submission.
    submitters |-> Form({"post", "get", "twin", "csrf", "identity", "button", "override",
        "overridef", "resetf", "shadow"}, 7, 4),
    \* Kinds of control that do not submit by themselves.
    controls |-> Form({"post", "get", "csrf", "disabledcsrf", "movedcsrf", "identity",
        "radio", "checkedradio", "checkbox", "button"}, 7, 3),
    \* Where the form goes and how, and what takes the password.
    passwords |-> [Form({"post", "elsewhere", "textual", "get", "csrf", "identity", "password",
        "plainpassword", "button"}, 7, 3) EXCEPT !.mode = "password"],
    \* SVG content, its integration points and what breaks out of it.
    foreign |-> Form({"svg", "emptysvg", "foreignobject", "div", "post"}, 10, 4),
    links |-> [Form({}, 0, 0) EXCEPT !.links = TRUE]]

MCPieces == {"assets", "login", "detour", "away", "host", "realm", ",", " "}
============================================================================
