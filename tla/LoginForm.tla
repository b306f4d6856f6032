----------------------------- MODULE LoginForm -----------------------------
(***************************************************************************)
(* validateLoginHTML and the HTML walker under it (internal/idp/server.go): *)
(* the one pass over the tags of a theme's rendered login page that        *)
(* decides at start-up whether the page can log anybody in.  A page is     *)
(* written tag by tag; checker is the state of the pass, page what a       *)
(* browser makes of the same tags (forms, trees, owners, disabledness).    *)
(* The tokenizer is external, pages are well nested, and their tags are    *)
(* those in the body.                                                      *)
(*                                                                         *)
(* csrf stands for the two hidden inputs and identity for the control that *)
(* names the user, username in the password mode.                          *)
(***************************************************************************)
EXTENDS Integers, Sequences, SequencesExt

\* A vocabulary says what a page is written with: its tags, how many, how
\* deep, whether SVG is plain, without controls, templates or more SVG, and
\* whether shadow templates are hosted, where a browser can attach them.
CONSTANT Vocabularies

ASSUME PageAssumption ==
    \A kind \in DOMAIN Vocabularies :
        /\ Vocabularies[kind].maxTags \in Nat
        /\ Vocabularies[kind].maxDepth \in Nat
        /\ Vocabularies[kind].plain \in BOOLEAN
        /\ Vocabularies[kind].hosted \in BOOLEAN
        /\ Vocabularies[kind].mode \in {"password", "select"}

VARIABLES
    vocabulary,
    checker,  \* the validation, the walker's stack and the option in progress
    page,     \* the browser's open elements, forms and controls
    tags,     \* how many tags were written
    verdict   \* "open", "accepted" or "rejected"

vars == <<vocabulary, checker, page, tags, verdict>>

mode == Vocabularies[vocabulary].mode

----------------------------------------------------------------------------
(* Tags. *)

Tag(tag) ==
    [tag |-> tag, name |-> "", type |-> "", value |-> "none", disabled |-> FALSE,
     form |-> "", id |-> "", post |-> FALSE, action |-> "", enctype |-> "",
     multiple |-> FALSE, shadow |-> FALSE, override |-> FALSE, checked |-> FALSE,
     closed |-> FALSE]
Input(name, type) == [Tag("input") EXCEPT !.name = name, !.type = type]

Tags == [
    post |-> [Tag("form") EXCEPT !.post = TRUE, !.id = "f", !.action = "login"],
    elsewhere |-> [Tag("form") EXCEPT !.post = TRUE, !.action = "elsewhere"],
    textual |-> [Tag("form") EXCEPT !.post = TRUE, !.action = "login", !.enctype = "text/plain"],
    get |-> [Tag("form") EXCEPT !.id = "g"],
    twin |-> [Tag("form") EXCEPT !.id = "f"],
    fieldset |-> Tag("fieldset"),
    disabledset |-> [Tag("fieldset") EXCEPT !.disabled = TRUE],
    legend |-> Tag("legend"),
    div |-> Tag("div"),
    inert |-> Tag("template"),
    shadow |-> [Tag("template") EXCEPT !.shadow = TRUE],
    closedinert |-> [Tag("template") EXCEPT !.closed = TRUE],
    svg |-> Tag("svg"),
    emptysvg |-> [Tag("svg") EXCEPT !.closed = TRUE],
    foreignobject |-> Tag("foreignobject"),
    csrf |-> [Input("csrf", "hidden") EXCEPT !.value = "full"],
    identity |-> Input("identity", "text"),
    password |-> Input("password", "password"),
    plainpassword |-> Input("password", "text"),
    checkedradio |-> [Input("identity", "radio") EXCEPT !.checked = TRUE],
    radio |-> Input("identity", "radio"),
    checkbox |-> [Input("identity", "checkbox") EXCEPT !.checked = TRUE],
    disabledcsrf |-> [Input("csrf", "hidden") EXCEPT !.value = "full", !.disabled = TRUE],
    movedcsrf |-> [Input("csrf", "hidden") EXCEPT !.value = "full", !.form = "f"],
    button |-> Tag("button"),
    override |-> [Tag("button") EXCEPT !.override = TRUE],
    overridef |-> [Tag("button") EXCEPT !.override = TRUE, !.form = "f"],
    resetf |-> [Tag("button") EXCEPT !.override = TRUE, !.form = "f", !.type = "reset"],
    select |-> [Tag("select") EXCEPT !.name = "identity"],
    multiselect |-> [Tag("select") EXCEPT !.name = "identity", !.multiple = TRUE],
    option |-> [Tag("option") EXCEPT !.value = "full"],
    emptyoption |-> [Tag("option") EXCEPT !.value = "empty"],
    textoption |-> Tag("option"),
    disabledoption |-> [Tag("option") EXCEPT !.value = "full", !.disabled = TRUE],
    optgroup |-> Tag("optgroup"),
    disabledgroup |-> [Tag("optgroup") EXCEPT !.disabled = TRUE],
    script |-> Tag("script")]

Sensitive == {"csrf", "identity", "password"}
Controls == {"input", "select", "textarea", "button"}
isVoidHTMLElement(tag) == tag \in {"input"}

\* Without a submitter these send nothing, or not always.
Unsuccessful(e) ==
    \/ e.tag = "button"
    \/ e.tag = "input" /\ e.type \in {"button", "reset", "submit", "image", "file", "checkbox"}
    \/ e.tag = "input" /\ e.type = "radio" /\ ~e.checked

Submitter(e) ==
    \/ e.tag = "button" /\ e.type \notin {"button", "reset"}
    \/ e.tag = "input" /\ e.type \in {"submit", "image"}

----------------------------------------------------------------------------
(* The walker: foreign elements are kept on a stack of their own. *)

foreignBreakoutElement(tag) == tag = "div" \/ tag = "form"
foreignIntegrationPoint(tag) == tag = "foreignobject"

currentNamespace(stack) ==
    IF stack = <<>> \/ Last(stack).integratesHTML THEN "html" ELSE "svg"

\* The last position of a sequence that satisfies Test, 0 if none does.
LastWhere(seq, Test(_)) ==
    LET found == {i \in DOMAIN seq : Test(seq[i])}
    IN  IF found = {} THEN 0 ELSE CHOOSE i \in found : \A j \in found : j <= i

close(stack, name) ==
    LET i == LastWhere(stack, LAMBDA frame : frame.name = name)
    IN  IF i = 0 THEN stack ELSE SubSeq(stack, 1, i - 1)

\* Mutant: a breakout element opens where it stands.
EnteredKept(stack, e) == stack

\* The stack in front of a start tag, once a breakout has emptied it.
Entered(stack, e) ==
    IF currentNamespace(stack) # "html" /\ foreignBreakoutElement(e.tag)
    THEN <<>> ELSE stack

\* HTML ignores the self-closing flag on its own elements.
SelfClosing(stack, e) ==
    /\ e.closed
    /\ \/ currentNamespace(stack) # "html"
       \/ e.tag = "svg" \/ isVoidHTMLElement(e.tag)

nextFrames(stack, e) ==
    IF SelfClosing(stack, e) \/ (currentNamespace(stack) = "html" /\ e.tag # "svg")
    THEN stack
    ELSE Append(stack, [name |-> e.tag, integratesHTML |->
            currentNamespace(stack) # "html" /\ foreignIntegrationPoint(e.tag)])

----------------------------------------------------------------------------
(* The checks, in the order of the code.  An error sets bad; it is final,  *)
(* so the steps after it need not be skipped.                              *)

NoOption == [eligible |-> FALSE, value |-> "none", text |-> FALSE, script |-> FALSE]
Scope(inert) == [inert |-> inert, form |-> 0, inPost |-> FALSE]

NewChecker ==
    [bad |-> FALSE, stack |-> <<>>, scopes |-> <<Scope(FALSE)>>, elements |-> <<>>,
     fieldsets |-> <<>>, forms |-> <<>>, postForm |-> 0, action |-> "",
     controls |-> {}, overrides |-> {}, select |-> "", groupDisabled |-> FALSE, option |-> NoOption]

Top(v) == Last(v.scopes)
SetTop(v, scope) == [v EXCEPT !.scopes = Append(Front(@), scope)]
Fail(v, condition) == [v EXCEPT !.bad = @ \/ condition]

finishOption(v) ==
    LET counts == /\ v.option.eligible
                  /\ \/ v.option.value = "full"
                     \/ v.option.value = "none" /\ v.option.text
    IN  [v EXCEPT !.option = NoOption,
                  !.controls = IF counts THEN {[c EXCEPT !.options = @ \/ c.name = v.select] : c \in @}
                               ELSE @]

\* A legend directly in a fieldset, if it is the first one, exempts its
\* controls from the fieldset's disabled attribute.
SeeLegend(v, e) ==
    IF e.tag = "legend" /\ v.elements # <<>> /\ Last(v.elements) = "fieldset"
    THEN [v EXCEPT !.fieldsets = [i \in DOMAIN @ |->
            IF @[i].depth = Len(v.elements) /\ ~@[i].seen
            THEN [@[i] EXCEPT !.seen = TRUE, !.open = TRUE,
                              !.legend = Len(v.elements) + 1]
            ELSE @[i]]]
    ELSE v

SeeFieldset(v, e) ==
    IF e.tag = "fieldset"
    THEN [v EXCEPT !.fieldsets = Append(@,
            [depth |-> Len(v.elements) + 1, disabled |-> e.disabled,
             seen |-> FALSE, open |-> FALSE, legend |-> 0])]
    ELSE v

SeeInSelect(v, e) ==
    CASE v.select = "" -> v
      [] e.tag = "script" -> [v EXCEPT !.option.script = v.option # NoOption]
      [] e.tag \in {"select", "input", "textarea"} -> Fail(v, TRUE)
      [] e.tag = "optgroup" -> [finishOption(v) EXCEPT !.groupDisabled = e.disabled]
      [] e.tag = "option" ->
            [finishOption(v) EXCEPT !.option =
                [NoOption EXCEPT !.eligible = ~e.disabled /\ ~v.groupDisabled,
                                 !.value = e.value]]
      [] OTHER -> v

SeeForm(v, e) ==
    LET index == Len(v.forms) + 1
        listed == [Fail(v, Top(v).form # 0 \/ e.enctype \in {"multipart/form-data", "text/plain"})
                     EXCEPT !.forms = Append(@, e.id)]
    IN  CASE e.tag # "form" -> v
          [] ~e.post -> SetTop(listed, [Top(v) EXCEPT !.form = index])
          [] OTHER ->
                [SetTop(Fail(listed, v.postForm # 0),
                        [Top(v) EXCEPT !.form = index, !.inPost = TRUE])
                    EXCEPT !.postForm = index, !.action = e.action, !.controls = {}]

Disabled(v, e) ==
    e.disabled \/ \E i \in DOMAIN v.fieldsets :
                      v.fieldsets[i].disabled /\ ~v.fieldsets[i].open

SeeControl(v, e) ==
    LET sensitive == e.name \in Sensitive
        noted == [Fail(v, sensitive /\ (Disabled(v, e) \/ e.form # ""))
            EXCEPT !.overrides = IF e.override /\ e.tag \in {"input", "button"}
                THEN @ \cup {[submitter |-> Submitter(e), form |-> e.form,
                              owner |-> Top(v).form]} ELSE @]
    IN  IF ~Top(v).inPost \/ e.name = "" THEN noted
        ELSE [Fail(noted, sensitive /\ ( \/ \E c \in v.controls : c.name = e.name
                                         \/ Unsuccessful(e)
                                         \/ e.tag = "select" /\ e.multiple ))
                EXCEPT !.controls = {c \in @ : c.name # e.name} \cup
                           {[name |-> e.name, tag |-> e.tag, type |-> e.type,
                             value |-> e.value, options |-> FALSE]},
                       !.select = IF e.tag = "select" /\ sensitive THEN e.name ELSE @,
                       !.groupDisabled = @ /\ ~(e.tag = "select" /\ sensitive)]

\* Mutants: a template in a template, or in a select, starts a live scope.
InertAlone(v, e) == v.select # "" \/ ~e.shadow
InertOutsideSelect(v, e) == Top(v).inert \/ ~e.shadow

\* A template is inert unless it may become a shadow root.
Inert(v, e) == Top(v).inert \/ v.select # "" \/ ~e.shadow

StartTag(v0, e) ==
    LET stack == Entered(v0.stack, e)
        v == [v0 EXCEPT !.stack = nextFrames(stack, e)]
    IN  CASE e.tag = "template" ->
                IF SelfClosing(stack, e) THEN v
                ELSE [v EXCEPT !.scopes = Append(@, Scope(Inert(v, e)))]
          [] e.tag # "template" /\ Top(v).inert -> v
          [] OTHER ->
                LET seen == SeeForm(SeeInSelect(SeeFieldset(SeeLegend(v, e), e), e), e)
                    controlled == IF e.tag \in Controls THEN SeeControl(seen, e) ELSE seen
                IN  IF isVoidHTMLElement(e.tag) THEN controlled
                    ELSE [controlled EXCEPT !.elements = Append(@, e.tag)]

EndTag(v0, tag) ==
    LET v == [v0 EXCEPT !.stack = close(v0.stack, tag)]
        option == IF tag \in {"option", "optgroup", "select"} THEN finishOption(v)
                  ELSE IF tag = "script" THEN [v EXCEPT !.option.script = FALSE] ELSE v
        select == [option EXCEPT !.select = IF tag = "select" THEN "" ELSE @,
                                 !.groupDisabled = @ /\ tag \notin {"select", "optgroup"}]
        match == LastWhere(v.elements, LAMBDA name : name = tag)
        closed == IF match = 0 THEN select
                  ELSE [select EXCEPT
                    !.elements = SubSeq(@, 1, match - 1),
                    !.fieldsets = SelectSeq(
                        [i \in DOMAIN @ |-> [@[i] EXCEPT
                            !.open = @ /\ ~(tag = "legend" /\ v.fieldsets[i].legend = match)]],
                        LAMBDA f : f.depth < match)]
    IN  CASE tag = "template" ->
                IF Len(v.scopes) > 1 THEN [v EXCEPT !.scopes = Front(@)] ELSE v
          [] tag # "template" /\ Top(v).inert -> v
          [] tag = "form" -> SetTop(closed, Scope(FALSE))
          [] OTHER -> closed

TextToken(v) ==
    IF v.option.eligible /\ ~v.option.script /\ ~Top(v).inert
    THEN [v EXCEPT !.option.text = TRUE] ELSE v

\* Mutant: only the form around a submitter counts.
OverrideInside(v, o) == o.submitter /\ o.owner = v.postForm

\* A submitter of the POST form, directly or by its id (the first with it).
OverridesPost(v, o) ==
    LET named == {i \in DOMAIN v.forms : v.forms[i] = o.form}
    IN  /\ o.submitter
        /\ IF o.form = "" THEN o.owner = v.postForm
           ELSE named # {} /\ v.postForm = CHOOSE i \in named : \A j \in named : i <= j

Accepts(v0) ==
    LET v == finishOption(v0)
    IN  /\ ~v.bad
        /\ \A o \in v.overrides : ~OverridesPost(v, o)
        /\ v.postForm # 0 /\ v.action = "login"
        /\ \E c \in v.controls : /\ c.name = "csrf" /\ c.tag = "input"
                                 /\ c.type = "hidden" /\ c.value = "full"
        /\ \E c \in v.controls : c.name = "identity"
        /\ mode = "password" =>
              \E c \in v.controls : c.name = "password" /\ c.tag = "input" /\ c.type = "password"
        /\ \A c \in v.controls : c.tag = "select" /\ c.name = "identity" => c.options

----------------------------------------------------------------------------
(* What a browser makes of the page. *)

Node(e, html) ==
    [tag |-> e.tag, html |-> html, element |-> e, form |-> 0, legends |-> 0,
     first |-> FALSE, root |-> FALSE, hosts |-> FALSE]

Namespace(open) == IF open = <<>> \/ Last(open).html THEN "html" ELSE "svg"

\* A breakout element closes the foreign elements around it.
Around(open, e) ==
    IF Namespace(open) = "html" \/ ~foreignBreakoutElement(e.tag) THEN open
    ELSE SubSeq(open, 1, LastWhere(open, LAMBDA n : n.html))

\* The part of the stack in the tree of the current node: a template's
\* content and a shadow root are trees of their own.
Tree(open) ==
    SubSeq(open, LastWhere(open, LAMBDA n : n.tag = "template") + 1, Len(open))
Dormant(open) == \E i \in DOMAIN open : open[i].tag = "template" /\ ~open[i].root

\* The current node can be given a shadow root: the body or a div, live, that
\* has none.  Elsewhere, in a form, a fieldset, a select or a template, and
\* the second time, a shadow template is like any other.
Hosts(p, open) ==
    IF open = <<>> THEN ~p.hosts
    ELSE Last(open).tag = "div" /\ ~Last(open).hosts /\ ~Dormant(open)
FormOwner(open) ==
    LET i == LastWhere(Tree(open), LAMBDA n : n.tag = "form")
    IN  IF i = 0 THEN 0 ELSE Tree(open)[i].form

\* A disabled fieldset spares only what is in its first legend child.
FieldsetDisables(open) ==
    LET tree == Tree(open)
    IN  \E i \in DOMAIN tree :
            /\ tree[i].tag = "fieldset" /\ tree[i].element.disabled
            /\ ~(i < Len(tree) /\ tree[i + 1].tag = "legend" /\ tree[i + 1].first)

\* What is no button has one value to send.
Sends(e) ==
    /\ e.tag # "button" /\ ~e.multiple
    /\ e.type \in {"radio", "checkbox"} => e.checked

LiveOption(open, e) ==
    LET group == LastWhere(open, LAMBDA n : n.tag = "optgroup")
    IN  /\ e.tag = "option" /\ ~e.disabled
        /\ group # 0 => ~open[group].element.disabled

NewPage ==
    [open |-> <<>>, hosts |-> FALSE, forms |-> <<>>, controls |-> <<>>, buttons |-> {}]

\* The value of an option without the attribute is its text.
Offer(p) == [p EXCEPT !.controls = Append(Front(@), [Last(@) EXCEPT !.options = TRUE])]

PageStart(p, e) ==
    LET open == Around(p.open, e)
        ns == Namespace(open)
        inner == IF ns # "html" \/ e.tag = "svg" THEN "svg" ELSE "html"
        index == Len(p.forms) + 1
        isForm == e.tag = "form" /\ ns = "html" /\ ~Dormant(open)
        attached == e.shadow /\ Hosts(p, open)
        node == [Node(e, inner = "html" \/ foreignIntegrationPoint(e.tag))
                    EXCEPT !.form = IF isForm THEN index ELSE 0,
                           !.first = open # <<>> /\ Last(open).legends = 0,
                           !.root = attached]
        parent == IF open = <<>> THEN open
                  ELSE Append(Front(open),
                         [Last(open) EXCEPT !.legends = IF e.tag = "legend" THEN 1 ELSE @,
                                            !.hosts = @ \/ attached])
        live == ns = "html" /\ ~Dormant(open)
        control == [name |-> e.name, tag |-> e.tag, type |-> e.type,
                    value |-> e.value, options |-> FALSE, owner |-> FormOwner(open),
                    sends |-> /\ ~e.disabled /\ ~FieldsetDisables(open)
                              /\ Sends(e)]
        opened == [p EXCEPT
            !.open = IF IF inner = "svg" THEN e.closed ELSE isVoidHTMLElement(e.tag)
                     THEN open ELSE Append(parent, node),
            !.hosts = @ \/ (open = <<>> /\ attached),
            !.forms = IF isForm
                      THEN Append(@, [id |-> e.id, post |-> e.post, action |-> e.action,
                                      enctype |-> e.enctype, nested |-> FormOwner(open) # 0])
                      ELSE @,
            !.controls = IF live /\ e.tag \in Controls /\ e.name # ""
                         THEN Append(@, control) ELSE @,
            !.buttons = IF live /\ e.override /\ Submitter(e)
                        THEN @ \cup {[form |-> e.form, owner |-> FormOwner(open),
                                      root |-> Len(Tree(open)) = Len(open)]} ELSE @]
    IN  IF live /\ LiveOption(open, e) /\ e.value = "full" THEN Offer(opened) ELSE opened

PageText(p) ==
    LET n == Len(p.open)
    IN  IF /\ n > 0 /\ p.open[n].tag = "option" /\ ~Dormant(p.open)
           /\ p.open[n].element.value = "none"
           /\ LiveOption(p.open, p.open[n].element)
        THEN Offer(p) ELSE p

----------------------------------------------------------------------------
(* Writing the page. *)

Init ==
    /\ vocabulary \in DOMAIN Vocabularies
    /\ checker = NewChecker
    /\ page = NewPage
    /\ tags = 0
    /\ verdict = "open"

Write ==
    /\ verdict = "open"
    /\ tags < Vocabularies[vocabulary].maxTags
    /\ tags' = tags + 1
    /\ UNCHANGED <<vocabulary, verdict>>

\* Options stand in selects only, and a select holds nothing else that a
\* browser's parser would move.  Where shadow templates are hosted, one that
\* a browser would not attach is in a select or in inert content.
InPlace(e) ==
    LET plain == Vocabularies[vocabulary].plain
        hosted == Vocabularies[vocabulary].hosted
        select == \E i \in DOMAIN page.open : page.open[i].tag = "select"
    IN  /\ e.tag \in {"option", "optgroup"} => select
        /\ select => e.tag \in {"option", "optgroup", "script", "template"}
        /\ hosted /\ e.shadow => select \/ Dormant(page.open) \/ Hosts(page, page.open)
        /\ page.open # <<>> =>
              /\ Last(page.open).tag # "script"
              /\ Last(page.open).tag = "option" => e.tag \in {"script", "template"}
        /\ e.tag = "foreignobject" => Namespace(page.open) = "svg"
        /\ Namespace(page.open) # "html" =>
              ~plain \/ e.tag \notin Controls \cup {"template"}
        /\ plain /\ e.tag = "svg" =>
              \A i \in DOMAIN page.open : page.open[i].tag # "svg"

Start ==
    /\ Write
    /\ Len(page.open) < Vocabularies[vocabulary].maxDepth
    /\ \E word \in Vocabularies[vocabulary].tags :
        /\ InPlace(Tags[word])
        /\ checker' = StartTag(checker, Tags[word])
        /\ page' = PageStart(page, Tags[word])

End ==
    /\ Write
    /\ page.open # <<>>
    /\ checker' = EndTag(checker, Last(page.open).tag)
    /\ page' = [page EXCEPT !.open = Front(@)]

Text ==
    /\ Write
    /\ page.open # <<>>
    /\ Last(page.open).tag \in {"option", "script"}
    /\ checker' = TextToken(checker)
    /\ page' = PageText(page)

Finish ==
    /\ verdict = "open"
    /\ page.open = <<>>
    /\ verdict' = IF Accepts(checker) THEN "accepted" ELSE "rejected"
    /\ UNCHANGED <<vocabulary, checker, page, tags>>

\* The code stops at the first error; a page that has one is not continued.
Next == ~checker.bad /\ (Start \/ End \/ Text \/ Finish)

Spec == Init /\ [][Next]_vars

----------------------------------------------------------------------------
(* Properties. *)

PostForms == {i \in DOMAIN page.forms : page.forms[i].post}
Sent(name) == {i \in DOMAIN page.controls :
    /\ page.controls[i].name = name
    /\ page.controls[i].sends
    /\ page.controls[i].owner \in PostForms}

\* README.md on login themes: exactly one POST form, nested in no other, that
\* goes to the realm's login, in the encoding its handler reads.
OnePostForm ==
    verdict = "accepted" =>
        \E i \in DOMAIN page.forms :
            /\ PostForms = {i} /\ ~page.forms[i].nested
            /\ page.forms[i].action = "login" /\ page.forms[i].enctype = ""

\* README.md on login themes: the sensitive controls are not duplicated, and
\* those the mode needs are enabled controls that submit one value; a multiple
\* select or inert template content cannot supply them, and passwords are
\* typed into password inputs.
ControlsSubmitOnce ==
    verdict = "accepted" =>
        /\ \A name \in Sensitive : \A i, j \in Sent(name) : i = j
        /\ Sent("csrf") # {} /\ Sent("identity") # {}
        /\ mode = "password" =>
              \E i \in Sent("password") : page.controls[i].type = "password"
        /\ \A i \in Sent("identity") :
              page.controls[i].tag = "select" => page.controls[i].options

\* No button of an accepted form, inside it or associated by id, sends the
\* credentials elsewhere or in another encoding.
NoOverride ==
    verdict = "accepted" => \A b \in page.buttons :
        IF b.form = "" THEN b.owner \notin PostForms
        ELSE b.root => \A i \in PostForms : page.forms[i].id = b.form =>
                \E j \in DOMAIN page.forms : j < i /\ page.forms[j].id = b.form

\* The pass and the browser agree on where HTML content is.
NamespacesAgree ==
    ~checker.bad => (currentNamespace(checker.stack) = Namespace(page.open))

============================================================================
