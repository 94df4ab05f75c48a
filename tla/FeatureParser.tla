---------------------------- MODULE FeatureParser ----------------------------
(***************************************************************************)
(* The feature parser of src/gdm_tck/parser_patch.py, which replaces the    *)
(* one of pytest-bdd: a machine that reads a feature file line by line and  *)
(* builds a background and a dictionary of scenarios.  A line is its        *)
(* keyword, its indentation and the text after the keyword, where that is   *)
(* the name of a scenario or a tag; other text is left out.  Steps are      *)
(* known by their line numbers, so that what was read can be compared with  *)
(* what was built.                                                          *)
(***************************************************************************)
EXTENDS Naturals

CONSTANTS
  Names,        \* names of scenarios
  Tags,         \* tags a tag line may hold (one each)
  SkipMarkers,  \* the tags that tests/conftest.py turns into a skip
  Lines,        \* the lines a file may consist of
  MaxLines,     \* bound: the longest file
  None

StepTypes == {"given", "when", "then"}
StepKinds == StepTypes \cup {"and"}
ScenarioKinds == {"scenario", "outline"}
TextKinds == {"row", "quotes", "comment", "blank", "text"}
Kinds == StepKinds \cup ScenarioKinds \cup TextKinds
         \cup {"feature", "background", "examples", "tag"}
Modes == StepTypes \cup ScenarioKinds
         \cup {"none", "feature", "background", "tag", "examples", "headers", "example"}

ASSUME LinesAssumption ==
  /\ MaxLines \in Nat
  /\ None \notin Names /\ None \notin Tags /\ None \notin Nat
  /\ SkipMarkers \subseteq Tags
  /\ \A l \in Lines :
       /\ l.kind \in Kinds /\ l.indent \in Nat
       /\ l.kind \in ScenarioKinds \cup {"and"} => l.text \in Names
       /\ l.kind = "tag" => l.text \in Tags

VARIABLES
  status,          \* "reading", "done", or how the parser raised
  line_number,
  mode, prev_mode, \* "none" is Python's None
  step,            \* the indentation of the step that may get more lines, or None
  multiline_step, in_docstring,
  prev_line,       \* the tag on the line before, or None
  scenario,        \* the name of the scenario that is being read, or None
  background,      \* its steps, or None
  scenarios,       \* by name: line, tags, steps and rows of examples, or None
  feature_tags

\* History, for the properties.
VARIABLES
  step_lines,      \* the lines with a step keyword that were read as such
  scenario_lines,  \* the lines that start a scenario, read as such
  replaced,        \* the steps of a scenario or background that was overwritten
  marks,           \* the tags of the tag lines just above
  marked,          \* by name: the marks its scenario line had above it
  feature_marked   \* the marks the feature line had above it

progress == <<status, line_number>>
cursor == <<mode, prev_mode, step, multiline_step, in_docstring, prev_line>>
built == <<scenario, background, scenarios, feature_tags>>
history == <<step_lines, scenario_lines, replaced, marks, marked, feature_marked>>
vars == <<progress, cursor, built, history>>

StepRecords == [line : Nat, type : StepTypes]
ScenarioRecords == [line : Nat, tags : SUBSET Tags, steps : SUBSET StepRecords, rows : SUBSET Nat]
BackgroundRecords == [steps : SUBSET StepRecords]
ASSUME NoneAssumption == None \notin ScenarioRecords \cup BackgroundRecords
StepLines(s) == IF s = None THEN {} ELSE {k.line : k \in s.steps}

Init ==
  /\ status = "reading" /\ line_number = 0
  /\ mode = "none" /\ prev_mode = "none" /\ step = None
  /\ multiline_step = FALSE /\ in_docstring = FALSE /\ prev_line = None
  /\ scenario = None /\ background = None
  /\ scenarios = [n \in Names |-> None] /\ feature_tags = {}
  /\ step_lines = {} /\ scenario_lines = {} /\ replaced = {}
  /\ marks = {} /\ marked = [n \in Names |-> {}] /\ feature_marked = {}

-----------------------------------------------------------------------------
(* Which of the loop's branches a line takes, in the order of the code.     *)

InDocstring == step # None /\ in_docstring
SkipsComment(l) == step # None /\ l.kind = "comment"
\* A mutation: three quotes open a docstring wherever they are.
OpensDocstringAnywhere(l) == l.kind = "quotes"
OpensDocstring(l) == step # None /\ l.kind = "quotes" /\ l.indent >= step
StepTable(l) == step # None /\ l.kind = "row" /\ l.indent >= step
Continues(l) == step # None /\ (step < l.indent \/ (l.kind = "blank" /\ multiline_step))
OfStep(l) == InDocstring \/ SkipsComment(l) \/ OpensDocstring(l) \/ StepTable(l) \/ Continues(l)

Empty(l) == l.kind \in {"blank", "comment"}
Ignored(l) == Empty(l) /\ prev_mode \notin ScenarioKinds \cup {"feature"}
HasKeyword(l) == l.kind \notin TextKinds

\* Mutations: the parser of pytest-bdd without the patch, and a patch that
\* forgets the rows of Examples.
NewModeUnpatched(l) == IF l.kind \in Kinds \ (TextKinds \cup {"and"}) THEN l.kind ELSE mode
NewModeInExamples(l) ==
  IF l.kind = "and" /\ mode \notin StepTypes \cup {"headers", "example"} THEN "given"
  ELSE NewModeUnpatched(l)
\* The mode of a line: its own keyword's, else that of the line before; And
\* and But outside of a step are a Given.
NewMode(l) ==
  IF l.kind \in Kinds \ (TextKinds \cup {"and"}) THEN l.kind
  ELSE IF l.kind = "and" /\ mode \notin StepTypes THEN "given"
  ELSE mode

\* A mutation: a step is let through after a tag.
HoldsStepsOrTag == {"background", "given", "when", "tag"}
HoldsSteps == {"background", "given", "when"}
OutsideScenario(l) ==
  scenario = None /\ prev_mode \notin HoldsSteps /\ NewMode(l) \in StepTypes
SecondFeature(l) == NewMode(l) = "feature" /\ prev_mode \notin {"none", "tag", "feature"}

GetTags == IF prev_line = None THEN {} ELSE {prev_line}

-----------------------------------------------------------------------------
(* Lines that belong to the step above them.                                *)

Advance == line_number' = line_number + 1 /\ UNCHANGED status
NothingBuilt == UNCHANGED <<built, history>>

DocstringLine(l) ==
  /\ InDocstring
  /\ in_docstring' = (l.kind # "quotes")
  /\ UNCHANGED <<mode, prev_mode, step, multiline_step, prev_line>>
  /\ Advance /\ NothingBuilt

SkipComment(l) ==
  /\ ~InDocstring /\ SkipsComment(l)
  /\ Advance /\ UNCHANGED cursor /\ NothingBuilt

StepContent(l) ==
  /\ ~InDocstring /\ ~SkipsComment(l)
  /\ OpensDocstring(l) \/ StepTable(l) \/ Continues(l)
  /\ multiline_step' = TRUE
  /\ in_docstring' = OpensDocstring(l)
  /\ UNCHANGED <<mode, prev_mode, step, prev_line>>
  /\ Advance /\ NothingBuilt

(* Every other line ends the step above it.                                 *)

Outside(l) == ~OfStep(l) /\ multiline_step' = FALSE /\ UNCHANGED in_docstring

IgnoredLine(l) ==
  /\ Outside(l) /\ Ignored(l)
  /\ step' = None /\ UNCHANGED <<mode, prev_mode, prev_line>>
  /\ Advance /\ NothingBuilt

Raise(l) ==
  /\ Outside(l) /\ ~Ignored(l)
  /\ OutsideScenario(l) \/ SecondFeature(l)
  /\ status' = "FeatureError" /\ line_number' = line_number + 1
  /\ step' = None /\ mode' = NewMode(l) /\ UNCHANGED <<prev_mode, prev_line>>
  /\ NothingBuilt

\* A line that is dispatched on its mode m, which may move on to next_mode.
Dispatched(l, m, next_mode) ==
  /\ Outside(l) /\ ~Ignored(l) /\ ~OutsideScenario(l) /\ ~SecondFeature(l)
  /\ NewMode(l) = m
  /\ mode' = next_mode /\ prev_mode' = m

Seen(l) ==
  /\ step_lines' = IF l.kind \in StepKinds THEN step_lines \cup {line_number + 1} ELSE step_lines
  /\ marks' = IF l.kind = "tag" THEN marks \cup {l.text}
              ELSE IF Empty(l) THEN marks ELSE {}

\* A mutation: only a tag line replaces the previous line.
PrevLineStale(l) == IF l.kind = "tag" THEN l.text ELSE prev_line
PrevLine(l) == IF l.kind = "tag" THEN l.text ELSE None

NamesFeature(l) == NewMode(l) = "feature" /\ prev_mode \in {"none", "tag"}

\* FEATURE, TAG and lines before any keyword: nothing is built but the
\* feature's own tags.
OtherLine(l) ==
  /\ \E m \in {"none", "feature", "tag"} : Dispatched(l, m, m)
  /\ feature_tags' = IF NamesFeature(l) THEN GetTags ELSE feature_tags
  /\ feature_marked' = IF NamesFeature(l) THEN marks ELSE feature_marked
  /\ step' = None /\ prev_line' = PrevLine(l)
  /\ Advance /\ Seen(l)
  /\ UNCHANGED <<scenario, background, scenarios, scenario_lines, replaced, marked>>

DescriptionLine(l) ==
  /\ \E m \in ScenarioKinds : Dispatched(l, m, m)
  /\ scenario # None /\ ~HasKeyword(l)
  /\ step' = None /\ UNCHANGED prev_line
  /\ Advance /\ Seen(l)
  /\ UNCHANGED <<built, scenario_lines, replaced, marked, feature_marked>>

StartScenario(l) ==
  /\ \E m \in ScenarioKinds : Dispatched(l, m, m)
  /\ ~(scenario # None /\ ~HasKeyword(l))
  /\ scenario' = l.text
  /\ scenarios' = [scenarios EXCEPT ![l.text] =
       [line |-> line_number + 1, tags |-> GetTags, steps |-> {}, rows |-> {}]]
  /\ replaced' = replaced \cup StepLines(scenarios[l.text])
  /\ marked' = [marked EXCEPT ![l.text] = marks]
  /\ scenario_lines' = IF l.kind \in ScenarioKinds THEN scenario_lines \cup {line_number + 1}
                       ELSE scenario_lines
  /\ step' = None /\ prev_line' = PrevLine(l)
  /\ Advance /\ Seen(l)
  /\ UNCHANGED <<background, feature_tags, feature_marked>>

StartBackground(l) ==
  /\ Dispatched(l, "background", "background")
  /\ background' = [steps |-> {}]
  /\ replaced' = replaced \cup StepLines(background)
  /\ step' = None /\ prev_line' = PrevLine(l)
  /\ Advance /\ Seen(l)
  /\ UNCHANGED <<scenario, scenarios, feature_tags, scenario_lines, marked, feature_marked>>

\* EXAMPLES, the line with the names of the parameters, and each row.
ExamplesLine(l) ==
  \E m \in {"examples", "headers", "example"} :
    /\ Dispatched(l, m, IF m = "examples" THEN "headers" ELSE "example")
    /\ step' = None
    /\ IF scenario = None
       THEN /\ status' = "AttributeError" /\ line_number' = line_number + 1
            /\ UNCHANGED <<prev_line, built, history>>
       ELSE /\ scenarios' = IF m # "example" THEN scenarios
                            ELSE [scenarios EXCEPT ![scenario].rows = @ \cup {line_number + 1}]
            /\ prev_line' = PrevLine(l)
            /\ Advance /\ Seen(l)
            /\ UNCHANGED <<scenario, background, feature_tags, scenario_lines, replaced,
                           marked, feature_marked>>

\* A step goes to the background while there is no scenario; with neither,
\* None.add_step raises.
AddStep(l) ==
  \E m \in StepTypes :
    /\ Dispatched(l, m, m)
    /\ step' = l.indent
    /\ LET new == [line |-> line_number + 1, type |-> m] IN
       IF background = None /\ scenario = None
       THEN /\ status' = "AttributeError" /\ line_number' = line_number + 1
            /\ UNCHANGED <<prev_line, built, history>>
       ELSE /\ IF scenario = None
               THEN background' = [background EXCEPT !.steps = @ \cup {new}] /\ UNCHANGED scenarios
               ELSE /\ scenarios' = [scenarios EXCEPT ![scenario].steps = @ \cup {new}]
                    /\ UNCHANGED background
            /\ prev_line' = PrevLine(l)
            /\ Advance /\ Seen(l)
            /\ UNCHANGED <<scenario, feature_tags, scenario_lines, replaced,
                           marked, feature_marked>>

EndOfFile ==
  /\ status = "reading" /\ status' = "done"
  /\ UNCHANGED <<line_number, cursor, built, history>>

ReadLine(l) ==
  /\ status = "reading" /\ line_number < MaxLines
  /\ \/ DocstringLine(l) \/ SkipComment(l) \/ StepContent(l)
     \/ IgnoredLine(l) \/ Raise(l) \/ OtherLine(l)
     \/ DescriptionLine(l) \/ StartScenario(l) \/ StartBackground(l)
     \/ ExamplesLine(l) \/ AddStep(l)

Next == EndOfFile \/ \E l \in Lines : ReadLine(l)
Spec == Init /\ [][Next]_vars

-----------------------------------------------------------------------------
TypeOK ==
  /\ status \in {"reading", "done", "FeatureError", "AttributeError"}
  /\ line_number \in 0..MaxLines
  /\ mode \in Modes /\ prev_mode \in Modes
  /\ step \in Nat \cup {None}
  /\ multiline_step \in BOOLEAN /\ in_docstring \in BOOLEAN
  /\ in_docstring => step # None
  /\ prev_line \in Tags \cup {None}
  /\ scenario \in Names \cup {None}
  /\ background \in BackgroundRecords \cup {None}
  /\ scenarios \in [Names -> ScenarioRecords \cup {None}]
  /\ feature_tags \subseteq Tags
  /\ step_lines \subseteq Nat /\ scenario_lines \subseteq Nat /\ replaced \subseteq Nat
  /\ marks \subseteq Tags /\ feature_marked \subseteq Tags
  /\ marked \in [Names -> SUBSET Tags]

\* Each scenario that was built starts at a line that says Scenario, and has
\* the steps and rows between that line and the next that says so: no step is
\* taken for a scenario, whatever And or But inherits, and none lands in
\* another scenario.  The steps of the background come before all of them.
StepsUnderTheirScenario ==
  /\ \A k \in StepLines(background), s \in scenario_lines : k < s
  /\ \A n \in Names : scenarios[n] # None =>
       /\ scenarios[n].line \in scenario_lines
       /\ \A k \in StepLines(scenarios[n]) \cup scenarios[n].rows :
            /\ scenarios[n].line < k
            /\ \A s \in scenario_lines : s <= scenarios[n].line \/ k < s

\* A line with a step keyword that was not taken as the content of another
\* step is a step of the background or of one scenario, or belonged to one
\* that a later definition of the same name overwrote.
NoStepLost ==
  status \in {"reading", "done"} =>
    \A k \in step_lines :
      k \in StepLines(background) \cup replaced \cup UNION {StepLines(scenarios[n]) : n \in Names}

\* A step without a scenario or a background is reported as such: the parser
\* never trips over the None that stands for the scenario, unless Examples
\* come before any.
StepsHaveAHome == status = "AttributeError" => mode \in {"headers", "example"}

\* A scenario that pytest skips has a skip marker among the tags above it or
\* above the feature: no tag is inherited from an older line.
Skipped(n) == (scenarios[n].tags \cup feature_tags) \cap SkipMarkers # {}
SkippedOnlyIfMarked ==
  \A n \in Names : scenarios[n] # None /\ Skipped(n) =>
    (marked[n] \cup feature_marked) \cap SkipMarkers # {}

\* What pytest_collection_modifyitems in tests/conftest.py says: a scenario
\* that is marked with a skip marker is skipped.
IgnoredIsSkipped ==
  \A n \in Names : scenarios[n] # None /\ marked[n] \cap SkipMarkers # {} => Skipped(n)
=============================================================================
