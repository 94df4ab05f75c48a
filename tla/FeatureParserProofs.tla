-------------------------- MODULE FeatureParserProofs --------------------------
(***************************************************************************)
(* The safety of the feature parser, for files of every length and every    *)
(* set of lines.  The invariant IInv says what the parser's cursor means:   *)
(* in a scenario's header there is a scenario and no tag behind the cursor, *)
(* after Background there is a background, and the scenario being read is   *)
(* the last one that the file started.                                      *)
(***************************************************************************)
EXTENDS FeatureParser, TLAPS

CursorInv ==
  /\ mode \in ScenarioKinds => scenario # None /\ prev_line = None
  /\ (status = "reading" /\ prev_mode \in HoldsSteps) => scenario # None \/ background # None
  /\ prev_line # None => prev_line \in marks
  /\ scenario = None => scenario_lines = {}

LinesInv ==
  /\ scenario_lines \subseteq 0..line_number
  /\ \A k \in StepLines(background) : k <= line_number
  /\ \A n \in Names : scenarios[n] # None =>
       \A k \in StepLines(scenarios[n]) \cup scenarios[n].rows : k <= line_number
  /\ scenario # None =>
       /\ scenarios[scenario] # None
       /\ \A s \in scenario_lines : s <= scenarios[scenario].line

TagsInv ==
  /\ feature_tags \subseteq feature_marked
  /\ \A n \in Names : scenarios[n] # None => scenarios[n].tags \subseteq marked[n]

IInv == TypeOK /\ CursorInv /\ LinesInv /\ TagsInv
        /\ StepsUnderTheirScenario /\ NoStepLost /\ StepsHaveAHome

-----------------------------------------------------------------------------
(* Lines and records. *)

LEMMA ModeTyped == ASSUME NEW l \in Lines, mode \in Modes PROVE NewMode(l) \in Modes
  BY LinesAssumption DEF NewMode, Modes, Kinds, StepKinds, StepTypes, ScenarioKinds, TextKinds

\* A dispatched line that is not described by the mode before it has the
\* keyword of its mode; And and But give a step.
LEMMA ScenarioKeyword ==
  ASSUME NEW l \in Lines, NewMode(l) \in ScenarioKinds, l.kind \notin ScenarioKinds
  PROVE  /\ mode \in ScenarioKinds
         /\ ~HasKeyword(l)
  BY LinesAssumption
  DEF NewMode, HasKeyword, Modes, Kinds, StepKinds, StepTypes, ScenarioKinds, TextKinds

LEMMA GetTagsTyped == ASSUME TypeOK PROVE GetTags \subseteq Tags
  BY DEF TypeOK, GetTags

LEMMA StepKeyword ==
  ASSUME NEW l \in Lines, l.kind \in StepKinds PROVE NewMode(l) \in StepTypes
  BY DEF NewMode, Kinds, StepKinds, StepTypes, ScenarioKinds, TextKinds

LEMMA RecordLines ==
  ASSUME NEW s \in ScenarioRecords
  PROVE  /\ s # None /\ s.line \in Nat /\ s.steps \in SUBSET StepRecords
         /\ \A k \in StepLines(s) \cup s.rows : k \in Nat
<1>1. s # None /\ s.line \in Nat /\ s.steps \in SUBSET StepRecords /\ s.rows \in SUBSET Nat
  BY NoneAssumption DEF ScenarioRecords
<1>2. \A k \in StepLines(s) : k \in Nat
  BY <1>1 DEF StepLines, StepRecords
<1>. QED
  BY <1>1, <1>2

LEMMA AddedLine ==
  ASSUME NEW s, s # None, NEW r, r # None, NEW new, r.steps = s.steps \cup {new}
  PROVE  StepLines(r) = StepLines(s) \cup {new.line}
BY DEF StepLines

LEMMA DispatchedFacts ==
  ASSUME TypeOK, NEW l \in Lines, NEW m \in Modes, NEW next_mode \in Modes,
         Dispatched(l, m, next_mode)
  PROVE  /\ multiline_step' = FALSE /\ in_docstring' = FALSE
         /\ mode' = next_mode /\ prev_mode' = m /\ m = NewMode(l) /\ m \in Modes
         /\ m \in StepTypes => scenario # None \/ prev_mode \in HoldsSteps
<1>1. m = NewMode(l)
  BY DEF Dispatched
<1>2. m \in Modes
  BY <1>1, ModeTyped DEF TypeOK
<1>3. m \in StepTypes => scenario # None \/ prev_mode \in HoldsSteps
  BY <1>1 DEF Dispatched, OutsideScenario
<1>4. multiline_step' = FALSE /\ in_docstring' = FALSE
  BY DEF Dispatched, Outside, OfStep, InDocstring, TypeOK
<1>. QED
  BY <1>1, <1>2, <1>3, <1>4 DEF Dispatched

LEMMA SeenFacts ==
  ASSUME TypeOK, CursorInv, NEW l \in Lines, Seen(l)
  PROVE  /\ step_lines' \subseteq step_lines \cup {line_number + 1} /\ step_lines' \subseteq Nat
         /\ NewMode(l) \notin StepTypes => step_lines' = step_lines
         /\ marks' \subseteq Tags
         /\ PrevLine(l) \in Tags \cup {None}
         /\ PrevLine(l) # None => PrevLine(l) \in marks'
         /\ GetTags \subseteq marks
<1>0. line_number + 1 \in Nat
  BY LinesAssumption DEF TypeOK
<1>1. step_lines' \subseteq step_lines \cup {line_number + 1} /\ step_lines' \subseteq Nat
  BY <1>0 DEF Seen, TypeOK
<1>2. NewMode(l) \notin StepTypes => step_lines' = step_lines
  BY StepKeyword DEF Seen
<1>3. marks' \subseteq Tags /\ PrevLine(l) \in Tags \cup {None}
  BY LinesAssumption DEF Seen, PrevLine, TypeOK
<1>4. PrevLine(l) # None => PrevLine(l) \in marks'
  BY DEF Seen, PrevLine
<1>5. GetTags \subseteq marks
  BY DEF CursorInv, GetTags
<1>. QED
  BY <1>1, <1>2, <1>3, <1>4, <1>5

-----------------------------------------------------------------------------
THEOREM ParserInit == Init => IInv
<1>. SUFFICES ASSUME Init PROVE IInv
  OBVIOUS
<1>. USE DEF Init
<1>1. TypeOK
  <2>1. status = "reading" /\ line_number \in 0..MaxLines /\ mode \in Modes /\ prev_mode \in Modes
    BY LinesAssumption DEF Modes
  <2>2. scenarios \in [Names -> ScenarioRecords \cup {None}] /\ marked \in [Names -> SUBSET Tags]
    OBVIOUS
  <2>. QED
    BY <2>1, <2>2 DEF TypeOK
<1>2. CursorInv /\ LinesInv /\ TagsInv
  BY DEF CursorInv, LinesInv, TagsInv, ScenarioKinds, HoldsSteps, StepLines
<1>3. StepsUnderTheirScenario /\ NoStepLost /\ StepsHaveAHome
  BY DEF StepsUnderTheirScenario, NoStepLost, StepsHaveAHome, StepLines
<1>. QED
  BY <1>1, <1>2, <1>3 DEF IInv

\* A step that builds nothing and leaves the mode alone, or ends the reading.
LEMMA NothingBuiltKeepsInv ==
  ASSUME IInv, NothingBuilt, UNCHANGED <<prev_mode, prev_line>>,
         mode' = mode \/ mode' \notin ScenarioKinds,
         status = "reading", status' \in {"reading", "done", "FeatureError"},
         line_number' \in {line_number, line_number + 1}
  PROVE  /\ CursorInv' /\ LinesInv' /\ TagsInv'
         /\ StepsUnderTheirScenario' /\ NoStepLost' /\ StepsHaveAHome'
<1>. USE DEF NothingBuilt, built, history
<1>0. line_number \in Nat
  BY LinesAssumption DEF IInv, TypeOK
<1>1. CursorInv'
  BY DEF IInv, CursorInv
<1>2. LinesInv'
  <2>1. \A k \in StepLines(background) : k <= line_number' /\ StepLines(background)' = StepLines(background)
    BY <1>0 DEF IInv, LinesInv, TypeOK, StepLines, StepRecords, BackgroundRecords
  <2>2. ASSUME NEW n \in Names, scenarios[n] # None
        PROVE  \A k \in StepLines(scenarios[n]) \cup scenarios[n].rows : k <= line_number'
    <3>1. scenarios[n] \in ScenarioRecords
      BY <2>2 DEF IInv, TypeOK
    <3>2. \A k \in StepLines(scenarios[n]) \cup scenarios[n].rows : k \in Nat
      BY <3>1, RecordLines
    <3>3. \A k \in StepLines(scenarios[n]) \cup scenarios[n].rows : k <= line_number
      BY <2>2 DEF IInv, LinesInv
    <3>. QED
      BY <1>0, <3>2, <3>3
  <2>3. scenario_lines' \subseteq 0..line_number'
    BY <1>0 DEF IInv, LinesInv
  <2>. QED
    BY <2>1, <2>2, <2>3 DEF IInv, LinesInv, StepLines
<1>3. TagsInv' /\ StepsUnderTheirScenario' /\ NoStepLost' /\ StepsHaveAHome'
  BY DEF IInv, TagsInv, StepsUnderTheirScenario, NoStepLost, StepsHaveAHome, StepLines
<1>. QED
  BY <1>1, <1>2, <1>3

LEMMA QuietStep ==
  ASSUME IInv, NEW l \in Lines, status = "reading", line_number < MaxLines,
         DocstringLine(l) \/ SkipComment(l) \/ StepContent(l) \/ IgnoredLine(l) \/ Raise(l)
  PROVE  IInv'
<1>0. line_number + 1 \in 0..MaxLines
  BY LinesAssumption DEF IInv, TypeOK
<1>1. CASE DocstringLine(l) \/ SkipComment(l) \/ StepContent(l) \/ IgnoredLine(l)
  <2>1. /\ NothingBuilt /\ UNCHANGED <<mode, prev_mode, prev_line>>
        /\ status' = "reading" /\ line_number' = line_number + 1
    BY <1>1 DEF DocstringLine, SkipComment, StepContent, IgnoredLine, cursor, Advance
  <2>2. TypeOK'
    <3> DEFINE Cursor == /\ step' \in Nat \cup {None} /\ multiline_step' \in BOOLEAN
                         /\ in_docstring' \in BOOLEAN /\ (in_docstring' => step' # None)
    <3>1. Cursor
      <4>1. CASE DocstringLine(l)
        BY <4>1 DEF DocstringLine, InDocstring, IInv, TypeOK
      <4>2. CASE SkipComment(l)
        BY <4>2 DEF SkipComment, cursor, IInv, TypeOK
      <4>3. CASE StepContent(l)
        BY <4>3 DEF StepContent, IInv, TypeOK, OpensDocstring, StepTable, Continues
      <4>4. CASE IgnoredLine(l)
        <5>1. ~in_docstring
          BY <4>4 DEF IgnoredLine, Outside, OfStep, InDocstring, IInv, TypeOK
        <5>. QED
          BY <4>4, <5>1 DEF IgnoredLine, Outside, IInv, TypeOK
      <4>. QED
        BY <1>1, <4>1, <4>2, <4>3, <4>4
    <3>. QED
      BY <1>0, <2>1, <3>1 DEF IInv, TypeOK, NothingBuilt, built, history
  <2>. QED
    BY <2>1, <2>2, NothingBuiltKeepsInv DEF IInv
<1>2. CASE Raise(l)
  <2>1. /\ NothingBuilt /\ UNCHANGED <<prev_mode, prev_line>> /\ mode' = NewMode(l)
        /\ status' = "FeatureError" /\ line_number' = line_number + 1
    BY <1>2 DEF Raise
  <2>2. mode' \notin ScenarioKinds
    BY <1>2, <2>1 DEF Raise, OutsideScenario, SecondFeature, ScenarioKinds, StepTypes
  <2>3. TypeOK'
    <3>1. mode' \in Modes
      BY <2>1, ModeTyped DEF IInv, TypeOK
    <3>2. step' = None /\ multiline_step' \in BOOLEAN /\ in_docstring' = FALSE
      BY <1>2 DEF Raise, Outside, OfStep, InDocstring, IInv, TypeOK
    <3>. QED
      BY <1>0, <2>1, <3>1, <3>2 DEF IInv, TypeOK, NothingBuilt, built, history
  <2>. QED
    BY <2>1, <2>2, <2>3, NothingBuiltKeepsInv DEF IInv
<1>. QED
  BY <1>1, <1>2

-----------------------------------------------------------------------------
(* The lines that are dispatched on their mode. *)

\* What is known of a scenario's record while the parser reads.
LEMMA ScenarioFacts ==
  ASSUME IInv, NEW n \in Names, scenarios[n] # None
  PROVE  /\ scenarios[n] \in ScenarioRecords
         /\ scenarios[n].tags \subseteq marked[n]
         /\ scenarios[n].line \in scenario_lines
         /\ \A k \in StepLines(scenarios[n]) \cup scenarios[n].rows :
              /\ k \in Nat /\ k <= line_number /\ scenarios[n].line < k
              /\ \A s \in scenario_lines : s <= scenarios[n].line \/ k < s
<1>1. scenarios[n] \in ScenarioRecords
  BY DEF IInv, TypeOK
<1>. QED
  BY <1>1, RecordLines DEF IInv, TagsInv, StepsUnderTheirScenario, LinesInv

LEMMA PlainLine ==
  ASSUME IInv, NEW l \in Lines, status = "reading", line_number < MaxLines,
         OtherLine(l) \/ DescriptionLine(l)
  PROVE  IInv'
<1>0. line_number \in Nat /\ line_number + 1 \in 0..MaxLines
  BY LinesAssumption DEF IInv, TypeOK
<1>1. \E m \in {"none", "feature", "tag"} \cup ScenarioKinds :
        /\ Dispatched(l, m, m)
        /\ OtherLine(l) => m \notin ScenarioKinds
        /\ DescriptionLine(l) => m \in ScenarioKinds
  <2>1. CASE OtherLine(l)
    <3>1. PICK m \in {"none", "feature", "tag"} : Dispatched(l, m, m)
      BY <2>1 DEF OtherLine
    <3>2. DescriptionLine(l) => m \in ScenarioKinds
      BY <3>1 DEF DescriptionLine, Dispatched
    <3>. QED
      BY <3>1, <3>2 DEF ScenarioKinds
  <2>2. CASE DescriptionLine(l)
    <3>1. PICK m \in ScenarioKinds : Dispatched(l, m, m)
      BY <2>2 DEF DescriptionLine
    <3>2. ~OtherLine(l)
      BY <3>1 DEF OtherLine, Dispatched, ScenarioKinds
    <3>. QED
      BY <3>1, <3>2
  <2>. QED
    BY <2>1, <2>2
<1>2. PICK m \in {"none", "feature", "tag"} \cup ScenarioKinds :
        /\ Dispatched(l, m, m)
        /\ OtherLine(l) => m \notin ScenarioKinds
        /\ DescriptionLine(l) => m \in ScenarioKinds
  BY <1>1
<1>3. /\ multiline_step' = FALSE /\ in_docstring' = FALSE
      /\ mode' = m /\ prev_mode' = m /\ m = NewMode(l) /\ m \in Modes
  <2>1. TypeOK /\ Dispatched(l, m, m) /\ m \in Modes
    BY <1>2 DEF IInv, Modes
  <2>. QED
    BY <2>1, DispatchedFacts
<1>4. m \notin StepTypes /\ m \notin HoldsSteps
  BY <1>2 DEF StepTypes, HoldsSteps, ScenarioKinds
<1>5. /\ status' = "reading" /\ line_number' = line_number + 1 /\ step' = None /\ Seen(l)
      /\ UNCHANGED <<scenario, background, scenarios, scenario_lines, replaced, marked>>
  BY DEF OtherLine, DescriptionLine, Advance, built
<1>6. /\ step_lines' = step_lines /\ marks' \subseteq Tags /\ GetTags \subseteq marks
      /\ PrevLine(l) \in Tags \cup {None} /\ (PrevLine(l) # None => PrevLine(l) \in marks')
  BY <1>3, <1>4, <1>5, SeenFacts DEF IInv
<1>7. /\ prev_line' \in Tags \cup {None} /\ (prev_line' # None => prev_line' \in marks')
      /\ m \in ScenarioKinds => scenario # None /\ prev_line' = None
  <2>1. CASE OtherLine(l)
    BY <2>1, <1>2, <1>6 DEF OtherLine
  <2>2. CASE DescriptionLine(l)
    <3>1. scenario # None /\ ~HasKeyword(l) /\ prev_line' = prev_line /\ m \in ScenarioKinds
      BY <2>2, <1>2 DEF DescriptionLine
    <3>2. mode \in ScenarioKinds
      BY <3>1, <1>3, ScenarioKeyword, LinesAssumption DEF HasKeyword, TextKinds, ScenarioKinds
    <3>. QED
      BY <3>1, <3>2 DEF IInv, CursorInv
  <2>. QED
    BY <2>1, <2>2
<1>8. feature_tags' \subseteq feature_marked' /\ feature_tags' \subseteq Tags /\ feature_marked' \subseteq Tags
  <2>1. feature_tags \subseteq feature_marked /\ feature_tags \subseteq Tags /\ feature_marked \subseteq Tags /\ marks \subseteq Tags
    BY DEF IInv, TagsInv, TypeOK
  <2>. QED
    BY <2>1, <1>6, GetTagsTyped DEF OtherLine, DescriptionLine, built, IInv
<1>9. TypeOK'
  BY <1>0, <1>3, <1>5, <1>6, <1>7, <1>8 DEF IInv, TypeOK
<1>10. CursorInv'
  BY <1>3, <1>4, <1>5, <1>7 DEF IInv, CursorInv
<1>11. LinesInv'
  <2>1. \A k \in StepLines(background) : k <= line_number'
    BY <1>0, <1>5 DEF IInv, LinesInv, TypeOK, StepLines, StepRecords, BackgroundRecords
  <2>2. \A n \in Names : scenarios[n] # None =>
          \A k \in StepLines(scenarios[n]) \cup scenarios[n].rows : k <= line_number'
    BY <1>0, <1>5, ScenarioFacts
  <2>3. scenario_lines' \subseteq 0..line_number'
    BY <1>0, <1>5 DEF IInv, LinesInv
  <2>. QED
    BY <1>5, <2>1, <2>2, <2>3 DEF IInv, LinesInv, StepLines
<1>12. TagsInv' /\ StepsUnderTheirScenario' /\ NoStepLost' /\ StepsHaveAHome'
  BY <1>5, <1>6, <1>8
  DEF IInv, TagsInv, StepsUnderTheirScenario, NoStepLost, StepsHaveAHome, StepLines
<1>. QED
  BY <1>9, <1>10, <1>11, <1>12 DEF IInv

LEMMA StartScenarioStep ==
  ASSUME IInv, NEW l \in Lines, status = "reading", line_number < MaxLines, StartScenario(l)
  PROVE  IInv'
<1>0. line_number \in Nat /\ line_number + 1 \in 0..MaxLines
  BY LinesAssumption DEF IInv, TypeOK
<1>1. PICK m \in ScenarioKinds : Dispatched(l, m, m)
  BY DEF StartScenario
<1>2. /\ multiline_step' = FALSE /\ in_docstring' = FALSE
      /\ mode' = m /\ prev_mode' = m /\ m = NewMode(l) /\ m \in Modes
  <2>1. TypeOK /\ m \in Modes
    BY DEF IInv, Modes
  <2>. QED
    BY <1>1, <2>1, DispatchedFacts
<1>3. m \notin StepTypes /\ m \notin HoldsSteps
  BY DEF StepTypes, HoldsSteps, ScenarioKinds
<1>4. l.kind \in ScenarioKinds /\ l.text \in Names
  <2>1. ~(scenario # None /\ ~HasKeyword(l))
    BY DEF StartScenario
  <2>2. l.kind \in ScenarioKinds
    BY <1>2, <2>1, ScenarioKeyword DEF IInv, CursorInv
  <2>. QED
    BY <2>2, LinesAssumption
<1> DEFINE R == [line |-> line_number + 1, tags |-> GetTags, steps |-> {}, rows |-> {}]
<1>5. /\ status' = "reading" /\ line_number' = line_number + 1 /\ step' = None /\ Seen(l)
      /\ scenario' = l.text /\ scenarios' = [scenarios EXCEPT ![l.text] = R]
      /\ replaced' = replaced \cup StepLines(scenarios[l.text])
      /\ marked' = [marked EXCEPT ![l.text] = marks]
      /\ scenario_lines' = scenario_lines \cup {line_number + 1}
      /\ prev_line' = PrevLine(l) /\ UNCHANGED <<background, feature_tags, feature_marked>>
  BY <1>4 DEF StartScenario, Advance
<1>6. /\ step_lines' = step_lines /\ marks' \subseteq Tags /\ GetTags \subseteq marks
      /\ prev_line' = None
  <2>1. PrevLine(l) = None
    BY <1>4 DEF PrevLine, ScenarioKinds
  <2>. QED
    BY <1>2, <1>3, <1>5, <2>1, SeenFacts DEF IInv
<1>7. R \in ScenarioRecords /\ R # None /\ StepLines(R) = {} /\ R.rows = {} /\ R.line = line_number + 1
      /\ R.tags = GetTags
  <2>1. R \in ScenarioRecords
    BY <1>0, GetTagsTyped DEF IInv, ScenarioRecords
  <2>. QED
    BY <2>1, RecordLines DEF StepLines
<1>8. /\ scenarios' \in [Names -> ScenarioRecords \cup {None}]
      /\ scenarios'[l.text] = R /\ \A n \in Names : n # l.text => scenarios'[n] = scenarios[n]
      /\ marked' \in [Names -> SUBSET Tags]
      /\ marked'[l.text] = marks /\ \A n \in Names : n # l.text => marked'[n] = marked[n]
  BY <1>4, <1>5, <1>7 DEF IInv, TypeOK
<1>9. \A k \in StepLines(scenarios[l.text]) : k \in Nat
  <2>1. scenarios[l.text] \in ScenarioRecords \/ scenarios[l.text] = None
    BY <1>4 DEF IInv, TypeOK
  <2>. QED
    BY <2>1, RecordLines DEF StepLines
<1>10. TypeOK'
  <2>1. /\ status' \in {"reading", "done", "FeatureError", "AttributeError"}
        /\ line_number' \in 0..MaxLines /\ mode' \in Modes /\ prev_mode' \in Modes
        /\ step' \in Nat \cup {None}
    <3>1. status' = "reading" /\ line_number' = line_number + 1 /\ step' = None
      BY <1>5
    <3>2. mode' \in Modes /\ prev_mode' \in Modes
      BY <1>2
    <3>. QED
      BY <1>0, <3>1, <3>2
  <2>2. /\ prev_line' \in Tags \cup {None} /\ scenario' \in Names \cup {None}
        /\ marks' \subseteq Tags
    BY <1>4, <1>5, <1>6
  <2>3. scenario_lines' \subseteq Nat /\ replaced' \subseteq Nat
    <3>1. /\ replaced' = replaced \cup StepLines(scenarios[l.text])
          /\ scenario_lines' = scenario_lines \cup {line_number + 1}
      BY <1>5
    <3>2. replaced \subseteq Nat /\ scenario_lines \subseteq Nat
      BY DEF IInv, TypeOK
    <3>3. StepLines(scenarios[l.text]) \subseteq Nat
      BY <1>9
    <3>4. line_number + 1 \in Nat
      BY <1>0
    <3>. QED
      BY <3>1, <3>2, <3>3, <3>4, Zenon
  <2>. QED
    BY <1>2, <1>5, <1>6, <1>8, <2>1, <2>2, <2>3 DEF IInv, TypeOK
<1>11. scenario' # None
  BY <1>4, <1>5, LinesAssumption
<1>12. CursorInv'
  BY <1>2, <1>3, <1>5, <1>6, <1>11 DEF CursorInv
<1>13. \A k \in StepLines(background) : k \in Nat /\ k <= line_number
  BY DEF IInv, LinesInv, TypeOK, StepLines, StepRecords, BackgroundRecords
<1>14. LinesInv'
  <2>1. \A k \in StepLines(background') : k <= line_number'
    BY <1>0, <1>5, <1>13
  <2>2. \A n \in Names : scenarios'[n] # None =>
          \A k \in StepLines(scenarios'[n]) \cup scenarios'[n].rows : k <= line_number'
    <3>1. ASSUME NEW n \in Names, scenarios'[n] # None,
                 NEW k \in StepLines(scenarios'[n]) \cup scenarios'[n].rows
          PROVE  k <= line_number'
      <4>1. n # l.text
        BY <3>1, <1>7, <1>8
      <4>. QED
        BY <1>0, <1>5, <1>8, <3>1, <4>1, ScenarioFacts
    <3>. QED
      BY <3>1
  <2>3. scenario_lines' \subseteq 0..line_number'
    <3>1. /\ scenario_lines' = scenario_lines \cup {line_number + 1}
          /\ line_number' = line_number + 1
      BY <1>5
    <3>2. \A s \in scenario_lines : s \in 0..line_number
      BY DEF IInv, LinesInv
    <3>. QED
      BY <1>0, <3>1, <3>2
  <2>4. \A s \in scenario_lines' : s <= R.line
    <3>1. R.line = line_number + 1 /\ line_number' = line_number + 1
      BY <1>5, <1>7
    <3>2. ASSUME NEW s \in scenario_lines' PROVE s \in 0..(line_number + 1)
      BY <2>3, <3>1
    <3>. QED
      BY <1>0, <3>1, <3>2
  <2>. QED
    BY <1>4, <1>5, <1>7, <1>8, <2>1, <2>2, <2>3, <2>4 DEF LinesInv, StepLines
<1>15. TagsInv'
  BY <1>4, <1>5, <1>6, <1>7, <1>8 DEF IInv, TagsInv
<1>16. StepsUnderTheirScenario'
  <2>1. \A k \in StepLines(background'), s \in scenario_lines' : k < s
    BY <1>0, <1>5, <1>13 DEF IInv, StepsUnderTheirScenario
  <2>2. ASSUME NEW n \in Names, scenarios'[n] # None
        PROVE  /\ scenarios'[n].line \in scenario_lines'
               /\ \A k \in StepLines(scenarios'[n]) \cup scenarios'[n].rows :
                    /\ scenarios'[n].line < k
                    /\ \A s \in scenario_lines' : s <= scenarios'[n].line \/ k < s
    <3>1. CASE n = l.text
      BY <3>1, <1>5, <1>7, <1>8
    <3>2. CASE n # l.text
      BY <3>2, <2>2, <1>0, <1>5, <1>8, ScenarioFacts
    <3>. QED
      BY <3>1, <3>2
  <2>. QED
    BY <2>1, <2>2 DEF StepsUnderTheirScenario, StepLines
<1>17. NoStepLost'
  <2>1. ASSUME NEW k \in step_lines
        PROVE  k \in StepLines(background) \cup replaced' \cup UNION {StepLines(scenarios'[n]) : n \in Names}
    <3>1. CASE k \in StepLines(background) \cup replaced
      BY <3>1, <1>5
    <3>2. CASE \E n \in Names : k \in StepLines(scenarios[n])
      <4>1. PICK n \in Names : k \in StepLines(scenarios[n])
        BY <3>2
      <4>2. CASE n = l.text
        BY <4>1, <4>2, <1>5
      <4>3. CASE n # l.text
        <5>1. k \in StepLines(scenarios'[n])
          BY <4>1, <4>3, <1>8
        <5>. QED
          BY <5>1
      <4>. QED
        BY <4>2, <4>3
    <3>. QED
      BY <3>1, <3>2 DEF IInv, NoStepLost
  <2>. QED
    BY <1>5, <1>6, <2>1 DEF NoStepLost, StepLines
<1>18. StepsHaveAHome'
  BY <1>5 DEF StepsHaveAHome
<1>. QED
  BY <1>10, <1>12, <1>14, <1>15, <1>16, <1>17, <1>18 DEF IInv

LEMMA StartBackgroundStep ==
  ASSUME IInv, NEW l \in Lines, status = "reading", line_number < MaxLines, StartBackground(l)
  PROVE  IInv'
<1>0. line_number \in Nat /\ line_number + 1 \in 0..MaxLines
  BY LinesAssumption DEF IInv, TypeOK
<1>1. Dispatched(l, "background", "background")
  BY DEF StartBackground
<1>2. /\ multiline_step' = FALSE /\ in_docstring' = FALSE
      /\ mode' = "background" /\ prev_mode' = "background" /\ NewMode(l) = "background"
  <2>1. TypeOK /\ "background" \in Modes
    BY DEF IInv, Modes
  <2>. QED
    BY <1>1, <2>1, DispatchedFacts
<1>3. /\ status' = "reading" /\ line_number' = line_number + 1 /\ step' = None /\ Seen(l)
      /\ background' = [steps |-> {}] /\ replaced' = replaced \cup StepLines(background)
      /\ prev_line' = PrevLine(l)
      /\ UNCHANGED <<scenario, scenarios, feature_tags, scenario_lines, marked, feature_marked>>
  BY DEF StartBackground, Advance
<1>4. /\ step_lines' = step_lines /\ marks' \subseteq Tags
      /\ prev_line' \in Tags \cup {None} /\ (prev_line' # None => prev_line' \in marks')
  <2>1. NewMode(l) \notin StepTypes
    BY <1>2 DEF StepTypes
  <2>. QED
    BY <1>3, <2>1, SeenFacts DEF IInv
<1>5. /\ background' \in BackgroundRecords /\ background' # None
      /\ StepLines(background') = {}
  <2>1. background' \in BackgroundRecords /\ background'.steps = {}
    BY <1>3 DEF BackgroundRecords
  <2>. QED
    BY <2>1, NoneAssumption DEF StepLines
<1>6. \A k \in StepLines(background) : k \in Nat
  BY DEF IInv, TypeOK, StepLines, StepRecords, BackgroundRecords
<1>7. TypeOK'
  BY <1>0, <1>2, <1>3, <1>4, <1>5, <1>6 DEF IInv, TypeOK, Modes
<1>8. CursorInv'
  BY <1>2, <1>3, <1>4, <1>5 DEF IInv, CursorInv, ScenarioKinds
<1>9. LinesInv'
  <2>1. ASSUME NEW n \in Names, scenarios[n] # None,
               NEW k \in StepLines(scenarios[n]) \cup scenarios[n].rows
        PROVE  k <= line_number'
    <3>1. k \in Nat /\ k <= line_number
      BY <2>1, ScenarioFacts
    <3>. QED
      BY <1>0, <1>3, <3>1
  <2>2. scenario_lines' \subseteq 0..line_number'
    BY <1>0, <1>3 DEF IInv, LinesInv
  <2>. QED
    BY <1>3, <1>5, <2>1, <2>2 DEF IInv, LinesInv, StepLines
<1>10. NoStepLost'
  <2>1. \A k \in step_lines : k \in replaced' \cup UNION {StepLines(scenarios[n]) : n \in Names}
    BY <1>3 DEF IInv, NoStepLost
  <2>. QED
    BY <1>3, <1>4, <2>1 DEF NoStepLost, StepLines
<1>11. TagsInv' /\ StepsUnderTheirScenario' /\ StepsHaveAHome'
  <2>1. TagsInv' /\ StepsHaveAHome'
    BY <1>3 DEF IInv, TagsInv, StepsHaveAHome
  <2>2. StepsUnderTheirScenario'
    BY <1>3, <1>5 DEF IInv, StepsUnderTheirScenario, StepLines
  <2>. QED
    BY <2>1, <2>2
<1>. QED
  BY <1>7, <1>8, <1>9, <1>10, <1>11 DEF IInv

\* The scenario that is being read gets this line, as a step or as a row.
LEMMA GrowScenario ==
  ASSUME IInv, status = "reading", scenario # None, NEW R \in ScenarioRecords,
         line_number' = line_number + 1, status' = "reading",
         scenarios' = [scenarios EXCEPT ![scenario] = R],
         R.line = scenarios[scenario].line, R.tags = scenarios[scenario].tags,
         StepLines(scenarios[scenario]) \subseteq StepLines(R),
         StepLines(R) \cup R.rows
           \subseteq StepLines(scenarios[scenario]) \cup scenarios[scenario].rows \cup {line_number + 1},
         step_lines' \subseteq step_lines \cup {line_number + 1},
         step_lines' = step_lines \/ line_number + 1 \in StepLines(R),
         UNCHANGED <<scenario, background, feature_tags, scenario_lines, replaced,
                     marked, feature_marked>>
  PROVE  LinesInv' /\ TagsInv' /\ StepsUnderTheirScenario' /\ NoStepLost' /\ StepsHaveAHome'
<1>0. line_number \in Nat /\ scenario \in Names
  BY LinesAssumption DEF IInv, TypeOK
<1>1. scenarios[scenario] # None /\ \A s \in scenario_lines : s <= scenarios[scenario].line
  BY DEF IInv, LinesInv
<1>2. /\ scenarios'[scenario] = R
      /\ \A n \in Names : n # scenario => scenarios'[n] = scenarios[n]
  BY <1>0 DEF IInv, TypeOK
<1>3. R # None
  BY RecordLines
<1>4. scenario_lines \subseteq 0..line_number
  BY DEF IInv, LinesInv
<1>5. ASSUME NEW k \in StepLines(R) \cup R.rows
      PROVE  /\ k \in Nat /\ k <= line_number + 1
             /\ R.line < k
             /\ \A s \in scenario_lines : s <= R.line \/ k < s
  <2>1. CASE k \in StepLines(scenarios[scenario]) \cup scenarios[scenario].rows
    <3>1. /\ k \in Nat /\ k <= line_number /\ scenarios[scenario].line < k
          /\ \A s \in scenario_lines : s <= scenarios[scenario].line \/ k < s
      BY <2>1, <1>0, <1>1, ScenarioFacts
    <3>. QED
      BY <3>1, <1>0
  <2>2. CASE k = line_number + 1
    <3>1. R.line \in scenario_lines
      BY <1>0, <1>1, ScenarioFacts
    <3>2. R.line \in 0..line_number /\ \A s \in scenario_lines : s <= R.line
      BY <3>1, <1>1, <1>4
    <3>. QED
      BY <2>2, <3>2, <1>0
  <2>. QED
    BY <2>1, <2>2
<1>6. ASSUME NEW n \in Names, scenarios'[n] # None
      PROVE  /\ scenarios'[n].line \in scenario_lines
             /\ scenarios'[n].tags \subseteq marked[n]
             /\ \A k \in StepLines(scenarios'[n]) \cup scenarios'[n].rows :
                  /\ k <= line_number + 1
                  /\ scenarios'[n].line < k
                  /\ \A s \in scenario_lines : s <= scenarios'[n].line \/ k < s
  <2>1. CASE n = scenario
    <3>1. R.line \in scenario_lines /\ R.tags \subseteq marked[n]
      BY <2>1, <1>0, <1>1, ScenarioFacts
    <3>. QED
      BY <2>1, <3>1, <1>2, <1>5
  <2>2. CASE n # scenario
    <3>1. scenarios'[n] = scenarios[n] /\ scenarios[n] # None
      BY <2>2, <1>2, <1>6
    <3>2. scenarios[n].line \in scenario_lines /\ scenarios[n].tags \subseteq marked[n]
      BY <3>1, ScenarioFacts
    <3>3. ASSUME NEW k \in StepLines(scenarios[n]) \cup scenarios[n].rows
          PROVE  /\ k <= line_number + 1 /\ scenarios[n].line < k
                 /\ \A s \in scenario_lines : s <= scenarios[n].line \/ k < s
      <4>1. /\ k \in Nat /\ k <= line_number /\ scenarios[n].line < k
            /\ \A s \in scenario_lines : s <= scenarios[n].line \/ k < s
        BY <3>1, ScenarioFacts
      <4>. QED
        BY <4>1, <1>0
    <3>. QED
      BY <3>1, <3>2, <3>3
  <2>. QED
    BY <2>1, <2>2
<1>7. LinesInv'
  <2>1. \A k \in StepLines(background) : k <= line_number'
    BY <1>0 DEF IInv, LinesInv, TypeOK, StepLines, StepRecords, BackgroundRecords
  <2>2. scenario_lines' \subseteq 0..line_number'
    BY <1>0, <1>4
  <2>3. scenario' # None => /\ scenarios'[scenario'] # None
                            /\ \A s \in scenario_lines' : s <= scenarios'[scenario'].line
    BY <1>1, <1>2, <1>3
  <2>4. \A n \in Names : scenarios'[n] # None =>
          \A k \in StepLines(scenarios'[n]) \cup scenarios'[n].rows : k <= line_number'
    BY <1>6
  <2>. QED
    BY <2>1, <2>2, <2>3, <2>4 DEF LinesInv, StepLines
<1>8. TagsInv'
  <2>1. feature_tags' \subseteq feature_marked'
    BY DEF IInv, TagsInv
  <2>. QED
    BY <1>6, <2>1 DEF TagsInv
<1>9. StepsUnderTheirScenario'
  <2>1. \A k \in StepLines(background'), s \in scenario_lines' : k < s
    BY DEF IInv, StepsUnderTheirScenario
  <2>. QED
    BY <1>6, <2>1 DEF StepsUnderTheirScenario, StepLines
<1>10. NoStepLost'
  <2>1. ASSUME NEW k \in step_lines'
        PROVE  k \in StepLines(background) \cup replaced \cup UNION {StepLines(scenarios'[n]) : n \in Names}
    <3>1. CASE k \in StepLines(R)
      <4>1. k \in StepLines(scenarios'[scenario])
        BY <3>1, <1>2
      <4>. QED
        BY <4>1, <1>0
    <3>2. CASE k \notin StepLines(R)
      <4>1. k \in step_lines
        BY <3>2, <2>1
      <4>2. \/ k \in StepLines(background) \cup replaced
            \/ \E n \in Names : k \in StepLines(scenarios[n])
        BY <4>1 DEF IInv, NoStepLost
      <4>3. ASSUME NEW n \in Names, k \in StepLines(scenarios[n])
            PROVE  \E i \in Names : k \in StepLines(scenarios'[i])
        <5>1. n # scenario
          BY <4>3, <3>2
        <5>. QED
          BY <5>1, <4>3, <1>2
      <4>. QED
        BY <4>2, <4>3
    <3>. QED
      BY <3>1, <3>2
  <2>. QED
    BY <2>1 DEF NoStepLost, StepLines
<1>11. StepsHaveAHome'
  BY DEF StepsHaveAHome
<1>. QED
  BY <1>7, <1>8, <1>9, <1>10, <1>11

LEMMA ExamplesStep ==
  ASSUME IInv, NEW l \in Lines, status = "reading", line_number < MaxLines, ExamplesLine(l)
  PROVE  IInv'
<1>0. line_number \in Nat /\ line_number + 1 \in 0..MaxLines
  BY LinesAssumption DEF IInv, TypeOK
<1>1. PICK m \in {"examples", "headers", "example"} :
        /\ Dispatched(l, m, IF m = "examples" THEN "headers" ELSE "example")
        /\ step' = None
        /\ IF scenario = None
           THEN /\ status' = "AttributeError" /\ line_number' = line_number + 1
                /\ UNCHANGED <<prev_line, built, history>>
           ELSE /\ scenarios' = IF m # "example" THEN scenarios
                                ELSE [scenarios EXCEPT ![scenario].rows = @ \cup {line_number + 1}]
                /\ prev_line' = PrevLine(l)
                /\ Advance /\ Seen(l)
                /\ UNCHANGED <<scenario, background, feature_tags, scenario_lines, replaced,
                               marked, feature_marked>>
  BY DEF ExamplesLine
<1>2. /\ multiline_step' = FALSE /\ in_docstring' = FALSE /\ prev_mode' = m /\ m = NewMode(l)
      /\ mode' \in {"headers", "example"} /\ mode' \in Modes /\ m \in Modes
  <2>1. TypeOK /\ m \in Modes /\ "headers" \in Modes /\ "example" \in Modes
    BY DEF IInv, Modes
  <2>. QED
    BY <1>1, <2>1, DispatchedFacts
<1>3. m \notin StepTypes /\ m \notin HoldsSteps /\ mode' \notin ScenarioKinds
  BY <1>2 DEF StepTypes, HoldsSteps, ScenarioKinds
<1>4. CASE scenario = None
  <2>1. /\ status' = "AttributeError" /\ line_number' = line_number + 1 /\ step' = None
        /\ UNCHANGED <<prev_line, built, history>>
    BY <1>1, <1>4
  <2>2. TypeOK'
    BY <1>0, <1>2, <2>1 DEF IInv, TypeOK, built, history
  <2>3. CursorInv' /\ StepsHaveAHome' /\ NoStepLost' /\ TagsInv' /\ StepsUnderTheirScenario'
    BY <1>2, <1>3, <2>1
    DEF IInv, CursorInv, StepsHaveAHome, NoStepLost, TagsInv, StepsUnderTheirScenario,
        built, history, StepLines
  <2>4. LinesInv'
    <3>1. UNCHANGED <<scenario_lines, background, scenarios, scenario>>
      BY <2>1 DEF built, history
    <3>2. scenario_lines' \subseteq 0..line_number'
      BY <1>0, <2>1, <3>1 DEF IInv, LinesInv
    <3>3. \A k \in StepLines(background) : k <= line_number'
      BY <1>0, <2>1 DEF IInv, LinesInv, TypeOK, StepLines, StepRecords, BackgroundRecords
    <3>4. ASSUME NEW n \in Names, scenarios[n] # None,
                 NEW k \in StepLines(scenarios[n]) \cup scenarios[n].rows
          PROVE  k <= line_number'
      <4>1. k \in Nat /\ k <= line_number
        BY <3>4, ScenarioFacts
      <4>. QED
        BY <1>0, <2>1, <4>1
    <3>. QED
      BY <1>4, <3>1, <3>2, <3>3, <3>4 DEF LinesInv, StepLines
  <2>. QED
    BY <2>2, <2>3, <2>4 DEF IInv
<1>5. CASE scenario # None
  <2>1. /\ status' = "reading" /\ line_number' = line_number + 1 /\ step' = None /\ Seen(l)
        /\ prev_line' = PrevLine(l)
        /\ scenarios' = IF m # "example" THEN scenarios
                        ELSE [scenarios EXCEPT ![scenario].rows = @ \cup {line_number + 1}]
        /\ UNCHANGED <<scenario, background, feature_tags, scenario_lines, replaced,
                       marked, feature_marked>>
    BY <1>1, <1>5 DEF Advance
  <2>2. /\ step_lines' = step_lines /\ marks' \subseteq Tags
        /\ prev_line' \in Tags \cup {None} /\ (prev_line' # None => prev_line' \in marks')
    BY <1>2, <1>3, <2>1, SeenFacts DEF IInv
  <2>3. scenario \in Names /\ scenarios[scenario] \in ScenarioRecords
    BY <1>5, ScenarioFacts DEF IInv, TypeOK, LinesInv
  <2> DEFINE old == scenarios[scenario]
             R == IF m # "example" THEN old ELSE [old EXCEPT !.rows = @ \cup {line_number + 1}]
  <2>4. /\ R \in ScenarioRecords /\ R.line = old.line /\ R.tags = old.tags /\ R.steps = old.steps
        /\ R.rows \subseteq old.rows \cup {line_number + 1}
    BY <1>0, <2>3 DEF ScenarioRecords
  <2>5. scenarios' = [scenarios EXCEPT ![scenario] = R]
    <3>1. CASE m = "example"
      BY <3>1, <2>1
    <3>2. CASE m # "example"
      <4>1. scenarios' = scenarios /\ R = scenarios[scenario]
        BY <3>2, <2>1
      <4>. QED
        BY <4>1, <2>3 DEF IInv, TypeOK
    <3>. QED
      BY <3>1, <3>2
  <2> HIDE DEF R
  <2>6. StepLines(R) = StepLines(old)
    <3>1. R # None /\ old # None
      BY <2>3, <2>4, RecordLines
    <3>. QED
      BY <2>4, <3>1 DEF StepLines
  <2>7. LinesInv' /\ TagsInv' /\ StepsUnderTheirScenario' /\ NoStepLost' /\ StepsHaveAHome'
    BY <1>5, <2>1, <2>2, <2>4, <2>5, <2>6, GrowScenario
  <2>8. scenarios' \in [Names -> ScenarioRecords \cup {None}]
    BY <2>3, <2>4, <2>5 DEF IInv, TypeOK
  <2>9. TypeOK'
    BY <1>0, <1>2, <2>1, <2>2, <2>8 DEF IInv, TypeOK
  <2>10. CursorInv'
    BY <1>2, <1>3, <1>5, <2>1, <2>2 DEF CursorInv
  <2>. QED
    BY <2>7, <2>9, <2>10 DEF IInv
<1>. QED
  BY <1>4, <1>5

LEMMA AddStepStep ==
  ASSUME IInv, NEW l \in Lines, status = "reading", line_number < MaxLines, AddStep(l)
  PROVE  IInv'
<1>0. line_number \in Nat /\ line_number + 1 \in 0..MaxLines /\ l.indent \in Nat
  BY LinesAssumption DEF IInv, TypeOK
<1> DEFINE New(m) == [line |-> line_number + 1, type |-> m]
<1>1. PICK m \in StepTypes :
        /\ Dispatched(l, m, m)
        /\ step' = l.indent
        /\ IF background = None /\ scenario = None
           THEN /\ status' = "AttributeError" /\ line_number' = line_number + 1
                /\ UNCHANGED <<prev_line, built, history>>
           ELSE /\ IF scenario = None
                   THEN background' = [background EXCEPT !.steps = @ \cup {New(m)}] /\ UNCHANGED scenarios
                   ELSE /\ scenarios' = [scenarios EXCEPT ![scenario].steps = @ \cup {New(m)}]
                        /\ UNCHANGED background
                /\ prev_line' = PrevLine(l)
                /\ Advance /\ Seen(l)
                /\ UNCHANGED <<scenario, feature_tags, scenario_lines, replaced,
                               marked, feature_marked>>
  BY DEF AddStep
<1>2. /\ multiline_step' = FALSE /\ in_docstring' = FALSE
      /\ mode' = m /\ prev_mode' = m /\ m \in Modes
      /\ scenario # None \/ prev_mode \in HoldsSteps
  <2>1. TypeOK /\ m \in Modes
    BY DEF IInv, Modes
  <2>. QED
    BY <1>1, <2>1, DispatchedFacts
\* The place where a step's home might be missing: it is not.
<1>3. scenario # None \/ background # None
  BY <1>2 DEF IInv, CursorInv
<1>4. /\ status' = "reading" /\ line_number' = line_number + 1 /\ Seen(l)
      /\ prev_line' = PrevLine(l)
      /\ UNCHANGED <<scenario, feature_tags, scenario_lines, replaced, marked, feature_marked>>
  BY <1>1, <1>3 DEF Advance
<1>5. /\ step_lines' \subseteq step_lines \cup {line_number + 1} /\ step_lines' \subseteq Nat
      /\ marks' \subseteq Tags
      /\ prev_line' \in Tags \cup {None} /\ (prev_line' # None => prev_line' \in marks')
  BY <1>4, SeenFacts DEF IInv
<1>6. m \notin ScenarioKinds
  BY DEF StepTypes, ScenarioKinds
<1>7. New(m) \in StepRecords /\ New(m).line = line_number + 1
  BY <1>0 DEF StepRecords
<1> HIDE DEF New
<1>8. CASE scenario # None
  <2>1. /\ scenarios' = [scenarios EXCEPT ![scenario].steps = @ \cup {New(m)}]
        /\ UNCHANGED background
    BY <1>1, <1>8
  <2>2. scenario \in Names /\ scenarios[scenario] \in ScenarioRecords
    BY <1>8, ScenarioFacts DEF IInv, TypeOK, LinesInv
  <2> DEFINE old == scenarios[scenario]
             R == [old EXCEPT !.steps = @ \cup {New(m)}]
  <2>3. R \in ScenarioRecords /\ R.line = old.line /\ R.tags = old.tags /\ R.rows = old.rows
        /\ R.steps = old.steps \cup {New(m)}
    BY <1>7, <2>2 DEF ScenarioRecords
  <2>4. scenarios' = [scenarios EXCEPT ![scenario] = R]
    BY <2>1
  <2> HIDE DEF R
  <2>5. StepLines(R) = StepLines(old) \cup {line_number + 1}
    <3>1. R # None /\ old # None /\ old.steps \in SUBSET StepRecords
      BY <2>2, <2>3, RecordLines
    <3>. QED
      BY <1>7, <2>3, <3>1, AddedLine
  <2>6. LinesInv' /\ TagsInv' /\ StepsUnderTheirScenario' /\ NoStepLost' /\ StepsHaveAHome'
    BY <1>4, <1>5, <1>8, <2>1, <2>3, <2>4, <2>5, GrowScenario
  <2>7. scenarios' \in [Names -> ScenarioRecords \cup {None}]
    BY <2>2, <2>3, <2>4 DEF IInv, TypeOK
  <2>8. TypeOK'
    BY <1>0, <1>1, <1>2, <1>4, <1>5, <2>1, <2>7 DEF IInv, TypeOK
  <2>9. CursorInv'
    BY <1>2, <1>4, <1>5, <1>6, <1>8 DEF CursorInv
  <2>. QED
    BY <2>6, <2>8, <2>9 DEF IInv
<1>9. CASE scenario = None
  <2>1. background' = [background EXCEPT !.steps = @ \cup {New(m)}] /\ UNCHANGED scenarios
    BY <1>1, <1>3, <1>9
  <2>2. background # None /\ background \in BackgroundRecords
    BY <1>3, <1>9 DEF IInv, TypeOK
  <2>3. /\ background' \in BackgroundRecords /\ background' # None
        /\ StepLines(background') = StepLines(background) \cup {line_number + 1}
    <3>1. /\ background' \in BackgroundRecords
          /\ background'.steps = background.steps \cup {New(m)}
      BY <1>7, <2>1, <2>2 DEF BackgroundRecords
    <3>2. background' # None
      BY <3>1, NoneAssumption
    <3>. QED
      BY <1>7, <2>2, <3>1, <3>2, AddedLine
  <2>4. scenario_lines = {}
    BY <1>9 DEF IInv, CursorInv
  <2>5. TypeOK'
    BY <1>0, <1>1, <1>2, <1>4, <1>5, <2>1, <2>3 DEF IInv, TypeOK
  <2>6. CursorInv'
    BY <1>2, <1>4, <1>5, <1>6, <1>9, <2>3, <2>4 DEF CursorInv
  <2>7. LinesInv'
    <3>1. \A k \in StepLines(background) : k <= line_number /\ k \in Nat
      BY <2>2 DEF IInv, LinesInv, StepLines, StepRecords, BackgroundRecords
    <3>2. \A k \in StepLines(background') : k <= line_number'
      BY <1>0, <1>4, <2>3, <3>1
    <3>3. ASSUME NEW n \in Names, scenarios[n] # None,
                 NEW k \in StepLines(scenarios[n]) \cup scenarios[n].rows
          PROVE  k <= line_number'
      <4>1. k \in Nat /\ k <= line_number
        BY <3>3, ScenarioFacts
      <4>. QED
        BY <1>0, <1>4, <4>1
    <3>. QED
      BY <1>4, <1>9, <2>1, <2>4, <3>2, <3>3 DEF LinesInv, StepLines
  <2>8. TagsInv' /\ StepsHaveAHome'
    BY <1>4, <2>1 DEF IInv, TagsInv, StepsHaveAHome
  <2>9. StepsUnderTheirScenario'
    BY <1>4, <2>1, <2>4 DEF IInv, StepsUnderTheirScenario, StepLines
  <2>10. NoStepLost'
    <3>1. \A k \in step_lines' :
            k \in StepLines(background') \cup replaced \cup UNION {StepLines(scenarios[n]) : n \in Names}
      BY <1>5, <2>3 DEF IInv, NoStepLost
    <3>. QED
      BY <1>4, <2>1, <3>1 DEF NoStepLost, StepLines
  <2>. QED
    BY <2>5, <2>6, <2>7, <2>8, <2>9, <2>10 DEF IInv
<1>. QED
  BY <1>8, <1>9

-----------------------------------------------------------------------------
THEOREM ParserStep == IInv /\ [Next]_vars => IInv'
<1>. SUFFICES ASSUME IInv, [Next]_vars PROVE IInv'
  OBVIOUS
<1>1. CASE EndOfFile
  <2>1. /\ NothingBuilt /\ UNCHANGED <<prev_mode, prev_line, mode>>
        /\ status = "reading" /\ status' = "done" /\ line_number' = line_number
    BY <1>1 DEF EndOfFile, cursor, NothingBuilt
  <2>2. TypeOK'
    BY <1>1 DEF EndOfFile, cursor, built, history, IInv, TypeOK
  <2>. QED
    BY <2>1, <2>2, NothingBuiltKeepsInv DEF IInv
<1>2. ASSUME NEW l \in Lines, ReadLine(l) PROVE IInv'
  <2>1. status = "reading" /\ line_number < MaxLines
    BY <1>2 DEF ReadLine
  <2>2. CASE DocstringLine(l) \/ SkipComment(l) \/ StepContent(l) \/ IgnoredLine(l) \/ Raise(l)
    BY <2>1, <2>2, QuietStep
  <2>3. CASE OtherLine(l) \/ DescriptionLine(l)
    BY <2>1, <2>3, PlainLine
  <2>4. CASE StartScenario(l)
    BY <2>1, <2>4, StartScenarioStep
  <2>5. CASE StartBackground(l)
    BY <2>1, <2>5, StartBackgroundStep
  <2>6. CASE ExamplesLine(l)
    BY <2>1, <2>6, ExamplesStep
  <2>7. CASE AddStep(l)
    BY <2>1, <2>7, AddStepStep
  <2>. QED
    BY <1>2, <2>2, <2>3, <2>4, <2>5, <2>6, <2>7 DEF ReadLine
<1>3. CASE UNCHANGED vars
  BY <1>3
  DEF vars, progress, cursor, built, history, IInv, TypeOK, CursorInv, LinesInv, TagsInv,
      StepsUnderTheirScenario, NoStepLost, StepsHaveAHome, StepLines
<1>. QED
  BY <1>1, <1>2, <1>3 DEF Next

LEMMA ParserInvariant == Spec => []IInv
  BY ParserInit, ParserStep, PTL DEF Spec

\* The parser's state stays well formed: it is in a docstring only under a
\* step, the cursor's tag is a tag, the scenarios are records of steps.
THEOREM ParserTypeOK == Spec => []TypeOK
<1>1. IInv => TypeOK
  BY DEF IInv
<1>. QED
  BY <1>1, ParserInvariant, PTL

\* The steps and rows of every scenario lie between its own line and the next
\* Scenario line, in files of every length.
THEOREM StepsStayUnderTheirScenario == Spec => []StepsUnderTheirScenario
<1>1. IInv => StepsUnderTheirScenario
  BY DEF IInv
<1>. QED
  BY <1>1, ParserInvariant, PTL

\* Every step line that is read as such belongs to the background, to a
\* scenario, or to one that was overwritten by its namesake.
THEOREM NoStepIsLost == Spec => []NoStepLost
<1>1. IInv => NoStepLost
  BY DEF IInv
<1>. QED
  BY <1>1, ParserInvariant, PTL

\* add_step is never called on the None that stands for no scenario.
THEOREM StepsAlwaysHaveAHome == Spec => []StepsHaveAHome
<1>1. IInv => StepsHaveAHome
  BY DEF IInv
<1>. QED
  BY <1>1, ParserInvariant, PTL

\* A scenario is skipped only for a marker above it or above the feature.
THEOREM SkipNeedsAMark == Spec => []SkippedOnlyIfMarked
<1>1. IInv => SkippedOnlyIfMarked
  <2>. SUFFICES ASSUME IInv, NEW n \in Names, scenarios[n] # None, Skipped(n)
                PROVE  (marked[n] \cup feature_marked) \cap SkipMarkers # {}
    BY DEF SkippedOnlyIfMarked
  <2>1. scenarios[n].tags \subseteq marked[n] /\ feature_tags \subseteq feature_marked
    BY DEF IInv, TagsInv
  <2>. QED
    BY <2>1 DEF Skipped
<1>. QED
  BY <1>1, ParserInvariant, PTL
=============================================================================
