CONSTANTS
  Admins = {a1}
  Patches <- MCPatches
  Emails <- MCEmails
  Answers <- MCAnswers
  Selections = {{}, {"llm"}}
SPECIFICATION Spec
INVARIANT ScreenDecides
