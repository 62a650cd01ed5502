SPECIFICATION Spec
CONSTANTS
  prompt = prompt
  answer = answer
  mail = mail
  None = None
  Prompts = {prompt}
  Answers = {answer}
  Mails = {mail}
  MaxStops = 1
  MaxStarts = 2
INVARIANTS
  TypeOK
  OneOwnerAtATime
  RestIsRest
  RunsAreVisible
PROPERTIES
  OutcomesAreFinal
  StoppedStaysStopped
  WaitersEnd
CHECK_DEADLOCK FALSE
