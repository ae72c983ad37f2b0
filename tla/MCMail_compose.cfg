SPECIFICATION MailSpec
CONSTANTS
  Parts = {"drafts"}
  Messages = {a}
  Missing = {}
  MaxItems = 0
  BatchSizes = {1}
  Ops = {"modify"}
  Faults = {}
  Accounts = {work}
  Boot = work
  Queries = {inbox}
  Inbox = inbox
  Pages = 1
  Reads = {r1}
  MaxChanges = 0
  MaxEditors = 3
  MaxTexts = 2
  MaxLives = 2
CHECK_DEADLOCK FALSE
INVARIANTS WritingSurvives
