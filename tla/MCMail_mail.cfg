SPECIFICATION MailSpec
CONSTANTS
  Parts = {"batch", "pages"}
  Messages = {a, b, gone}
  Missing = {gone}
  MaxItems = 3
  BatchSizes = {1, 2, 3}
  Ops = {"modify", "delete", "phishing"}
  Faults = {"refused", "lost"}
  Accounts = {work, home}
  Boot = work
  Queries = {inbox, sent}
  Inbox = inbox
  Pages = 2
  Reads = {r1, r2, r3}
  MaxChanges = 2
  MaxEditors = 0
  MaxTexts = 0
  MaxLives = 1
CHECK_DEADLOCK FALSE
INVARIANTS ReportIsTrue TypesOK PagesInOrder NoStuckPaging
PROPERTIES LoadingEnds
