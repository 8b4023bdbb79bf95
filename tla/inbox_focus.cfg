SPECIFICATION InboxSpec
CONSTANTS
  MaxItem = 3
  Fact <- MCFact
  Link <- MCLink
  Roles = {"authored"}
  Statuses = {"all"}
  Words = {"w"}
  MaxChanges = 2
  MaxFilters = 1
PROPERTY FocusRescued
