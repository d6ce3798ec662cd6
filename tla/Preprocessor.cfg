SPECIFICATION Spec
CONSTANTS
  Lines <- Sources
  MaxLines = 6
INVARIANTS SelectedBranches NestingFollowsSource InOrder DirectivesHandled
