SPECIFICATION Spec
CONSTANTS
  Route <- AppRoute
  Guards <- AppGuards
  Failures <- AppFailures
INVARIANTS AnsweredOnce OnRecord ReadableByBrowser
PROPERTY HandlersGuarded
