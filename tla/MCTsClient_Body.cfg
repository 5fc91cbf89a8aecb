SPECIFICATION MCSpec
CONSTANTS
  Requests = {both, timed, signalled}
  Timed = {both, timed}
  Signalled = {both, signalled}
  Responses <- MCResponses
PROPERTIES
  TimeoutEndsRequest
