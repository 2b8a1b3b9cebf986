\* Three subscriptions on pages of one.
SPECIFICATION FairSpec
CONSTANTS
  Lists <- Webhooks
  Count = 1
  MaxId = 3
PROPERTIES
  SubscriptionsEnd
CHECK_DEADLOCK FALSE
