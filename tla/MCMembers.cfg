SPECIFICATION SpecMembers
CONSTANTS
  olga = olga  amir = amir  bea = bea  olga2 = olga2  placeholder = placeholder
  olgaMail = olgaMail  amirMail = amirMail  beaMail = beaMail
  small = small  large = large  h1 = h1  h2 = h2
  None = None
  Ids = {olga, amir, bea, placeholder, olga2}
  Placeholders = {placeholder}
  EmailOf <- MCEmailOf
  Plans = {small, large}
  MaxMembers <- MCMaxMembers
  Founder = olga
  Guests = {amir}
  FirstPlan = small
  Handlers = {h1}
  Ops = {"role", "suspend", "unsuspend", "remove", "promote", "demote", "transfer", "leave", "invite", "accept", "deny", "sync", "plan", "stripe", "delete"}
  MaxRequested = 5
  MaxFaults = 1
INVARIANT OwnedAndBelonging
PROPERTIES  SuspensionHolds
CHECK_DEADLOCK FALSE
