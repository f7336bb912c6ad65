CONSTANTS
  Arrivals <- MCArrivals
  AtBoot = 2
  Hidden = {"usb0"}
  MaxAlerts = 2
  MaxPushed = 2
  MenuScreens = {"dashboard", "traffic", "alerts", "settings"}
SPECIFICATION Spec
INVARIANTS CardsAgree SelectionIsCharted
PROPERTIES AlertsAreListed BadgeCatchesUp LaterTapIsShown
